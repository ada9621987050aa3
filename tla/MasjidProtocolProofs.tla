------------------------ MODULE MasjidProtocolProofs ------------------------
(***************************************************************************)
(* Theorems about MasjidProtocol for any accounts, names, boards and       *)
(* number of mosques that ProtocolAssumption admits.                       *)
(***************************************************************************)
EXTENDS MasjidProtocol, FiniteSetTheorems, TLAPS

\* The registry counts with the same Cardinality.
LEMMA SameCardinality == \A S : Registry!Cardinality(S) = Cardinality(S)
BY DEF Registry!Cardinality, Cardinality

(***************************************************************************)
(* The mapping is written in the order of the nonce: an id up to the nonce *)
(* is a registered mosque, one beyond it is blank (register 145-163).      *)
(***************************************************************************)
RegisteredUpToNonce ==
  \A id \in MasjidId :
    /\ id <= masjidNonce => masjidById[id].status # "None" /\ masjidById[id].name \in Name
    /\ id > masjidNonce => masjidById[id] = NoMasjid /\ hasAttested[id] = {}

\* The threshold of a mosque is the one register derived from its array.
ThresholdFromBoard ==
  \A id \in MasjidId : masjidById[id].status # "None" =>
    masjidById[id].cashOutThreshold = InitialThreshold(masjidById[id].boardMembers)

\* Before it is verified a mosque's admin is its proposer (transferAdmin 228).
ProposerOfPending ==
  \A id \in MasjidId : masjidById[id].status = "Pending" =>
    masjidById[id].masjidAdmin = masjidById[id].proposer

\* The inductive invariant.
IInv ==
  /\ TypeOK
  /\ QuorumIsMajority
  /\ RegisteredUpToNonce
  /\ ThresholdFromBoard
  /\ ProposerOfPending
  /\ OneVotePerAccount
  /\ LiveMasjidHoldsItsName
  /\ InstanceMirrorsProtocol
  /\ DeployedBoardHasMajorityThreshold
----------------------------------------------------------------------------
\* One more distinct account raises the cardinality by one, one less lowers it.
LEMMA OneMore ==
  ASSUME NEW S \in SUBSET Address, NEW x
  PROVE  /\ Cardinality(S) \in Nat
         /\ x \notin S => Cardinality(S \cup {x}) = Cardinality(S) + 1
         /\ x \in S => Cardinality(S \ {x}) = Cardinality(S) - 1
<1>1. IsFiniteSet(S)
  BY ProtocolAssumption, FS_Subset
<1>. QED  BY <1>1, FS_AddElement, FS_RemoveElement, FS_CardinalityType

\* A board without repetition has as many members as the array has entries.
LEMMA DistinctBoardSize ==
  ASSUME NEW board \in Seq(Address \cup {ZeroAddress}),
         \A i, j \in DOMAIN board : board[i] = board[j] => i = j
  PROVE  Cardinality(Members(board)) = Len(board)
<1>1. Len(board) \in Nat /\ DOMAIN board = 1..Len(board)
  OBVIOUS
<1>2. board \in Surjection(1..Len(board), Members(board))
  BY <1>1 DEF Surjection, Members
<1>3. board \in Injection(1..Len(board), Members(board))
  BY <1>1, <1>2 DEF Surjection, Injection, IsInjective
<1>4. IsFiniteSet(1..Len(board)) /\ Cardinality(1..Len(board)) = Len(board)
  BY <1>1, FS_Interval
<1>. QED  BY <1>2, <1>3, <1>4, FS_Surjection

\* floor(n/2) + 1 of n is a strict majority of n.
LEMMA StrictMajority ==
  ASSUME NEW n \in Nat
  PROVE  (n \div 2) + 1 \in Nat /\ 2 * ((n \div 2) + 1) > n
OBVIOUS

\* A vote changes one counter of the struct by one and nothing else.
LEMMA VotedFields ==
  ASSUME NEW m \in Masjid, NEW support \in BOOLEAN
  PROVE  /\ Voted(m, support) \in Masjid
         /\ Voted(m, support).attestYes + Voted(m, support).attestNo
              = m.attestYes + m.attestNo + 1
         /\ Voted(m, support).name = m.name
         /\ Voted(m, support).proposer = m.proposer
         /\ Voted(m, support).masjidAdmin = m.masjidAdmin
         /\ Voted(m, support).boardMembers = m.boardMembers
         /\ Voted(m, support).cashOutThreshold = m.cashOutThreshold
<1>. DEFINE yes == [m EXCEPT !.attestYes = @ + 1]
            no  == [m EXCEPT !.attestNo = @ + 1]
<1>1. m.attestYes \in Nat /\ m.attestNo \in Nat
  BY DEF Masjid
<1>2. CASE support
  <2>1. Voted(m, support) = yes
    BY <1>2 DEF Voted
  <2>2. yes \in Masjid /\ yes.attestYes = m.attestYes + 1 /\ yes.attestNo = m.attestNo
    BY <1>1 DEF Masjid
  <2>3. /\ yes.name = m.name /\ yes.proposer = m.proposer /\ yes.masjidAdmin = m.masjidAdmin
        /\ yes.boardMembers = m.boardMembers /\ yes.cashOutThreshold = m.cashOutThreshold
    BY DEF Masjid
  <2>. HIDE DEF yes
  <2>. QED  BY <1>1, <2>1, <2>2, <2>3
<1>3. CASE ~support
  <2>1. Voted(m, support) = no
    BY <1>3 DEF Voted
  <2>2. no \in Masjid /\ no.attestNo = m.attestNo + 1 /\ no.attestYes = m.attestYes
    BY <1>1 DEF Masjid
  <2>3. /\ no.name = m.name /\ no.proposer = m.proposer /\ no.masjidAdmin = m.masjidAdmin
        /\ no.boardMembers = m.boardMembers /\ no.cashOutThreshold = m.cashOutThreshold
    BY DEF Masjid
  <2>. HIDE DEF no
  <2>. QED  BY <1>1, <2>1, <2>2, <2>3
<1>. QED  BY <1>2, <1>3

LEMMA DecisionType == ASSUME NEW m PROVE Decision(m) \in {"Verified", "Rejected", "Pending"}
BY DEF Decision

(***************************************************************************)
(* What attest does to the mosque it is about.                             *)
(***************************************************************************)
LEMMA AttestEffect ==
  ASSUME TypeOK, NEW caller \in Address, NEW id \in MasjidId, NEW support \in BOOLEAN,
         Attest(caller, id, support)
  PROVE  /\ masjidById[id].status = "Pending"
         /\ caller \in isVerifier /\ caller \notin hasAttested[id]
         /\ hasAttested' = [hasAttested EXCEPT ![id] = @ \cup {caller}]
         /\ masjidById'[id] \in Masjid
         /\ masjidById' = [masjidById EXCEPT ![id] = masjidById'[id]]
         /\ masjidById'[id].status \in {"Verified", "Rejected", "Pending"}
         /\ masjidById'[id].attestYes + masjidById'[id].attestNo
              = masjidById[id].attestYes + masjidById[id].attestNo + 1
         /\ masjidById'[id].name = masjidById[id].name
         /\ masjidById'[id].proposer = masjidById[id].proposer
         /\ masjidById'[id].masjidAdmin = masjidById[id].masjidAdmin
         /\ masjidById'[id].boardMembers = masjidById[id].boardMembers
         /\ masjidById'[id].cashOutThreshold = masjidById[id].cashOutThreshold
         /\ \/ masjidById'[id].status = "Verified" /\ DeployMasjid(id, Voted(masjidById[id], support))
            \/ masjidById'[id].status # "Verified" /\ UNCHANGED instances
         /\ UNCHANGED <<registryVars, masjidNonce, masjidIdByName>>
<1>. DEFINE voted == Voted(masjidById[id], support)
            decision == Decision(voted)
<1>1. masjidById[id] \in Masjid
  BY DEF TypeOK
<1>2. /\ voted \in Masjid
      /\ voted.attestYes + voted.attestNo = masjidById[id].attestYes + masjidById[id].attestNo + 1
      /\ voted.name = masjidById[id].name
      /\ voted.proposer = masjidById[id].proposer
      /\ voted.masjidAdmin = masjidById[id].masjidAdmin
      /\ voted.boardMembers = masjidById[id].boardMembers
      /\ voted.cashOutThreshold = masjidById[id].cashOutThreshold
  BY <1>1, VotedFields
<1>3. decision \in {"Verified", "Rejected", "Pending"}
  BY DecisionType
<1>4. /\ MayAttest(caller, id)
      /\ hasAttested' = [hasAttested EXCEPT ![id] = @ \cup {caller}]
      /\ masjidById' = [masjidById EXCEPT ![id] = [voted EXCEPT !.status = decision]]
      /\ \/ decision = "Verified" /\ DeployMasjid(id, voted)
         \/ decision # "Verified" /\ UNCHANGED instances
      /\ UNCHANGED <<registryVars, masjidNonce, masjidIdByName>>
  BY DEF Attest
<1>. HIDE DEF voted, decision
<1>5. masjidById'[id] = [voted EXCEPT !.status = decision]
  BY <1>4 DEF TypeOK
<1>6. /\ masjidById'[id] \in Masjid
      /\ masjidById'[id].status = decision
      /\ masjidById'[id].attestYes = voted.attestYes
      /\ masjidById'[id].attestNo = voted.attestNo
      /\ masjidById'[id].name = voted.name
      /\ masjidById'[id].proposer = voted.proposer
      /\ masjidById'[id].masjidAdmin = voted.masjidAdmin
      /\ masjidById'[id].boardMembers = voted.boardMembers
      /\ masjidById'[id].cashOutThreshold = voted.cashOutThreshold
  BY <1>2, <1>3, <1>5 DEF Masjid, MasjidStatus
<1>7. masjidById' = [masjidById EXCEPT ![id] = masjidById'[id]]
  BY <1>4, <1>5
<1>. QED  BY <1>2, <1>3, <1>4, <1>6, <1>7 DEF MayAttest, voted
----------------------------------------------------------------------------
\* The constructors establish the invariant.
LEMMA InitIInv == Init => IInv
<1>. SUFFICES ASSUME Init PROVE IInv
  OBVIOUS
<1>. USE ProtocolAssumption DEF Init, Registry!RegistryInit
<1>1. NoMasjid \in Masjid /\ NoInstance \in Instance
  BY DEF NoMasjid, Masjid, MasjidStatus, NoInstance, Instance
<1>2. TypeOK
  BY <1>1 DEF TypeOK, Registry!RegistryTypeOK
<1>3. QuorumIsMajority
  BY FS_EmptySet, SameCardinality DEF QuorumIsMajority, Registry!QuorumIsMajority, Registry!quorum
<1>4. RegisteredUpToNonce /\ ThresholdFromBoard /\ ProposerOfPending
  BY DEF RegisteredUpToNonce, ThresholdFromBoard, ProposerOfPending, MasjidId, NoMasjid
<1>5. OneVotePerAccount
  BY FS_EmptySet DEF OneVotePerAccount, NoMasjid
<1>6. LiveMasjidHoldsItsName /\ InstanceMirrorsProtocol
  BY DEF LiveMasjidHoldsItsName, InstanceMirrorsProtocol, NoMasjid
<1>7. DeployedBoardHasMajorityThreshold
  BY DEF DeployedBoardHasMajorityThreshold, Deployed, NoInstance
<1>. QED  BY <1>2, <1>3, <1>4, <1>5, <1>6, <1>7 DEF IInv

(***************************************************************************)
(* The registry's counter follows its list, however verifiers come and go. *)
(***************************************************************************)
LEMMA RegistryIInv ==
  ASSUME IInv, RegistryStep
  PROVE  IInv'
<1>. USE DEF IInv, TypeOK, Registry!RegistryTypeOK
<1>1. verifierCount = Cardinality(isVerifier) /\ verifierCount \in Nat
  BY SameCardinality DEF QuorumIsMajority, Registry!QuorumIsMajority
<1>2. /\ authority' \in Address /\ isVerifier' \subseteq Address
      /\ verifierCount' = Cardinality(isVerifier') /\ verifierCount' \in Nat
  <2>. PICK caller \in Address, target \in Address \cup {ZeroAddress} :
         \/ Registry!TransferAuthority(caller, target)
         \/ Registry!AddVerifier(caller, target)
         \/ Registry!RemoveVerifier(caller, target)
    BY DEF RegistryStep, Registry!RegistryNext
  <2>1. CASE Registry!TransferAuthority(caller, target)
    BY <1>1, <2>1 DEF Registry!TransferAuthority
  <2>2. CASE Registry!AddVerifier(caller, target)
    BY <1>1, <2>2, OneMore DEF Registry!AddVerifier
  <2>3. CASE Registry!RemoveVerifier(caller, target)
    <3>1. isVerifier' = isVerifier \ {target} /\ verifierCount' = Cardinality(isVerifier')
      BY <1>1, <2>3, OneMore DEF Registry!RemoveVerifier
    <3>2. isVerifier' \in SUBSET Address
      BY <3>1
    <3>. QED  BY <2>3, <3>1, <3>2, OneMore DEF Registry!RemoveVerifier
  <2>. QED  BY <2>1, <2>2, <2>3
<1>3. QuorumIsMajority'
  BY <1>2, StrictMajority, SameCardinality
     DEF QuorumIsMajority, Registry!QuorumIsMajority, Registry!quorum
<1>4. UNCHANGED protocolVars
  BY DEF RegistryStep
<1>5. TypeOK'
  BY <1>2, <1>4 DEF protocolVars
<1>6. RegisteredUpToNonce' /\ ThresholdFromBoard' /\ ProposerOfPending' /\ OneVotePerAccount'
  BY <1>4 DEF protocolVars, RegisteredUpToNonce, ThresholdFromBoard, ProposerOfPending,
              OneVotePerAccount
<1>7. LiveMasjidHoldsItsName' /\ InstanceMirrorsProtocol'
  BY <1>4 DEF protocolVars, LiveMasjidHoldsItsName, InstanceMirrorsProtocol
<1>8. DeployedBoardHasMajorityThreshold'
  BY <1>4 DEF protocolVars, DeployedBoardHasMajorityThreshold, Deployed
<1>. QED  BY <1>3, <1>5, <1>6, <1>7, <1>8

\* A step that leaves the registry alone leaves its majority alone.
LEMMA RegistryUntouched ==
  ASSUME QuorumIsMajority, Registry!RegistryTypeOK, UNCHANGED registryVars
  PROVE  QuorumIsMajority' /\ Registry!RegistryTypeOK'
BY DEF QuorumIsMajority, Registry!QuorumIsMajority, Registry!quorum, Registry!RegistryTypeOK,
       registryVars

(***************************************************************************)
(* A registration fills the next entry and takes a name nobody live holds. *)
(***************************************************************************)
LEMMA RegisterIInv ==
  ASSUME IInv, NEW caller \in Proposer, NEW name \in Name \cup {EmptyName}, NEW stablecoin,
         NEW boardMembers \in BoardList, Register(caller, name, stablecoin, boardMembers)
  PROVE  IInv'
<1>. DEFINE m == [ proposer |-> caller, masjidAdmin |-> caller, name |-> name,
                   boardMembers |-> boardMembers,
                   cashOutThreshold |-> InitialThreshold(boardMembers),
                   attestYes |-> 0, attestNo |-> 0, status |-> "Pending" ]
<1>. USE DEF IInv, TypeOK
<1>1. PICK new \in MasjidId : new = masjidNonce + 1
  BY ProtocolAssumption DEF Register, MasjidId
<1>2. /\ masjidNonce' = new /\ masjidNonce' \in 0..MaxMasjid /\ masjidNonce \in Nat
      /\ name \in Name
      /\ NameFree(name)
      /\ masjidById' = [masjidById EXCEPT ![new] = m]
      /\ masjidIdByName' = [masjidIdByName EXCEPT ![name] = new]
      /\ UNCHANGED <<registryVars, hasAttested, instances>>
  BY <1>1, ProtocolAssumption DEF Register, MasjidId
<1>3. m \in Masjid
  <2>1. boardMembers \in Seq(Address \cup {ZeroAddress}) /\ caller \in Address
    BY ProtocolAssumption
  <2>2. InitialThreshold(boardMembers) \in Nat
    BY <2>1, StrictMajority DEF InitialThreshold
  <2>. QED  BY <1>2, <2>1, <2>2 DEF Masjid, MasjidStatus
<1>4. masjidById[new] = NoMasjid /\ hasAttested[new] = {}
  BY <1>1, <1>2 DEF RegisteredUpToNonce
<1>5. /\ masjidById'[new] = m
      /\ \A id \in MasjidId \ {new} : masjidById'[id] = masjidById[id]
  BY <1>2
<1>6. TypeOK'
  <2>1. masjidById' \in [MasjidId -> Masjid]
    BY <1>2, <1>3
  <2>2. masjidIdByName' \in [Name -> 0..MaxMasjid]
    BY <1>2
  <2>. QED  BY <1>2, <2>1, <2>2, RegistryUntouched DEF registryVars
<1>7. QuorumIsMajority'
  BY <1>2, RegistryUntouched
<1>8. RegisteredUpToNonce'
  <2>. SUFFICES ASSUME NEW id \in MasjidId
                PROVE  /\ id <= masjidNonce' => masjidById'[id].status # "None"
                                                /\ masjidById'[id].name \in Name
                       /\ id > masjidNonce' => masjidById'[id] = NoMasjid
                                               /\ hasAttested'[id] = {}
    BY DEF RegisteredUpToNonce
  <2>1. CASE id = new
    BY <1>2, <1>5, <2>1 DEF MasjidId
  <2>2. CASE id # new
    BY <1>1, <1>2, <1>5, <2>2 DEF RegisteredUpToNonce, MasjidId
  <2>. QED  BY <2>1, <2>2
<1>9. ThresholdFromBoard' /\ ProposerOfPending'
  BY <1>5 DEF ThresholdFromBoard, ProposerOfPending
<1>10. OneVotePerAccount'
  <2>1. masjidById'[new].attestYes + masjidById'[new].attestNo = Cardinality(hasAttested'[new])
    BY <1>2, <1>4, <1>5, FS_EmptySet
  <2>. HIDE DEF m
  <2>. QED  BY <1>2, <1>5, <2>1 DEF OneVotePerAccount
<1>11. LiveMasjidHoldsItsName'
  <2>. SUFFICES ASSUME NEW id \in MasjidId, masjidById'[id].status \notin {"None", "Rejected"}
                PROVE  masjidIdByName'[masjidById'[id].name] = id
    BY DEF LiveMasjidHoldsItsName
  <2>1. CASE id = new
    BY <1>2, <1>5, <2>1
  <2>2. CASE id # new
    <3>1. masjidById'[id] = masjidById[id] /\ masjidIdByName[masjidById[id].name] = id
      BY <1>5, <2>2 DEF LiveMasjidHoldsItsName
    <3>2. masjidById[id].name # name
      BY <1>2, <3>1 DEF NameFree, MasjidId
    <3>3. masjidById[id].name \in Name
      BY <1>2, <1>5, <2>2 DEF RegisteredUpToNonce, MasjidId, NoMasjid
    <3>. QED  BY <1>2, <3>1, <3>2, <3>3
  <2>. QED  BY <2>1, <2>2
<1>12. InstanceMirrorsProtocol'
  <2>1. instances[new] = NoInstance
    BY <1>4 DEF InstanceMirrorsProtocol, NoMasjid
  <2>. QED  BY <1>2, <1>5, <2>1 DEF InstanceMirrorsProtocol
<1>13. DeployedBoardHasMajorityThreshold'
  BY <1>2 DEF DeployedBoardHasMajorityThreshold, Deployed
<1>. QED  BY <1>6, <1>7, <1>8, <1>9, <1>10, <1>11, <1>12, <1>13

(***************************************************************************)
(* A step that changes one registered mosque without changing its name,    *)
(* board or threshold, revives no rejected mosque, and keeps the tables.   *)
(***************************************************************************)
LEMMA RecordKeeps ==
  ASSUME IInv, NEW id \in MasjidId,
         masjidById[id].status \notin {"None", "Rejected"},
         masjidById' = [masjidById EXCEPT ![id] = masjidById'[id]],
         masjidById'[id] \in Masjid,
         masjidById'[id].status # "None",
         masjidById'[id].name = masjidById[id].name,
         masjidById'[id].boardMembers = masjidById[id].boardMembers,
         masjidById'[id].cashOutThreshold = masjidById[id].cashOutThreshold,
         \A other \in MasjidId \ {id} : hasAttested'[other] = hasAttested[other],
         UNCHANGED <<registryVars, masjidNonce, masjidIdByName>>
  PROVE  /\ masjidById' \in [MasjidId -> Masjid]
         /\ \A other \in MasjidId \ {id} : masjidById'[other] = masjidById[other]
         /\ Registry!RegistryTypeOK' /\ QuorumIsMajority'
         /\ RegisteredUpToNonce'
         /\ ThresholdFromBoard'
         /\ LiveMasjidHoldsItsName'
<1>. USE DEF IInv, TypeOK
<1>1. /\ masjidById' \in [MasjidId -> Masjid]
      /\ \A other \in MasjidId \ {id} : masjidById'[other] = masjidById[other]
  OBVIOUS
<1>2. Registry!RegistryTypeOK' /\ QuorumIsMajority'
  BY RegistryUntouched
<1>3. id <= masjidNonce
  BY DEF RegisteredUpToNonce, NoMasjid, MasjidId
<1>4. RegisteredUpToNonce'
  <2>. SUFFICES ASSUME NEW other \in MasjidId
                PROVE  /\ other <= masjidNonce => masjidById'[other].status # "None"
                                                  /\ masjidById'[other].name \in Name
                       /\ other > masjidNonce => masjidById'[other] = NoMasjid
                                                 /\ hasAttested'[other] = {}
    BY DEF RegisteredUpToNonce
  <2>1. CASE other = id
    BY <1>3, <2>1 DEF RegisteredUpToNonce, MasjidId
  <2>2. CASE other # id
    BY <1>1, <2>2 DEF RegisteredUpToNonce
  <2>. QED  BY <2>1, <2>2
<1>5. ThresholdFromBoard'
  BY <1>1 DEF ThresholdFromBoard
<1>6. LiveMasjidHoldsItsName'
  BY <1>1 DEF LiveMasjidHoldsItsName
<1>. QED  BY <1>1, <1>2, <1>4, <1>5, <1>6

\* A vote is counted once, and a deployed instance starts as the mirror of it.
LEMMA AttestIInv ==
  ASSUME IInv, NEW caller \in Address, NEW id \in MasjidId, NEW support \in BOOLEAN,
         Attest(caller, id, support)
  PROVE  IInv'
<1>. DEFINE voted == Voted(masjidById[id], support)
<1>. USE DEF IInv, TypeOK
<1>1. /\ masjidById[id].status = "Pending"
      /\ caller \in isVerifier /\ caller \notin hasAttested[id]
      /\ hasAttested' = [hasAttested EXCEPT ![id] = @ \cup {caller}]
      /\ masjidById'[id] \in Masjid
      /\ masjidById' = [masjidById EXCEPT ![id] = masjidById'[id]]
      /\ masjidById'[id].status \in {"Verified", "Rejected", "Pending"}
      /\ masjidById'[id].attestYes + masjidById'[id].attestNo
           = masjidById[id].attestYes + masjidById[id].attestNo + 1
      /\ masjidById'[id].name = masjidById[id].name
      /\ masjidById'[id].proposer = masjidById[id].proposer
      /\ masjidById'[id].masjidAdmin = masjidById[id].masjidAdmin
      /\ masjidById'[id].boardMembers = masjidById[id].boardMembers
      /\ masjidById'[id].cashOutThreshold = masjidById[id].cashOutThreshold
      /\ \/ masjidById'[id].status = "Verified" /\ DeployMasjid(id, voted)
         \/ masjidById'[id].status # "Verified" /\ UNCHANGED instances
      /\ UNCHANGED <<registryVars, masjidNonce, masjidIdByName>>
  BY AttestEffect
<1>2. /\ masjidById[id] \in Masjid
      /\ voted.proposer = masjidById[id].proposer
      /\ voted.boardMembers = masjidById[id].boardMembers
      /\ voted.cashOutThreshold = masjidById[id].cashOutThreshold
  BY VotedFields
<1>. HIDE DEF voted
<1>3. \A other \in MasjidId \ {id} : hasAttested'[other] = hasAttested[other]
  BY <1>1
<1>4. /\ masjidById' \in [MasjidId -> Masjid]
      /\ \A other \in MasjidId \ {id} : masjidById'[other] = masjidById[other]
      /\ Registry!RegistryTypeOK' /\ QuorumIsMajority'
      /\ RegisteredUpToNonce' /\ ThresholdFromBoard' /\ LiveMasjidHoldsItsName'
  BY <1>1, <1>3, RecordKeeps
<1>5. hasAttested' \in [MasjidId -> SUBSET Address]
  BY <1>1
<1>6. OneVotePerAccount'
  <2>1. hasAttested[id] \in SUBSET Address
    OBVIOUS
  <2>2. Cardinality(hasAttested[id] \cup {caller}) = Cardinality(hasAttested[id]) + 1
    BY <1>1, <2>1, OneMore
  <2>3. masjidById'[id].attestYes + masjidById'[id].attestNo = Cardinality(hasAttested'[id])
    BY <1>1, <2>2 DEF OneVotePerAccount
  <2>. QED  BY <1>3, <1>4, <2>3 DEF OneVotePerAccount
<1>7. ProposerOfPending'
  BY <1>1, <1>4 DEF ProposerOfPending
<1>8. CASE masjidById'[id].status # "Verified"
  <2>1. UNCHANGED instances
    BY <1>1, <1>8
  <2>2. InstanceMirrorsProtocol'
    BY <1>1, <1>4, <1>8, <2>1 DEF InstanceMirrorsProtocol
  <2>3. DeployedBoardHasMajorityThreshold'
    BY <2>1 DEF DeployedBoardHasMajorityThreshold, Deployed
  <2>. QED  BY <1>1, <1>4, <1>5, <1>6, <1>7, <2>1, <2>2, <2>3
<1>9. CASE masjidById'[id].status = "Verified"
  <2>. DEFINE fresh == [ status |-> "Verified", masjidAdmin |-> voted.proposer,
                         boardRole |-> Members(voted.boardMembers),
                         cashOutThreshold |-> voted.cashOutThreshold ]
              board == masjidById[id].boardMembers
  <2>1. /\ ~Deployed(id) /\ ConstructorAccepts(voted)
        /\ instances' = [instances EXCEPT ![id] = fresh]
    BY <1>1, <1>9 DEF DeployMasjid
  <2>2. board \in Seq(Address \cup {ZeroAddress}) /\ Len(board) \in Nat
    BY <1>2 DEF Masjid
  <2>3. Members(board) \subseteq Address \cup {ZeroAddress} /\ ZeroAddress \notin Members(board)
    BY <1>2, <2>1, <2>2 DEF Members, ConstructorAccepts
  <2>4. fresh \in Instance
    BY <1>2, <2>3 DEF Instance, Masjid
  <2>5. instances' \in [MasjidId -> Instance] /\ instances'[id] = fresh
        /\ \A other \in MasjidId \ {id} : instances'[other] = instances[other]
    BY <2>1, <2>4
  <2>6. InstanceMirrorsProtocol'
    <3>1. masjidById'[id].masjidAdmin = fresh.masjidAdmin
      BY <1>1, <1>2 DEF ProposerOfPending
    <3>. QED  BY <1>4, <1>9, <2>5, <3>1 DEF InstanceMirrorsProtocol
  <2>7. DeployedBoardHasMajorityThreshold'
    <3>1. Cardinality(Members(board)) = Len(board)
      BY <1>2, <2>1, <2>2, DistinctBoardSize DEF ConstructorAccepts
    <3>2. fresh.cashOutThreshold = (Len(board) \div 2) + 1
      BY <1>1, <1>2 DEF ThresholdFromBoard, InitialThreshold
    <3>3. fresh.cashOutThreshold \in 1..Len(board)
      BY <1>2, <2>1 DEF ConstructorAccepts
    <3>4. 2 * fresh.cashOutThreshold > Len(board)
      BY <2>2, <3>2, StrictMajority
    <3>5. fresh.boardRole = Members(board)
      BY <1>2
    <3>. HIDE DEF fresh, board
    <3>6. /\ ZeroAddress \notin fresh.boardRole
          /\ fresh.cashOutThreshold <= Cardinality(fresh.boardRole)
          /\ 2 * fresh.cashOutThreshold > Cardinality(fresh.boardRole)
      BY <2>2, <2>3, <3>1, <3>3, <3>4, <3>5
    <3>. QED  BY <2>5, <3>6 DEF DeployedBoardHasMajorityThreshold, Deployed
  <2>. QED  BY <1>1, <1>4, <1>5, <1>6, <1>7, <2>5, <2>6, <2>7
<1>. QED  BY <1>8, <1>9

(***************************************************************************)
(* transferAdmin and _setStatus write the status and the admin of one      *)
(* deployed mosque to both contracts, and no more than that.               *)
(***************************************************************************)
LEMMA MirroredWrite ==
  ASSUME IInv, NEW id \in MasjidId,
         masjidById[id].status \in {"Verified", "Flagged", "Revoked"},
         Deployed(id),
         masjidById' = [masjidById EXCEPT ![id] = masjidById'[id]],
         instances' = [instances EXCEPT ![id] = instances'[id]],
         UNCHANGED <<registryVars, masjidNonce, masjidIdByName, hasAttested>>,
         masjidById'[id] \in Masjid,
         masjidById'[id].status \in {"Verified", "Flagged", "Revoked"},
         masjidById'[id].attestYes = masjidById[id].attestYes,
         masjidById'[id].attestNo = masjidById[id].attestNo,
         masjidById'[id].name = masjidById[id].name,
         masjidById'[id].boardMembers = masjidById[id].boardMembers,
         masjidById'[id].cashOutThreshold = masjidById[id].cashOutThreshold,
         instances'[id] \in Instance,
         instances'[id].status = masjidById'[id].status,
         instances'[id].masjidAdmin = masjidById'[id].masjidAdmin,
         instances'[id].boardRole = instances[id].boardRole,
         instances'[id].cashOutThreshold = instances[id].cashOutThreshold
  PROVE  IInv'
<1>. USE DEF IInv, TypeOK
<1>1. /\ masjidById' \in [MasjidId -> Masjid]
      /\ \A other \in MasjidId \ {id} : masjidById'[other] = masjidById[other]
      /\ Registry!RegistryTypeOK' /\ QuorumIsMajority'
      /\ RegisteredUpToNonce' /\ ThresholdFromBoard' /\ LiveMasjidHoldsItsName'
  BY RecordKeeps
<1>2. /\ instances' \in [MasjidId -> Instance]
      /\ \A other \in MasjidId \ {id} : instances'[other] = instances[other]
  OBVIOUS
<1>3. OneVotePerAccount' /\ ProposerOfPending'
  BY <1>1 DEF OneVotePerAccount, ProposerOfPending
<1>4. InstanceMirrorsProtocol'
  BY <1>1, <1>2 DEF InstanceMirrorsProtocol
<1>5. DeployedBoardHasMajorityThreshold'
  BY <1>2 DEF DeployedBoardHasMajorityThreshold, Deployed
<1>. QED  BY <1>1, <1>2, <1>3, <1>4, <1>5

\* A transfer rewrites the admin in both records.
LEMMA TransferAdminIInv ==
  ASSUME IInv, NEW caller \in Address, NEW id \in MasjidId,
         NEW newAdmin \in Address \cup {ZeroAddress}, TransferAdmin(caller, id, newAdmin)
  PROVE  IInv'
<1>. USE DEF IInv, TypeOK
<1>1. masjidById[id] \in Masjid /\ instances[id] \in Instance
  OBVIOUS
<1>2. /\ masjidById'[id] = [masjidById[id] EXCEPT !.masjidAdmin = newAdmin]
      /\ masjidById' = [masjidById EXCEPT ![id] = masjidById'[id]]
      /\ instances'[id] = [instances[id] EXCEPT !.masjidAdmin = newAdmin]
      /\ instances' = [instances EXCEPT ![id] = instances'[id]]
      /\ UNCHANGED <<registryVars, masjidNonce, masjidIdByName, hasAttested>>
      /\ Deployed(id)
  BY DEF TransferAdmin
<1>3. /\ masjidById'[id] \in Masjid
      /\ masjidById'[id].status = masjidById[id].status
      /\ masjidById'[id].attestYes = masjidById[id].attestYes
      /\ masjidById'[id].attestNo = masjidById[id].attestNo
      /\ masjidById'[id].name = masjidById[id].name
      /\ masjidById'[id].boardMembers = masjidById[id].boardMembers
      /\ masjidById'[id].cashOutThreshold = masjidById[id].cashOutThreshold
      /\ masjidById'[id].masjidAdmin = newAdmin
  BY <1>1, <1>2 DEF Masjid
<1>4. /\ instances'[id] \in Instance
      /\ instances'[id].status = instances[id].status
      /\ instances'[id].boardRole = instances[id].boardRole
      /\ instances'[id].cashOutThreshold = instances[id].cashOutThreshold
      /\ instances'[id].masjidAdmin = newAdmin
  BY <1>1, <1>2 DEF Instance
<1>5. /\ masjidById[id].status \in {"Verified", "Flagged", "Revoked"}
      /\ instances[id].status = masjidById[id].status
  BY <1>2 DEF InstanceMirrorsProtocol, Deployed, NoInstance
<1>. QED  BY <1>2, <1>3, <1>4, <1>5, MirroredWrite

\* A status change is written to both records.
LEMMA SetStatusIInv ==
  ASSUME IInv, NEW caller \in Address, NEW id \in MasjidId,
         NEW newStatus \in {"Verified", "Flagged", "Revoked"},
         masjidById[id].status \in {"Verified", "Flagged", "Revoked"},
         SetStatus(caller, id, newStatus)
  PROVE  IInv'
<1>. USE DEF IInv, TypeOK
<1>1. masjidById[id] \in Masjid /\ instances[id] \in Instance
  OBVIOUS
<1>2. /\ masjidById'[id] = [masjidById[id] EXCEPT !.status = newStatus]
      /\ masjidById' = [masjidById EXCEPT ![id] = masjidById'[id]]
      /\ instances'[id] = [instances[id] EXCEPT !.status = newStatus]
      /\ instances' = [instances EXCEPT ![id] = instances'[id]]
      /\ UNCHANGED <<registryVars, masjidNonce, masjidIdByName, hasAttested>>
      /\ Deployed(id)
  BY DEF SetStatus
<1>3. /\ masjidById'[id] \in Masjid
      /\ masjidById'[id].status = newStatus
      /\ masjidById'[id].attestYes = masjidById[id].attestYes
      /\ masjidById'[id].attestNo = masjidById[id].attestNo
      /\ masjidById'[id].name = masjidById[id].name
      /\ masjidById'[id].boardMembers = masjidById[id].boardMembers
      /\ masjidById'[id].cashOutThreshold = masjidById[id].cashOutThreshold
      /\ masjidById'[id].masjidAdmin = masjidById[id].masjidAdmin
  BY <1>1, <1>2 DEF Masjid, MasjidStatus
<1>4. /\ instances'[id] \in Instance
      /\ instances'[id].status = newStatus
      /\ instances'[id].boardRole = instances[id].boardRole
      /\ instances'[id].cashOutThreshold = instances[id].cashOutThreshold
      /\ instances'[id].masjidAdmin = instances[id].masjidAdmin
  BY <1>1, <1>2 DEF Instance
<1>5. instances[id].masjidAdmin = masjidById[id].masjidAdmin
  BY DEF InstanceMirrorsProtocol
<1>. QED  BY <1>2, <1>3, <1>4, <1>5, MirroredWrite
----------------------------------------------------------------------------
(***************************************************************************)
(* The invariant is inductive: one case per transaction.                   *)
(***************************************************************************)
LEMMA NextIInv == IInv /\ [Next]_vars => IInv'
<1>. SUFFICES ASSUME IInv, [Next]_vars PROVE IInv'
  OBVIOUS
<1>1. CASE RegistryStep
  BY <1>1, RegistryIInv
<1>2. ASSUME NEW caller \in Proposer, NEW name \in Name \cup {EmptyName},
             NEW stablecoin \in Stablecoin \cup {ZeroAddress}, NEW boardMembers \in BoardList,
             Register(caller, name, stablecoin, boardMembers)
      PROVE  IInv'
  BY <1>2, RegisterIInv
<1>3. ASSUME NEW caller \in Address, NEW id \in MasjidId, NEW support \in BOOLEAN,
             Attest(caller, id, support)
      PROVE  IInv'
  BY <1>3, AttestIInv
<1>4. ASSUME NEW caller \in Address, NEW id \in MasjidId,
             NEW newAdmin \in Address \cup {ZeroAddress}, TransferAdmin(caller, id, newAdmin)
      PROVE  IInv'
  BY <1>4, TransferAdminIInv
<1>5. ASSUME NEW caller \in Address, NEW id \in MasjidId,
             Flag(caller, id) \/ Unflag(caller, id) \/ Revoke(caller, id)
      PROVE  IInv'
  BY <1>5, SetStatusIInv DEF Flag, Unflag, Revoke
<1>6. CASE UNCHANGED vars
  BY <1>6 DEF vars, registryVars, protocolVars, IInv, TypeOK, Registry!RegistryTypeOK,
              QuorumIsMajority, Registry!QuorumIsMajority, Registry!quorum,
              RegisteredUpToNonce, ThresholdFromBoard, ProposerOfPending, OneVotePerAccount,
              LiveMasjidHoldsItsName, InstanceMirrorsProtocol,
              DeployedBoardHasMajorityThreshold, Deployed
<1>. QED  BY <1>1, <1>2, <1>3, <1>4, <1>5, <1>6 DEF Next

THEOREM Invariance == Spec => []IInv
BY InitIInv, NextIInv, PTL DEF Spec

(***************************************************************************)
(* Storage keeps its types, for any number of accounts and mosques: the    *)
(* registry's counter in particular never goes below zero (40-59).         *)
(***************************************************************************)
THEOREM TypeCorrect == Spec => []TypeOK
BY Invariance, PTL DEF IInv

(***************************************************************************)
(* quorum() is a strict majority of the current verifiers at every vote    *)
(* (VerifierRegistry.sol 61-63).                                           *)
(***************************************************************************)
THEOREM QuorumStaysMajority == Spec => []QuorumIsMajority
BY Invariance, PTL DEF IInv

(***************************************************************************)
(* No account votes twice on a mosque, removed and re-added verifiers      *)
(* included (MasjidProtocol.sol 172-194).                                  *)
(***************************************************************************)
THEOREM VotesAreDistinct == Spec => []OneVotePerAccount
BY Invariance, PTL DEF IInv

(***************************************************************************)
(* Two mosques that are not rejected never share a name (138-163).         *)
(***************************************************************************)
THEOREM NamesAreHeld == Spec => []LiveMasjidHoldsItsName
BY Invariance, PTL DEF IInv

(***************************************************************************)
(* The status and the admin in the two contracts agree after every         *)
(* transaction (196-237, 272-283).                                         *)
(***************************************************************************)
THEOREM InstancesMirrorProtocol == Spec => []InstanceMirrorsProtocol
BY Invariance, PTL DEF IInv

(***************************************************************************)
(* Every deployed treasury starts with distinct, real board members and a  *)
(* strict majority of them as its threshold, for boards of any size (155,  *)
(* MasjidInstance.sol 108-156).                                            *)
(***************************************************************************)
THEOREM BoardsStartSound == Spec => []DeployedBoardHasMajorityThreshold
BY Invariance, PTL DEF IInv
----------------------------------------------------------------------------
(***************************************************************************)
(* What one step can do to the record of one mosque.                       *)
(***************************************************************************)
RecordKept(id) ==
  masjidById'[id] = masjidById[id] /\ hasAttested'[id] = hasAttested[id]

RegisteredNow(id) ==
  /\ masjidById[id] = NoMasjid
  /\ masjidById'[id].status = "Pending"
  /\ masjidById'[id].attestYes = 0 /\ masjidById'[id].attestNo = 0
  /\ hasAttested'[id] = hasAttested[id]

VotedOn(id) ==
  /\ masjidById[id].status = "Pending"
  /\ masjidById'[id].status \in {"Pending", "Verified", "Rejected"}
  /\ \E caller \in isVerifier : hasAttested'[id] = hasAttested[id] \cup {caller}

Administered(id) ==
  /\ \/ masjidById'[id].status = masjidById[id].status
     \/ masjidById'[id].status \in Successors[masjidById[id].status]
  /\ masjidById'[id].attestYes = masjidById[id].attestYes
  /\ masjidById'[id].attestNo = masjidById[id].attestNo
  /\ hasAttested'[id] = hasAttested[id]

LEMMA RecordChanges ==
  ASSUME IInv, [Next]_vars, NEW id \in MasjidId
  PROVE  RecordKept(id) \/ RegisteredNow(id) \/ VotedOn(id) \/ Administered(id)
<1>. DEFINE Goal == RecordKept(id) \/ RegisteredNow(id) \/ VotedOn(id) \/ Administered(id)
<1>. USE DEF IInv, TypeOK
<1>1. RegistryStep \/ UNCHANGED vars => RecordKept(id)
  BY DEF RegistryStep, vars, protocolVars, RecordKept
<1>2. ASSUME NEW caller \in Proposer, NEW name \in Name \cup {EmptyName},
             NEW stablecoin \in Stablecoin \cup {ZeroAddress}, NEW boardMembers \in BoardList,
             Register(caller, name, stablecoin, boardMembers)
      PROVE  RecordKept(id) \/ RegisteredNow(id)
  <2>1. CASE id = masjidNonce + 1
    BY <1>2, <2>1 DEF Register, RegisteredNow, RegisteredUpToNonce, MasjidId
  <2>2. CASE id # masjidNonce + 1
    BY <1>2, <2>2 DEF Register, RecordKept
  <2>. QED  BY <2>1, <2>2
<1>3. ASSUME NEW caller \in Address, NEW other \in MasjidId, NEW support \in BOOLEAN,
             Attest(caller, other, support)
      PROVE  RecordKept(id) \/ VotedOn(id)
  <2>1. /\ masjidById[other].status = "Pending" /\ caller \in isVerifier
        /\ hasAttested' = [hasAttested EXCEPT ![other] = @ \cup {caller}]
        /\ masjidById' = [masjidById EXCEPT ![other] = masjidById'[other]]
        /\ masjidById'[other].status \in {"Verified", "Rejected", "Pending"}
    BY <1>3, AttestEffect
  <2>. QED  BY <2>1 DEF RecordKept, VotedOn
<1>4. ASSUME NEW caller \in Address, NEW other \in MasjidId,
             NEW newAdmin \in Address \cup {ZeroAddress}, TransferAdmin(caller, other, newAdmin)
      PROVE  RecordKept(id) \/ Administered(id)
  <2>1. masjidById[id] \in Masjid
    OBVIOUS
  <2>. QED  BY <1>4, <2>1 DEF TransferAdmin, RecordKept, Administered, Masjid
<1>5. ASSUME NEW caller \in Address, NEW other \in MasjidId,
             Flag(caller, other) \/ Unflag(caller, other) \/ Revoke(caller, other)
      PROVE  RecordKept(id) \/ Administered(id)
  <2>1. masjidById[id] \in Masjid
    OBVIOUS
  <2>2. PICK newStatus \in Successors[masjidById[other].status] : SetStatus(caller, other, newStatus)
    BY <1>5 DEF Flag, Unflag, Revoke, Successors
  <2>. QED  BY <2>1, <2>2 DEF SetStatus, RecordKept, Administered, Masjid
<1>. QED  BY <1>1, <1>2, <1>3, <1>4, <1>5 DEF Next

(***************************************************************************)
(* A mosque moves only along the arrows of Successors, so a rejection and  *)
(* a revocation are final (14-21, 189-257).                                *)
(***************************************************************************)
THEOREM StatusForward == Spec => StatusMovesForward
<1>. DEFINE Step == \A id \in MasjidId :
        masjidById'[id].status # masjidById[id].status =>
          masjidById'[id].status \in Successors[masjidById[id].status]
<1>1. ASSUME IInv, [Next]_vars PROVE Step
  <2>. SUFFICES ASSUME NEW id \in MasjidId, masjidById'[id].status # masjidById[id].status
                PROVE  masjidById'[id].status \in Successors[masjidById[id].status]
    OBVIOUS
  <2>1. RegisteredNow(id) \/ VotedOn(id) \/ Administered(id)
    BY <1>1, RecordChanges DEF RecordKept
  <2>. QED  BY <2>1 DEF RegisteredNow, VotedOn, Administered, NoMasjid, Successors
<1>2. IInv /\ [Next]_vars => [Step]_vars
  BY <1>1
<1>. HIDE DEF Step
<1>3. Spec => [][Step]_vars
  BY <1>2, Invariance, PTL DEF Spec
<1>. QED  BY <1>3 DEF StatusMovesForward, Step

(***************************************************************************)
(* The votes that decided a mosque stay on record, and only current        *)
(* verifiers add to an open vote (150-160, 172-183).                       *)
(***************************************************************************)
THEOREM VerdictsKeepVotes == Spec => VerdictKeepsItsVotes
<1>. DEFINE Step == \A id \in MasjidId :
        hasAttested'[id] # hasAttested[id]
        \/ masjidById'[id].attestYes # masjidById[id].attestYes
        \/ masjidById'[id].attestNo # masjidById[id].attestNo =>
          /\ masjidById[id].status = "Pending"
          /\ hasAttested'[id] \ hasAttested[id] \subseteq isVerifier
<1>1. ASSUME IInv, [Next]_vars PROVE Step
  <2>. SUFFICES ASSUME NEW id \in MasjidId,
                       \/ hasAttested'[id] # hasAttested[id]
                       \/ masjidById'[id].attestYes # masjidById[id].attestYes
                       \/ masjidById'[id].attestNo # masjidById[id].attestNo
                PROVE  VotedOn(id)
    BY DEF VotedOn
  <2>. QED
    BY <1>1, RecordChanges DEF RecordKept, RegisteredNow, Administered, NoMasjid
<1>2. IInv /\ [Next]_vars => [Step]_vars
  BY <1>1
<1>. HIDE DEF Step
<1>3. Spec => [][Step]_vars
  BY <1>2, Invariance, PTL DEF Spec
<1>. QED  BY <1>3 DEF VerdictKeepsItsVotes, Step

\* As many votes as the quorum of the moment are more than half of the verifiers.
LEMMA QuorumNow ==
  ASSUME TypeOK, QuorumIsMajority, NEW votes \in Nat
  PROVE  votes >= Registry!quorum <=> MajorityNow(votes)
<1>1. Registry!quorum = (verifierCount \div 2) + 1 /\ verifierCount \in Nat
      /\ verifierCount = Cardinality(isVerifier)
  BY SameCardinality DEF TypeOK, Registry!RegistryTypeOK, Registry!quorum, QuorumIsMajority,
                         Registry!QuorumIsMajority
<1>. QED  BY <1>1 DEF MajorityNow

\* Only a vote on it decides a pending mosque.
LEMMA PendingChanges ==
  ASSUME IInv, [Next]_vars, NEW id \in MasjidId, masjidById[id].status = "Pending"
  PROVE  \/ RecordKept(id) \/ RegisteredNow(id)
         \/ Administered(id) /\ masjidById'[id].status = "Pending"
         \/ \E caller \in Address, support \in BOOLEAN : Attest(caller, id, support)
<1>. USE DEF IInv, TypeOK
<1>1. RegistryStep \/ UNCHANGED vars => RecordKept(id)
  BY DEF RegistryStep, vars, protocolVars, RecordKept
<1>2. ASSUME NEW caller \in Proposer, NEW name \in Name \cup {EmptyName},
             NEW stablecoin \in Stablecoin \cup {ZeroAddress}, NEW boardMembers \in BoardList,
             Register(caller, name, stablecoin, boardMembers)
      PROVE  RecordKept(id)
  <2>1. id # masjidNonce + 1
    BY <1>2 DEF Register, RegisteredUpToNonce, NoMasjid, MasjidId
  <2>. QED  BY <1>2, <2>1 DEF Register, RecordKept
<1>3. ASSUME NEW caller \in Address, NEW other \in MasjidId, NEW support \in BOOLEAN,
             other # id, Attest(caller, other, support)
      PROVE  RecordKept(id)
  BY <1>3 DEF Attest, RecordKept
<1>4. ASSUME NEW caller \in Address, NEW other \in MasjidId,
             NEW newAdmin \in Address \cup {ZeroAddress}, TransferAdmin(caller, other, newAdmin)
      PROVE  RecordKept(id) \/ (Administered(id) /\ masjidById'[id].status = "Pending")
  <2>1. masjidById[id] \in Masjid
    OBVIOUS
  <2>. QED  BY <1>4, <2>1 DEF TransferAdmin, RecordKept, Administered, Masjid
<1>5. ASSUME NEW caller \in Address, NEW other \in MasjidId,
             Flag(caller, other) \/ Unflag(caller, other) \/ Revoke(caller, other)
      PROVE  RecordKept(id)
  <2>1. other # id
    BY <1>5 DEF Flag, Unflag, Revoke
  <2>. QED  BY <1>5, <2>1 DEF Flag, Unflag, Revoke, SetStatus, RecordKept
<1>. QED  BY <1>1, <1>2, <1>3, <1>4, <1>5 DEF Next

(***************************************************************************)
(* A verdict has the votes of more than half of the verifiers there are as *)
(* it falls, and is not put off once they are there (attest 188-193).      *)
(***************************************************************************)
THEOREM VerdictsHaveMajority == Spec => VerdictHasMajority
<1>. DEFINE Sound(id) ==
        LET m == masjidById'[id] IN
        /\ m.status = "Verified" => MajorityNow(m.attestYes)
        /\ m.status = "Rejected" => MajorityNow(m.attestNo)
        /\ hasAttested'[id] # hasAttested[id] /\ m.status = "Pending" =>
             ~MajorityNow(m.attestYes) /\ ~MajorityNow(m.attestNo)
      Step == \A id \in MasjidId : masjidById[id].status = "Pending" => Sound(id)
<1>1. ASSUME IInv, [Next]_vars PROVE Step
  <2>. SUFFICES ASSUME NEW id \in MasjidId, masjidById[id].status = "Pending"
                PROVE  Sound(id)
    OBVIOUS
  <2>. USE DEF IInv
  <2>1. ASSUME RecordKept(id) \/ RegisteredNow(id)
        PROVE  Sound(id)
    BY <2>1 DEF RecordKept, RegisteredNow, NoMasjid
  <2>2. ASSUME NEW caller \in Address, NEW support \in BOOLEAN, Attest(caller, id, support)
        PROVE  Sound(id)
    <3>. DEFINE voted == Voted(masjidById[id], support)
    <3>1. masjidById[id] \in Masjid /\ voted \in Masjid
      BY <1>1, VotedFields DEF TypeOK
    <3>2. masjidById'[id] = [voted EXCEPT !.status = Decision(voted)]
      BY <1>1, <2>2 DEF Attest, TypeOK
    <3>. HIDE DEF voted
    <3>3. /\ masjidById'[id].status = Decision(voted)
          /\ masjidById'[id].attestYes = voted.attestYes
          /\ masjidById'[id].attestNo = voted.attestNo
          /\ voted.attestYes \in Nat /\ voted.attestNo \in Nat
      BY <3>1, <3>2 DEF Masjid
    <3>4. /\ voted.attestYes >= Registry!quorum <=> MajorityNow(voted.attestYes)
          /\ voted.attestNo >= Registry!quorum <=> MajorityNow(voted.attestNo)
      BY <1>1, <3>3, QuorumNow
    <3>5. Registry!quorum \in Nat
      BY <1>1 DEF TypeOK, Registry!RegistryTypeOK, Registry!quorum
    <3>. QED  BY <3>3, <3>4, <3>5 DEF Decision
  <2>3. CASE \E caller \in Address, support \in BOOLEAN : Attest(caller, id, support)
    BY <2>2, <2>3
  <2>4. CASE RecordKept(id) \/ RegisteredNow(id)
    BY <2>1, <2>4
  <2>5. CASE Administered(id) /\ masjidById'[id].status = "Pending"
    BY <2>5 DEF Administered
  <2>. QED  BY <1>1, <2>3, <2>4, <2>5, PendingChanges
<1>2. IInv /\ [Next]_vars => [Step]_vars
  BY <1>1
<1>. HIDE DEF Step
<1>3. Spec => [][Step]_vars
  BY <1>2, Invariance, PTL DEF Spec
<1>. QED  BY <1>3 DEF VerdictHasMajority, Step
=============================================================================
