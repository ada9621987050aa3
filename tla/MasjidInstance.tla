--------------------------- MODULE MasjidInstance ---------------------------
(***************************************************************************)
(* smart-contract/src/protocol/MasjidInstance.sol: the treasury of one     *)
(* mosque.  Board members propose and approve cash-outs, the masjid admin  *)
(* executes or cancels them and manages the board, and the protocol        *)
(* contract changes the status and the admin.  A transaction is one        *)
(* action: a revert anywhere in it is a disabled action, which undoes      *)
(* everything the transaction did before.                                  *)
(*                                                                         *)
(* The roles are OpenZeppelin's AccessControl.  Its external functions     *)
(* stay callable on the instance and change a role without touching        *)
(* boardMemberCount or masjidAdmin: they are the actions marked external.  *)
(* PROTOCOL_ROLE belongs to the protocol contract for good (it never calls *)
(* grantRole), so SetAdmin and SetStatus carry no caller.  The token is    *)
(* an ERC20 that moves what it is asked to or reverts.                     *)
(*                                                                         *)
(* Left out: noteHash, proposer and verifiedAt, which nothing reads back,  *)
(* and setMetadataUri, which the protocol never calls.                     *)
(***************************************************************************)
EXTENDS Naturals, FiniteSets, Functions

CONSTANTS
  Address,             \* accounts that can send a transaction
  ZeroAddress,         \* address(0): never a sender
  Self,                \* the instance, as a holder of tokens
  Payee,               \* destinations a proposal may name
  FoundingAdmin,       \* masjidAdmin_ of the constructor
  FoundingBoard,       \* initialBoardMembers, without repetition
  FoundingThreshold,   \* threshold of the constructor
  Amount,              \* amounts a call may carry
  Lifetime,            \* values of expiresInSeconds
  Uint64,              \* 2^64: where uint64(..) wraps
  MaxRequests,         \* bound: cash-out requests
  MaxBoardCount,       \* bound: boardMemberCount
  MaxFunds,            \* bound: tokens ever donated
  MaxTime              \* bound: block.timestamp

ASSUME InstanceAssumption ==
  /\ IsFiniteSet(Address) /\ IsFiniteSet(Payee)     \* an address is 160 bits
  /\ ZeroAddress \notin Address
  /\ ZeroAddress \notin Payee \cup {Self}
  /\ FoundingAdmin \in Address
  /\ FoundingBoard \subseteq Address
  /\ FoundingThreshold \in 1..Cardinality(FoundingBoard)
  /\ Amount \subseteq Nat
  /\ Lifetime \subseteq Nat
  /\ Uint64 \in Nat
  /\ MaxRequests \in Nat
  /\ MaxBoardCount \in Nat
  /\ MaxFunds \in Nat
  /\ MaxTime \in Nat
  /\ 0 < MaxTime /\ MaxTime < Uint64     \* today's timestamps fit in 64 bits

VARIABLES
  status,             \* what the protocol last said of this mosque
  masjidAdmin,        \* the admin on record
  adminRole,          \* holders of ADMIN_ROLE
  boardRole,          \* holders of BOARD_ROLE
  boardMemberCount,   \* the counter the threshold is checked against
  cashOutThreshold,   \* approvals an execution needs
  cashOutNonce,       \* requests so far
  cashOutById,        \* the CashOutRequest struct of each id
  hasApprovedCashOut, \* who has approved each id
  balanceOf,          \* the token's balances
  totalCashIn,        \* sum of the amounts of CashIn events
  now                 \* block.timestamp

statusVars  == <<status>>
boardVars   == <<masjidAdmin, adminRole, boardRole, boardMemberCount, cashOutThreshold>>
requestVars == <<cashOutNonce, cashOutById, hasApprovedCashOut>>
tokenVars   == <<balanceOf, totalCashIn>>

vars == <<statusVars, boardVars, requestVars, tokenVars, now>>

RequestId == 1..MaxRequests
Holder    == Payee \cup {Self}
Status    == {"Unverified", "Verified", "Flagged", "Revoked"}

CashOutRequest ==
  [ to        : Holder \cup {ZeroAddress},
    amount    : Nat,
    createdAt : Nat,
    expiresAt : Nat,
    approvals : Nat,
    executed  : BOOLEAN,
    canceled  : BOOLEAN ]

\* An entry of the mapping that was never written.
NoRequest ==
  [ to |-> ZeroAddress, amount |-> 0, createdAt |-> 0, expiresAt |-> 0,
    approvals |-> 0, executed |-> FALSE, canceled |-> FALSE ]

\* The type of the instance's storage.
TypeOK ==
  /\ status \in Status
  /\ masjidAdmin \in Address
  /\ adminRole \subseteq Address
  /\ boardRole \subseteq Address
  /\ boardMemberCount \in Nat
  /\ cashOutThreshold \in Nat
  /\ cashOutNonce \in 0..MaxRequests
  /\ cashOutById \in [RequestId -> CashOutRequest]
  /\ hasApprovedCashOut \in [RequestId -> SUBSET Address]
  /\ balanceOf \in [Holder -> Nat]
  /\ totalCashIn \in Nat
  /\ now \in Nat

Init ==
  /\ status = "Unverified"
  /\ masjidAdmin = FoundingAdmin
  /\ adminRole = {FoundingAdmin}
  /\ boardRole = FoundingBoard
  /\ boardMemberCount = Cardinality(FoundingBoard)
  /\ cashOutThreshold = FoundingThreshold
  /\ cashOutNonce = 0
  /\ cashOutById = [id \in RequestId |-> NoRequest]
  /\ hasApprovedCashOut = [id \in RequestId |-> {}]
  /\ balanceOf = [h \in Holder |-> 0]
  /\ totalCashIn = 0
  /\ now = 1
----------------------------------------------------------------------------
Found(id) == cashOutById[id].createdAt # 0

\* Mutant: only a cancellation settles a request.
SettledByCancel(id) == cashOutById[id].canceled

\* Mutant: only an execution settles a request.
SettledByExecution(id) == cashOutById[id].executed

Settled(id) == cashOutById[id].executed \/ cashOutById[id].canceled

\* Mutant: nothing ever expires.
NeverExpired(id) == FALSE

Expired(id) == now > cashOutById[id].expiresAt

\* A donation: cashIn takes it whatever the status.  A plain token transfer to
\* the instance does the same to its balance; totalCashIn stands for both.
CashIn(amount) ==
  /\ amount # 0
  /\ totalCashIn + amount <= MaxFunds
  /\ balanceOf' = [balanceOf EXCEPT ![Self] = @ + amount]
  /\ totalCashIn' = totalCashIn + amount
  /\ UNCHANGED <<statusVars, boardVars, requestVars, now>>

\* Mutant: the nonce is read but not advanced, so a proposal replaces the last.
ProposeCashOutSameId(caller, to, amount, expiresIn) ==
  /\ caller \in boardRole
  /\ status = "Verified"
  /\ to # ZeroAddress /\ amount # 0 /\ expiresIn # 0
  /\ cashOutNonce < MaxRequests
  /\ cashOutById' = [cashOutById EXCEPT ![cashOutNonce + 1] =
       [ to |-> to, amount |-> amount, createdAt |-> now, expiresAt |-> now + expiresIn,
         approvals |-> 0, executed |-> FALSE, canceled |-> FALSE ] ]
  /\ UNCHANGED <<statusVars, boardVars, cashOutNonce, hasApprovedCashOut, tokenVars, now>>

ProposeCashOut(caller, to, amount, expiresIn) ==
  /\ caller \in boardRole
  /\ status = "Verified"
  /\ to # ZeroAddress
  /\ amount # 0
  /\ expiresIn # 0
  /\ cashOutNonce < MaxRequests
  /\ cashOutNonce' = cashOutNonce + 1
  /\ cashOutById' = [cashOutById EXCEPT ![cashOutNonce + 1] =
       [ to        |-> to,
         amount    |-> amount,
         createdAt |-> now,
         expiresAt |-> (now + expiresIn) % Uint64,
         approvals |-> 0,
         executed  |-> FALSE,
         canceled  |-> FALSE ] ]
  /\ UNCHANGED <<statusVars, boardVars, hasApprovedCashOut, tokenVars, now>>

\* Mutant: hasApprovedCashOut is not consulted.
ApproveCashOutAgain(caller, id) ==
  /\ caller \in boardRole
  /\ status = "Verified"
  /\ Found(id) /\ ~Settled(id) /\ ~Expired(id)
  /\ hasApprovedCashOut' = [hasApprovedCashOut EXCEPT ![id] = @ \cup {caller}]
  /\ cashOutById' = [cashOutById EXCEPT ![id].approvals = @ + 1]
  /\ UNCHANGED <<statusVars, boardVars, cashOutNonce, tokenVars, now>>

ApproveCashOut(caller, id) ==
  /\ caller \in boardRole
  /\ status = "Verified"
  /\ Found(id)
  /\ ~Settled(id)
  /\ ~Expired(id)
  /\ caller \notin hasApprovedCashOut[id]
  /\ hasApprovedCashOut' = [hasApprovedCashOut EXCEPT ![id] = @ \cup {caller}]
  /\ cashOutById' = [cashOutById EXCEPT ![id].approvals = @ + 1]
  /\ UNCHANGED <<statusVars, boardVars, cashOutNonce, tokenVars, now>>

\* Mutant: one approval short is enough.
ThresholdAlmostReached(id) == cashOutById[id].approvals + 1 >= cashOutThreshold

ThresholdReached(id) == cashOutById[id].approvals >= cashOutThreshold

\* Mutant: a short treasury pays what it has.
TransferAtMost(to, amount) ==
  LET paid == IF amount <= balanceOf[Self] THEN amount ELSE balanceOf[Self]
      debited == [balanceOf EXCEPT ![Self] = @ - paid]
  IN  balanceOf' = [debited EXCEPT ![to] = @ + paid]

\* The token moves the amount, or reverts when the treasury holds less.
Transfer(to, amount) ==
  /\ amount <= balanceOf[Self]
  /\ LET debited == [balanceOf EXCEPT ![Self] = @ - amount]
     IN  balanceOf' = [debited EXCEPT ![to] = @ + amount]

ExecuteCashOut(caller, id) ==
  /\ caller \in adminRole
  /\ status = "Verified"
  /\ Found(id)
  /\ ~Settled(id)
  /\ ~Expired(id)
  /\ ThresholdReached(id)
  /\ cashOutById' = [cashOutById EXCEPT ![id].executed = TRUE]
  /\ Transfer(cashOutById[id].to, cashOutById[id].amount)
  /\ UNCHANGED <<statusVars, boardVars, cashOutNonce, hasApprovedCashOut, totalCashIn, now>>

CancelCashOut(caller, id) ==
  /\ caller \in adminRole
  /\ Found(id)
  /\ ~Settled(id)
  /\ cashOutById' = [cashOutById EXCEPT ![id].canceled = TRUE]
  /\ UNCHANGED <<statusVars, boardVars, cashOutNonce, hasApprovedCashOut, tokenVars, now>>
----------------------------------------------------------------------------
\* setBoardMember(member, true)
AddBoardMember(caller, member) ==
  /\ caller \in adminRole
  /\ member # ZeroAddress
  /\ member \notin boardRole
  /\ boardMemberCount < MaxBoardCount
  /\ boardRole' = boardRole \cup {member}
  /\ boardMemberCount' = boardMemberCount + 1
  /\ UNCHANGED <<statusVars, masjidAdmin, adminRole, cashOutThreshold, requestVars, tokenVars, now>>

\* Mutant: the threshold is compared with the counter before the removal.
RemoveBoardMemberEarlyCheck(caller, member) ==
  /\ caller \in adminRole
  /\ member # ZeroAddress
  /\ boardMemberCount > 0
  /\ cashOutThreshold <= boardMemberCount
  /\ boardRole' = boardRole \ {member}
  /\ boardMemberCount' = boardMemberCount - 1
  /\ UNCHANGED <<statusVars, masjidAdmin, adminRole, cashOutThreshold, requestVars, tokenVars, now>>

\* setBoardMember(member, false): the counter goes down whoever the member is.
RemoveBoardMember(caller, member) ==
  /\ caller \in adminRole
  /\ member # ZeroAddress
  /\ boardMemberCount > 0
  /\ cashOutThreshold <= boardMemberCount - 1
  /\ boardRole' = boardRole \ {member}
  /\ boardMemberCount' = boardMemberCount - 1
  /\ UNCHANGED <<statusVars, masjidAdmin, adminRole, cashOutThreshold, requestVars, tokenVars, now>>

SetCashOutThreshold(caller, newThreshold) ==
  /\ caller \in adminRole
  /\ newThreshold \in 1..boardMemberCount
  /\ cashOutThreshold' = newThreshold
  /\ UNCHANGED <<statusVars, masjidAdmin, adminRole, boardRole, boardMemberCount,
                 requestVars, tokenVars, now>>

\* Mutant: the previous admin keeps the role.
SetAdminKeepsPrevious(newAdmin) ==
  /\ newAdmin # ZeroAddress
  /\ adminRole' = adminRole \cup {newAdmin}
  /\ masjidAdmin' = newAdmin
  /\ UNCHANGED <<statusVars, boardRole, boardMemberCount, cashOutThreshold,
                 requestVars, tokenVars, now>>

\* Mutant: the zero address is accepted as admin.
SetAdminUnchecked(newAdmin) ==
  /\ adminRole' = (adminRole \ {masjidAdmin}) \cup {newAdmin}
  /\ masjidAdmin' = newAdmin
  /\ UNCHANGED <<statusVars, boardRole, boardMemberCount, cashOutThreshold,
                 requestVars, tokenVars, now>>

SetAdmin(newAdmin) ==
  /\ newAdmin # ZeroAddress
  /\ adminRole' = (adminRole \ {masjidAdmin}) \cup {newAdmin}
  /\ masjidAdmin' = newAdmin
  /\ UNCHANGED <<statusVars, boardRole, boardMemberCount, cashOutThreshold,
                 requestVars, tokenVars, now>>

SetStatus(newStatus) ==
  /\ status' = newStatus
  /\ UNCHANGED <<boardVars, requestVars, tokenVars, now>>
----------------------------------------------------------------------------
\* External (AccessControl): grantRole(BOARD_ROLE, _) and revokeRole(BOARD_ROLE, _)
\* by a holder of its admin role, ADMIN_ROLE.
GrantBoardRole(caller, member) ==
  /\ caller \in adminRole
  /\ boardRole' = boardRole \cup {member}
  /\ UNCHANGED <<statusVars, masjidAdmin, adminRole, boardMemberCount, cashOutThreshold,
                 requestVars, tokenVars, now>>

RevokeBoardRole(caller, member) ==
  /\ caller \in adminRole
  /\ boardRole' = boardRole \ {member}
  /\ UNCHANGED <<statusVars, masjidAdmin, adminRole, boardMemberCount, cashOutThreshold,
                 requestVars, tokenVars, now>>

\* External (AccessControl): renounceRole by the holder.
RenounceBoardRole(caller) ==
  /\ boardRole' = boardRole \ {caller}
  /\ UNCHANGED <<statusVars, masjidAdmin, adminRole, boardMemberCount, cashOutThreshold,
                 requestVars, tokenVars, now>>

RenounceAdminRole(caller) ==
  /\ adminRole' = adminRole \ {caller}
  /\ UNCHANGED <<statusVars, masjidAdmin, boardRole, boardMemberCount, cashOutThreshold,
                 requestVars, tokenVars, now>>

\* A later block.
Tick ==
  /\ now < MaxTime
  /\ now' = now + 1
  /\ UNCHANGED <<statusVars, boardVars, requestVars, tokenVars>>
----------------------------------------------------------------------------
RequestStep(caller) ==
  \/ \E to \in Payee \cup {ZeroAddress}, amount \in Amount, expiresIn \in Lifetime :
       ProposeCashOut(caller, to, amount, expiresIn)
  \/ \E id \in RequestId :
       \/ ApproveCashOut(caller, id)
       \/ ExecuteCashOut(caller, id)
       \/ CancelCashOut(caller, id)

BoardStep(caller) ==
  \/ \E member \in Address \cup {ZeroAddress} :
       AddBoardMember(caller, member) \/ RemoveBoardMember(caller, member)
  \/ \E newThreshold \in 0..MaxBoardCount : SetCashOutThreshold(caller, newThreshold)

AccessControlStep(caller) ==
  \/ \E member \in Address : GrantBoardRole(caller, member) \/ RevokeBoardRole(caller, member)
  \/ RenounceBoardRole(caller)
  \/ RenounceAdminRole(caller)

ProtocolStep ==
  \/ \E newAdmin \in Address \cup {ZeroAddress} : SetAdmin(newAdmin)
  \/ \E newStatus \in Status \ {"Unverified"} : SetStatus(newStatus)

Next ==
  \/ \E amount \in Amount : CashIn(amount)
  \/ \E caller \in Address :
       RequestStep(caller) \/ BoardStep(caller) \/ AccessControlStep(caller)
  \/ ProtocolStep
  \/ Tick

Spec == Init /\ [][Next]_vars
----------------------------------------------------------------------------
(***************************************************************************)
(* The counter executeCashOut compares with the threshold is the number of *)
(* distinct accounts that approved, through role changes, re-grants and    *)
(* settlements (approveCashOut 226-241).                                   *)
(***************************************************************************)
ApprovalsAreDistinct ==
  \A id \in RequestId :
    cashOutById[id].approvals = Cardinality(hasApprovedCashOut[id])

(***************************************************************************)
(* However the board is edited, a cash-out needs at least one approval and *)
(* never more than the contract believes the board has members             *)
(* (setBoardMember 273-290, setCashOutThreshold 292-302).                  *)
(***************************************************************************)
ThresholdWithinCount ==
  cashOutThreshold \in 1..boardMemberCount

(***************************************************************************)
(* Execution and board management check ADMIN_ROLE, transferAdmin checks   *)
(* masjidAdmin: nobody but the admin on record ever holds the role, so a   *)
(* transfer in the middle of a cash-out leaves the old admin no power over *)
(* it, even when the role was renounced before (setAdmin 304-313).         *)
(***************************************************************************)
OnlyRecordedAdminHoldsRole ==
  adminRole \subseteq {masjidAdmin}

(***************************************************************************)
(* The token is conserved: what a destination other than the treasury has  *)
(* received is the sum of the executed requests that name it, and the      *)
(* treasury holds the donations less those sums.  Each executed request    *)
(* was paid once and in full, also when two approved requests together     *)
(* exceed the balance (executeCashOut 253-259).                            *)
(***************************************************************************)
PaidTo(h) == { id \in RequestId : cashOutById[id].executed /\ cashOutById[id].to = h }

Paid(h) == SumFunctionOnSet([id \in RequestId |-> cashOutById[id].amount], PaidTo(h))

TreasuryBalances ==
  /\ \A h \in Holder \ {Self} : balanceOf[h] = Paid(h)
  /\ SumFunctionOnSet(balanceOf, Holder) = totalCashIn

(***************************************************************************)
(* Money leaves the treasury only to settle one request that is found,     *)
(* neither canceled nor executed nor expired, that as many distinct        *)
(* accounts approved as the threshold in force at that moment, while the   *)
(* mosque is verified, and in exactly that request's amount; no status     *)
(* change, flag or admin transfer in between makes another way out         *)
(* (executeCashOut 243-260).  Two things here are the code's and not the   *)
(* documents': a request still pays at now = expiresAt (250), while        *)
(* docs/docs/smart-contracts/overview.md:118 says "`block.timestamp <      *)
(* expiresAt`"; and only the admin has it paid (243), while "any board     *)
(* member can call `executeCashOut(requestId)`" according to               *)
(* docs/docs/core-flow/user-flows.md:54 (also smart-contracts/             *)
(* overview.md:91, security/overview.md:27).                               *)
(***************************************************************************)
PaysFor(id) ==
  /\ Found(id)
  /\ ~Settled(id)
  /\ now <= cashOutById[id].expiresAt
  /\ Cardinality(hasApprovedCashOut[id]) >= cashOutThreshold
  /\ cashOutById'[id] = [cashOutById[id] EXCEPT !.executed = TRUE]
  /\ balanceOf'[Self] + cashOutById[id].amount = balanceOf[Self]

PayoutIsAuthorised ==
  [][ balanceOf'[Self] < balanceOf[Self] =>
        /\ status = "Verified"
        /\ adminRole # {}
        /\ \E id \in RequestId : PaysFor(id) ]_vars

(***************************************************************************)
(* Approvers approve terms: once proposed, the destination, the amount and *)
(* the expiry of a request never change, its approvals are never withdrawn *)
(* or reused, and only a current board member adds one                     *)
(* (proposeCashOut 199-214, approveCashOut 226-241).                       *)
(***************************************************************************)
Terms(r) == <<r.to, r.amount, r.createdAt, r.expiresAt>>

ApprovedTermsAreFixed ==
  [][ \A id \in RequestId : Found(id) =>
        /\ Terms(cashOutById'[id]) = Terms(cashOutById[id])
        /\ hasApprovedCashOut[id] \subseteq hasApprovedCashOut'[id]
        /\ hasApprovedCashOut'[id] \ hasApprovedCashOut[id] \subseteq boardRole ]_vars

(***************************************************************************)
(* An executed or canceled request is frozen: no later call pays it again, *)
(* revives it, marks it the other way or adds an approval to it            *)
(* (230-232, 248-250, 264-266).                                            *)
(***************************************************************************)
SettledIsFinal ==
  [][ \A id \in RequestId :
        cashOutById[id].executed \/ cashOutById[id].canceled =>
          /\ cashOutById'[id] = cashOutById[id]
          /\ hasApprovedCashOut'[id] = hasApprovedCashOut[id] ]_vars

(***************************************************************************)
(* docs/docs/security/overview.md:48 "Expired proposals cannot be approved *)
(* or executed": once block.timestamp has passed expiresAt, a request only *)
(* ever gets canceled, a lifetime that wraps in uint64 included (202, 233, *)
(* 250).                                                                   *)
(***************************************************************************)
ExpiredIsNeverPaid ==
  [][ \A id \in RequestId : Found(id) /\ now > cashOutById[id].expiresAt =>
        /\ now' > cashOutById'[id].expiresAt
        /\ cashOutById'[id].executed = cashOutById[id].executed
        /\ cashOutById'[id].approvals = cashOutById[id].approvals ]_vars

(***************************************************************************)
(* docs/docs/security/overview.md:42 "a majority of board members must     *)
(* approve any withdrawal before it can be executed".  The code compares   *)
(* with a threshold the admin sets anywhere in 1..boardMemberCount, and    *)
(* counts approvals of members removed since.                              *)
(***************************************************************************)
MajorityOfBoardApproves ==
  [][ \A id \in RequestId :
        cashOutById'[id].executed /\ ~cashOutById[id].executed =>
          2 * Cardinality(hasApprovedCashOut[id] \cap boardRole) > Cardinality(boardRole) ]_vars
----------------------------------------------------------------------------
(***************************************************************************)
(* The contract as a multi-signature treasury: a payment to the treasury   *)
(* itself takes nothing out of it.                                         *)
(***************************************************************************)
Phase(id) ==
  CASE cashOutById[id].executed -> "paid"
    [] cashOutById[id].canceled /\ ~cashOutById[id].executed -> "void"
    [] Found(id) /\ ~cashOutById[id].canceled /\ ~cashOutById[id].executed -> "open"
    [] OTHER -> "none"

Outflow(id) == IF cashOutById[id].to = Self THEN 0 ELSE cashOutById[id].amount

Treasury == INSTANCE MultisigTreasury WITH
  Person    <- Address,
  Payment   <- RequestId,
  funds     <- balanceOf[Self],
  required  <- cashOutThreshold,
  phase     <- [id \in RequestId |-> Phase(id)],
  value     <- [id \in RequestId |-> Outflow(id)],
  endorsers <- hasApprovedCashOut

(***************************************************************************)
(* Every behaviour of the contract is one of the multi-signature treasury: *)
(* each payment is opened once, endorsed by distinct accounts, and paid at *)
(* most once, in full, under the rule in force (MasjidInstance 170-302).   *)
(***************************************************************************)
ImplementsTreasury == Treasury!TreasurySpec
=============================================================================
