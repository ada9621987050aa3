------------------------ MODULE MasjidInstanceProofs ------------------------
(***************************************************************************)
(* Theorems about MasjidInstance for every set of accounts, board,         *)
(* threshold and bound that InstanceAssumption admits.                     *)
(***************************************************************************)
EXTENDS MasjidInstance, FoldProofs

(***************************************************************************)
(* The mapping is written in the order of the nonce: an id up to the nonce *)
(* holds a request, one beyond it holds nothing and nobody approved it     *)
(* (MasjidInstance.sol 199-214).                                           *)
(***************************************************************************)
RequestsUpToNonce ==
  \A id \in RequestId :
    /\ id <= cashOutNonce => Found(id)
    /\ id > cashOutNonce => cashOutById[id] = NoRequest /\ hasApprovedCashOut[id] = {}

\* No request is both executed and canceled, and none is expired at block 0.
OneSettlement ==
  /\ now >= 1
  /\ \A id \in RequestId : ~(cashOutById[id].executed /\ cashOutById[id].canceled)

\* The inductive invariant.
IInv ==
  /\ TypeOK
  /\ ThresholdWithinCount
  /\ OnlyRecordedAdminHoldsRole
  /\ RequestsUpToNonce
  /\ OneSettlement
  /\ ApprovalsAreDistinct
----------------------------------------------------------------------------
\* uint64(x) of the source is a natural number.
LEMMA TruncationType ==
  ASSUME NEW t \in Nat
  PROVE  t % Uint64 \in Nat
BY InstanceAssumption

\* One more distinct approver raises the number of approvers by one.
LEMMA OneMoreApprover ==
  ASSUME NEW S \in SUBSET Address, NEW x \in Address, x \notin S
  PROVE  Cardinality(S \cup {x}) = Cardinality(S) + 1
<1>1. IsFiniteSet(S)
  BY InstanceAssumption, FS_Subset
<1>. QED  BY <1>1, FS_AddElement

\* The token's balances stay natural numbers: a short transfer reverts.
LEMMA TransferType ==
  ASSUME balanceOf \in [Holder -> Nat], NEW to, NEW amount \in Nat, Transfer(to, amount)
  PROVE  balanceOf' \in [Holder -> Nat]
<1>. DEFINE debited == [balanceOf EXCEPT ![Self] = @ - amount]
<1>1. balanceOf[Self] \in Nat /\ amount <= balanceOf[Self] /\ Self \in Holder
  BY DEF Transfer, Holder
<1>2. debited \in [Holder -> Nat]
  BY <1>1
<1>3. balanceOf' = [debited EXCEPT ![to] = @ + amount]
  BY DEF Transfer
<1>. HIDE DEF debited
<1>4. to \in Holder => debited[to] + amount \in Nat
  BY <1>2
<1>5. CASE to \in Holder
  BY <1>2, <1>3, <1>4, <1>5
<1>6. CASE to \notin Holder
  BY <1>2, <1>3, <1>6
<1>. QED  BY <1>5, <1>6

\* The constructor leaves a well-typed instance.
LEMMA InitTypeOK == Init => TypeOK
<1>. SUFFICES ASSUME Init PROVE TypeOK
  OBVIOUS
<1>1. Cardinality(FoundingBoard) \in Nat
  BY InstanceAssumption, FS_Subset, FS_CardinalityType
<1>2. FoundingThreshold \in Nat
  BY <1>1, InstanceAssumption
<1>3. cashOutById \in [RequestId -> CashOutRequest]
  BY DEF Init, NoRequest, CashOutRequest
<1>. QED
  BY <1>1, <1>2, <1>3, InstanceAssumption
     DEF Init, TypeOK, Status, Holder, RequestId

\* Every transaction leaves a well-typed instance.
LEMMA NextTypeOK == TypeOK /\ [Next]_vars => TypeOK'
<1>. SUFFICES ASSUME TypeOK, [Next]_vars PROVE TypeOK'
  OBVIOUS
<1>. USE DEF TypeOK, RequestId, Holder
<1>1. ASSUME NEW amount \in Amount, CashIn(amount) PROVE TypeOK'
  BY <1>1, InstanceAssumption DEF CashIn, statusVars, boardVars, requestVars
<1>2. ASSUME NEW caller \in Address, RequestStep(caller) PROVE TypeOK'
  <2>1. ASSUME NEW to \in Payee \cup {ZeroAddress}, NEW amount \in Amount,
               NEW expiresIn \in Lifetime, ProposeCashOut(caller, to, amount, expiresIn)
        PROVE  TypeOK'
    <3>1. (now + expiresIn) % Uint64 \in Nat
      BY TruncationType, InstanceAssumption
    <3>2. cashOutNonce' \in 0..MaxRequests /\ cashOutNonce + 1 \in RequestId
      BY <2>1, InstanceAssumption DEF ProposeCashOut
    <3>3. cashOutById' \in [RequestId -> CashOutRequest]
      BY <2>1, <3>1, <3>2, InstanceAssumption DEF ProposeCashOut, CashOutRequest
    <3>. QED  BY <2>1, <3>2, <3>3 DEF ProposeCashOut, statusVars, boardVars, tokenVars
  <2>2. ASSUME NEW id \in RequestId, ApproveCashOut(caller, id) PROVE TypeOK'
    <3>. DEFINE r == [cashOutById[id] EXCEPT !.approvals = @ + 1]
    <3>. cashOutById[id].approvals + 1 \in Nat
      BY DEF CashOutRequest
    <3>. r \in CashOutRequest
      BY DEF CashOutRequest
    <3>. cashOutById' = [cashOutById EXCEPT ![id] = r]
      BY <2>2 DEF ApproveCashOut
    <3>1. cashOutById' \in [RequestId -> CashOutRequest]
      OBVIOUS
    <3>2. hasApprovedCashOut' \in [RequestId -> SUBSET Address]
      BY <2>2 DEF ApproveCashOut
    <3>. QED  BY <2>2, <3>1, <3>2 DEF ApproveCashOut, statusVars, boardVars, tokenVars
  <2>3. ASSUME NEW id \in RequestId, ExecuteCashOut(caller, id) PROVE TypeOK'
    <3>1. cashOutById' \in [RequestId -> CashOutRequest]
      BY <2>3 DEF ExecuteCashOut, CashOutRequest
    <3>2. cashOutById[id].amount \in Nat
      BY DEF CashOutRequest
    <3>3. balanceOf' \in [Holder -> Nat]
      BY <2>3, <3>2, TransferType DEF ExecuteCashOut
    <3>. QED  BY <2>3, <3>1, <3>3 DEF ExecuteCashOut, statusVars, boardVars
  <2>4. ASSUME NEW id \in RequestId, CancelCashOut(caller, id) PROVE TypeOK'
    BY <2>4 DEF CancelCashOut, CashOutRequest, statusVars, boardVars, tokenVars
  <2>. QED  BY <1>2, <2>1, <2>2, <2>3, <2>4 DEF RequestStep
<1>3. ASSUME NEW caller \in Address, BoardStep(caller) PROVE TypeOK'
  <2>1. ASSUME NEW member \in Address \cup {ZeroAddress}, AddBoardMember(caller, member)
        PROVE  TypeOK'
    BY <2>1 DEF AddBoardMember, statusVars, requestVars, tokenVars
  <2>2. ASSUME NEW member \in Address \cup {ZeroAddress}, RemoveBoardMember(caller, member)
        PROVE  TypeOK'
    BY <2>2 DEF RemoveBoardMember, statusVars, requestVars, tokenVars
  <2>3. ASSUME NEW newThreshold \in 0..MaxBoardCount, SetCashOutThreshold(caller, newThreshold)
        PROVE  TypeOK'
    BY <2>3 DEF SetCashOutThreshold, statusVars, requestVars, tokenVars
  <2>. QED  BY <1>3, <2>1, <2>2, <2>3 DEF BoardStep
<1>4. ASSUME NEW caller \in Address, AccessControlStep(caller) PROVE TypeOK'
  BY <1>4 DEF AccessControlStep, GrantBoardRole, RevokeBoardRole, RenounceBoardRole,
              RenounceAdminRole, statusVars, requestVars, tokenVars
<1>5. CASE ProtocolStep
  BY <1>5 DEF ProtocolStep, SetAdmin, SetStatus, statusVars, boardVars, requestVars, tokenVars
<1>6. CASE Tick
  BY <1>6 DEF Tick, statusVars, boardVars, requestVars, tokenVars
<1>7. CASE UNCHANGED vars
  BY <1>7 DEF vars, statusVars, boardVars, requestVars, tokenVars
<1>. QED  BY <1>1, <1>2, <1>3, <1>4, <1>5, <1>6, <1>7 DEF Next

(***************************************************************************)
(* Storage keeps its types in every reachable state, for boards, requests  *)
(* and lifetimes of any size (MasjidInstance.sol 86-106).                  *)
(***************************************************************************)
THEOREM TypeCorrect == Spec => []TypeOK
BY InitTypeOK, NextTypeOK, PTL DEF Spec
----------------------------------------------------------------------------
\* The constructor establishes the inductive invariant.
LEMMA InitIInv == Init => IInv
<1>. SUFFICES ASSUME Init PROVE IInv
  OBVIOUS
<1>1. TypeOK
  BY InitTypeOK
<1>2. ThresholdWithinCount /\ OnlyRecordedAdminHoldsRole
  BY InstanceAssumption DEF Init, ThresholdWithinCount, OnlyRecordedAdminHoldsRole
<1>3. RequestsUpToNonce
  BY InstanceAssumption DEF Init, RequestsUpToNonce, RequestId, Found
<1>4. OneSettlement
  BY DEF Init, OneSettlement, NoRequest
<1>5. ApprovalsAreDistinct
  BY FS_EmptySet DEF Init, ApprovalsAreDistinct, NoRequest
<1>. QED  BY <1>1, <1>2, <1>3, <1>4, <1>5 DEF IInv

(***************************************************************************)
(* A step that writes no request keeps what the invariant says of them.    *)
(***************************************************************************)
LEMMA RequestsUntouched ==
  ASSUME RequestsUpToNonce, OneSettlement, ApprovalsAreDistinct,
         UNCHANGED requestVars, now' \in Nat, now' >= now, now \in Nat
  PROVE  RequestsUpToNonce' /\ OneSettlement' /\ ApprovalsAreDistinct'
BY DEF RequestsUpToNonce, OneSettlement, ApprovalsAreDistinct, requestVars, Found

\* A proposal fills the next free entry.
LEMMA ProposeIInv ==
  ASSUME IInv, TypeOK', NEW caller \in Address, NEW to \in Payee \cup {ZeroAddress},
         NEW amount \in Amount, NEW expiresIn \in Lifetime,
         ProposeCashOut(caller, to, amount, expiresIn)
  PROVE  IInv'
<1>. USE DEF IInv, TypeOK, RequestId
<1>. DEFINE new == cashOutNonce + 1
<1>1. /\ new \in RequestId /\ cashOutNonce' = new /\ hasApprovedCashOut' = hasApprovedCashOut
      /\ now' = now /\ now # 0
  BY InstanceAssumption DEF ProposeCashOut, OneSettlement
<1>2. /\ cashOutById'[new].createdAt = now
      /\ cashOutById'[new].approvals = 0
      /\ ~cashOutById'[new].executed
      /\ hasApprovedCashOut[new] = {}
  BY <1>1 DEF ProposeCashOut, RequestsUpToNonce
<1>3. \A id \in RequestId \ {new} : cashOutById'[id] = cashOutById[id]
  BY DEF ProposeCashOut
<1>. HIDE DEF new
<1>4. RequestsUpToNonce'
  <2>. SUFFICES ASSUME NEW id \in RequestId
                PROVE  /\ id <= cashOutNonce' => Found(id)'
                       /\ id > cashOutNonce' => cashOutById'[id] = NoRequest
                                                /\ hasApprovedCashOut'[id] = {}
    BY DEF RequestsUpToNonce
  <2>1. CASE id = new
    BY <2>1, <1>1, <1>2 DEF Found
  <2>2. CASE id # new
    BY <2>2, <1>1, <1>3 DEF RequestsUpToNonce, Found, new
  <2>. QED  BY <2>1, <2>2
<1>5. OneSettlement'
  BY <1>1, <1>2, <1>3 DEF OneSettlement
<1>6. ApprovalsAreDistinct'
  BY <1>1, <1>2, <1>3, FS_EmptySet DEF ApprovalsAreDistinct
<1>7. ThresholdWithinCount' /\ OnlyRecordedAdminHoldsRole'
  BY DEF ProposeCashOut, boardVars, ThresholdWithinCount, OnlyRecordedAdminHoldsRole
<1>. QED  BY <1>4, <1>5, <1>6, <1>7

\* An approval adds a new account and counts it.
LEMMA ApproveIInv ==
  ASSUME IInv, TypeOK', NEW caller \in Address, NEW id \in RequestId, ApproveCashOut(caller, id)
  PROVE  IInv'
<1>. USE DEF IInv, TypeOK, RequestId
<1>1. /\ cashOutById'[id] = [cashOutById[id] EXCEPT !.approvals = @ + 1]
      /\ hasApprovedCashOut'[id] = hasApprovedCashOut[id] \cup {caller}
      /\ cashOutById[id] \in CashOutRequest
      /\ Found(id) /\ ~Settled(id) /\ caller \notin hasApprovedCashOut[id]
      /\ cashOutNonce' = cashOutNonce /\ now' = now
  BY DEF ApproveCashOut
<1>2. \A other \in RequestId \ {id} :
        /\ cashOutById'[other] = cashOutById[other]
        /\ hasApprovedCashOut'[other] = hasApprovedCashOut[other]
  BY DEF ApproveCashOut
<1>3. /\ cashOutById'[id].approvals = cashOutById[id].approvals + 1
      /\ cashOutById'[id].createdAt = cashOutById[id].createdAt
      /\ cashOutById'[id].executed = cashOutById[id].executed
      /\ cashOutById'[id].canceled = cashOutById[id].canceled
  BY <1>1 DEF CashOutRequest
<1>4. id <= cashOutNonce
  BY <1>1 DEF RequestsUpToNonce, Found, NoRequest
<1>5. RequestsUpToNonce'
  <2>. SUFFICES ASSUME NEW other \in RequestId
                PROVE  /\ other <= cashOutNonce' => Found(other)'
                       /\ other > cashOutNonce' => cashOutById'[other] = NoRequest
                                                   /\ hasApprovedCashOut'[other] = {}
    BY DEF RequestsUpToNonce
  <2>1. CASE other = id
    BY <2>1, <1>1, <1>3, <1>4 DEF Found
  <2>2. CASE other # id
    BY <2>2, <1>1, <1>2 DEF RequestsUpToNonce, Found
  <2>. QED  BY <2>1, <2>2
<1>6. OneSettlement'
  BY <1>1, <1>2, <1>3 DEF OneSettlement
<1>7. ApprovalsAreDistinct'
  <2>1. Cardinality(hasApprovedCashOut[id] \cup {caller})
          = Cardinality(hasApprovedCashOut[id]) + 1
    BY <1>1, OneMoreApprover
  <2>. QED  BY <1>1, <1>2, <1>3, <2>1 DEF ApprovalsAreDistinct
<1>8. ThresholdWithinCount' /\ OnlyRecordedAdminHoldsRole'
  BY DEF ApproveCashOut, boardVars, ThresholdWithinCount, OnlyRecordedAdminHoldsRole
<1>. QED  BY <1>5, <1>6, <1>7, <1>8

(***************************************************************************)
(* Settling a request, either way, sets one flag of an unsettled one.      *)
(***************************************************************************)
LEMMA SettleIInv ==
  ASSUME IInv, TypeOK', NEW id \in RequestId, Found(id), ~Settled(id),
         \/ cashOutById' = [cashOutById EXCEPT ![id].executed = TRUE]
         \/ cashOutById' = [cashOutById EXCEPT ![id].canceled = TRUE],
         UNCHANGED <<boardVars, cashOutNonce, hasApprovedCashOut, now>>
  PROVE  IInv'
<1>. USE DEF IInv, TypeOK, RequestId
<1>1. cashOutById[id] \in CashOutRequest
  OBVIOUS
<1>2. /\ cashOutById'[id].approvals = cashOutById[id].approvals
      /\ cashOutById'[id].createdAt = cashOutById[id].createdAt
      /\ ~(cashOutById'[id].executed /\ cashOutById'[id].canceled)
  BY <1>1 DEF CashOutRequest, Settled
<1>3. \A other \in RequestId \ {id} : cashOutById'[other] = cashOutById[other]
  OBVIOUS
<1>4. id <= cashOutNonce
  BY DEF RequestsUpToNonce, Found, NoRequest
<1>5. RequestsUpToNonce'
  <2>. SUFFICES ASSUME NEW other \in RequestId
                PROVE  /\ other <= cashOutNonce' => Found(other)'
                       /\ other > cashOutNonce' => cashOutById'[other] = NoRequest
                                                   /\ hasApprovedCashOut'[other] = {}
    BY DEF RequestsUpToNonce
  <2>1. CASE other = id
    BY <2>1, <1>2, <1>4 DEF Found
  <2>2. CASE other # id
    BY <2>2, <1>3 DEF RequestsUpToNonce, Found
  <2>. QED  BY <2>1, <2>2
<1>6. OneSettlement'
  BY <1>2, <1>3 DEF OneSettlement
<1>7. ApprovalsAreDistinct'
  BY <1>2, <1>3 DEF ApprovalsAreDistinct
<1>8. ThresholdWithinCount' /\ OnlyRecordedAdminHoldsRole'
  BY DEF boardVars, ThresholdWithinCount, OnlyRecordedAdminHoldsRole
<1>. QED  BY <1>5, <1>6, <1>7, <1>8

\* Steps of the admin, of AccessControl, of the protocol and of the clock.
LEMMA BoardIInv ==
  ASSUME IInv, TypeOK', NEW caller \in Address, BoardStep(caller)
  PROVE  IInv'
<1>. USE DEF IInv, TypeOK
<1>1. UNCHANGED <<requestVars, now>>
  BY DEF BoardStep, AddBoardMember, RemoveBoardMember, SetCashOutThreshold
<1>2. RequestsUpToNonce' /\ OneSettlement' /\ ApprovalsAreDistinct'
  BY <1>1, RequestsUntouched
<1>3. ThresholdWithinCount'
  BY DEF BoardStep, AddBoardMember, RemoveBoardMember, SetCashOutThreshold, ThresholdWithinCount
<1>4. OnlyRecordedAdminHoldsRole'
  BY DEF BoardStep, AddBoardMember, RemoveBoardMember, SetCashOutThreshold,
         OnlyRecordedAdminHoldsRole
<1>. QED  BY <1>2, <1>3, <1>4

LEMMA AccessControlIInv ==
  ASSUME IInv, TypeOK', NEW caller \in Address, AccessControlStep(caller)
  PROVE  IInv'
<1>. USE DEF IInv, TypeOK, AccessControlStep, GrantBoardRole, RevokeBoardRole,
             RenounceBoardRole, RenounceAdminRole
<1>1. UNCHANGED <<requestVars, now, boardMemberCount, cashOutThreshold, masjidAdmin>>
  OBVIOUS
<1>2. RequestsUpToNonce' /\ OneSettlement' /\ ApprovalsAreDistinct'
  BY <1>1, RequestsUntouched
<1>3. adminRole' \subseteq adminRole
  OBVIOUS
<1>. QED
  BY <1>1, <1>2, <1>3 DEF ThresholdWithinCount, OnlyRecordedAdminHoldsRole

LEMMA ProtocolIInv ==
  ASSUME IInv, TypeOK', ProtocolStep
  PROVE  IInv'
<1>. USE DEF IInv, TypeOK, ProtocolStep, SetAdmin, SetStatus
<1>1. UNCHANGED <<requestVars, now, boardMemberCount, cashOutThreshold>>
  BY DEF boardVars
<1>2. RequestsUpToNonce' /\ OneSettlement' /\ ApprovalsAreDistinct'
  BY <1>1, RequestsUntouched
<1>3. OnlyRecordedAdminHoldsRole'
  BY DEF boardVars, OnlyRecordedAdminHoldsRole
<1>. QED
  BY <1>1, <1>2, <1>3 DEF ThresholdWithinCount

(***************************************************************************)
(* The invariant is inductive: one case per kind of transaction.           *)
(***************************************************************************)
LEMMA NextIInv == IInv /\ [Next]_vars => IInv'
<1>. SUFFICES ASSUME IInv, [Next]_vars PROVE IInv'
  OBVIOUS
<1>1. TypeOK /\ TypeOK'
  BY NextTypeOK DEF IInv
<1>2. ASSUME NEW amount \in Amount, CashIn(amount) PROVE IInv'
  <2>1. UNCHANGED <<boardVars, requestVars, now>>
    BY <1>2 DEF CashIn
  <2>2. RequestsUpToNonce' /\ OneSettlement' /\ ApprovalsAreDistinct'
    BY <1>1, <2>1, RequestsUntouched DEF IInv, TypeOK
  <2>. QED
    BY <1>1, <2>1, <2>2 DEF IInv, boardVars, ThresholdWithinCount, OnlyRecordedAdminHoldsRole
<1>3. ASSUME NEW caller \in Address, RequestStep(caller) PROVE IInv'
  <2>1. ASSUME NEW to \in Payee \cup {ZeroAddress}, NEW amount \in Amount,
               NEW expiresIn \in Lifetime, ProposeCashOut(caller, to, amount, expiresIn)
        PROVE  IInv'
    BY <1>1, <2>1, ProposeIInv
  <2>2. ASSUME NEW id \in RequestId, ApproveCashOut(caller, id) PROVE IInv'
    BY <1>1, <2>2, ApproveIInv
  <2>3. ASSUME NEW id \in RequestId, ExecuteCashOut(caller, id) PROVE IInv'
    BY <1>1, <2>3, SettleIInv DEF ExecuteCashOut
  <2>4. ASSUME NEW id \in RequestId, CancelCashOut(caller, id) PROVE IInv'
    BY <1>1, <2>4, SettleIInv DEF CancelCashOut
  <2>. QED  BY <1>3, <2>1, <2>2, <2>3, <2>4 DEF RequestStep
<1>4. ASSUME NEW caller \in Address, BoardStep(caller) PROVE IInv'
  BY <1>1, <1>4, BoardIInv
<1>5. ASSUME NEW caller \in Address, AccessControlStep(caller) PROVE IInv'
  BY <1>1, <1>5, AccessControlIInv
<1>6. CASE ProtocolStep
  BY <1>1, <1>6, ProtocolIInv
<1>7. CASE Tick
  <2>1. UNCHANGED <<boardVars, requestVars>> /\ now' = now + 1
    BY <1>7 DEF Tick
  <2>2. RequestsUpToNonce' /\ OneSettlement' /\ ApprovalsAreDistinct'
    BY <1>1, <2>1, RequestsUntouched DEF IInv, TypeOK
  <2>. QED
    BY <1>1, <2>1, <2>2 DEF IInv, boardVars, ThresholdWithinCount, OnlyRecordedAdminHoldsRole
<1>8. CASE UNCHANGED vars
  <2>1. UNCHANGED <<boardVars, requestVars>> /\ now' = now
    BY <1>8 DEF vars
  <2>2. RequestsUpToNonce' /\ OneSettlement' /\ ApprovalsAreDistinct'
    BY <1>1, <2>1, RequestsUntouched DEF IInv, TypeOK
  <2>. QED
    BY <1>1, <2>1, <2>2 DEF IInv, boardVars, ThresholdWithinCount, OnlyRecordedAdminHoldsRole
<1>. QED  BY <1>2, <1>3, <1>4, <1>5, <1>6, <1>7, <1>8 DEF Next

THEOREM Invariance == Spec => []IInv
BY InitIInv, NextIInv, PTL DEF Spec

(***************************************************************************)
(* Each approval that counts towards a threshold comes from an account of  *)
(* its own, whatever happens to roles meanwhile (226-241).                 *)
(***************************************************************************)
THEOREM DistinctApprovals == Spec => []ApprovalsAreDistinct
BY Invariance, PTL DEF IInv

(***************************************************************************)
(* A board can never be edited to where cash-outs need no approval, or     *)
(* more than its recorded size (273-302).                                  *)
(***************************************************************************)
THEOREM ThresholdStaysWithinCount == Spec => []ThresholdWithinCount
BY Invariance, PTL DEF IInv

(***************************************************************************)
(* Only the admin on record ever holds ADMIN_ROLE (304-313).               *)
(***************************************************************************)
THEOREM RecordedAdminOnly == Spec => []OnlyRecordedAdminHoldsRole
BY Invariance, PTL DEF IInv
----------------------------------------------------------------------------
(***************************************************************************)
(* What one step can do to one request.                                    *)
(***************************************************************************)
Kept(id) ==
  /\ cashOutById'[id] = cashOutById[id]
  /\ hasApprovedCashOut'[id] = hasApprovedCashOut[id]

Proposed(id) ==
  /\ cashOutById[id] = NoRequest
  /\ hasApprovedCashOut[id] = {} /\ hasApprovedCashOut'[id] = {}
  /\ cashOutById'[id].createdAt # 0
  /\ ~cashOutById'[id].executed /\ ~cashOutById'[id].canceled

Approved(id) ==
  /\ Found(id) /\ ~Settled(id) /\ ~Expired(id)
  /\ cashOutById'[id] = [cashOutById[id] EXCEPT !.approvals = @ + 1]
  /\ \E caller \in boardRole \ hasApprovedCashOut[id] :
       hasApprovedCashOut'[id] = hasApprovedCashOut[id] \cup {caller}

Executed(id) ==
  /\ Found(id) /\ ~Settled(id) /\ ~Expired(id) /\ ThresholdReached(id)
  /\ cashOutById'[id] = [cashOutById[id] EXCEPT !.executed = TRUE]
  /\ hasApprovedCashOut'[id] = hasApprovedCashOut[id]

Canceled(id) ==
  /\ Found(id) /\ ~Settled(id)
  /\ cashOutById'[id] = [cashOutById[id] EXCEPT !.canceled = TRUE]
  /\ hasApprovedCashOut'[id] = hasApprovedCashOut[id]

\* A step treats each request in one of these five ways.
LEMMA RequestChanges ==
  ASSUME IInv, [Next]_vars, NEW id \in RequestId
  PROVE  \/ Kept(id) \/ Proposed(id) \/ Approved(id) \/ Executed(id) \/ Canceled(id)
<1>. DEFINE Goal == Kept(id) \/ Proposed(id) \/ Approved(id) \/ Executed(id) \/ Canceled(id)
<1>. USE DEF IInv, TypeOK
<1>1. ASSUME NEW caller \in Address, RequestStep(caller) PROVE Goal
  <2>1. ASSUME NEW to \in Payee \cup {ZeroAddress}, NEW amount \in Amount,
               NEW expiresIn \in Lifetime, ProposeCashOut(caller, to, amount, expiresIn)
        PROVE  Kept(id) \/ Proposed(id)
    <3>1. cashOutNonce + 1 \in RequestId /\ cashOutNonce \in Nat /\ now # 0
      BY <2>1, InstanceAssumption DEF ProposeCashOut, RequestId, OneSettlement
    <3>2. CASE id = cashOutNonce + 1
      BY <2>1, <3>1, <3>2 DEF ProposeCashOut, Proposed, RequestsUpToNonce, RequestId
    <3>3. CASE id # cashOutNonce + 1
      BY <2>1, <3>1, <3>3 DEF ProposeCashOut, Kept
    <3>. QED  BY <3>2, <3>3
  <2>2. ASSUME NEW other \in RequestId, ApproveCashOut(caller, other)
        PROVE  Kept(id) \/ Approved(id)
    BY <2>2 DEF ApproveCashOut, Kept, Approved
  <2>3. ASSUME NEW other \in RequestId, ExecuteCashOut(caller, other)
        PROVE  Kept(id) \/ Executed(id)
    BY <2>3 DEF ExecuteCashOut, Kept, Executed
  <2>4. ASSUME NEW other \in RequestId, CancelCashOut(caller, other)
        PROVE  Kept(id) \/ Canceled(id)
    BY <2>4 DEF CancelCashOut, Kept, Canceled
  <2>. QED  BY <1>1, <2>1, <2>2, <2>3, <2>4 DEF RequestStep
<1>2. ASSUME UNCHANGED requestVars PROVE Goal
  BY <1>2 DEF requestVars, Kept
<1>3. ASSUME NEW caller \in Address, BoardStep(caller) \/ AccessControlStep(caller)
      PROVE  UNCHANGED requestVars
  BY <1>3 DEF BoardStep, AddBoardMember, RemoveBoardMember, SetCashOutThreshold,
              AccessControlStep, GrantBoardRole, RevokeBoardRole, RenounceBoardRole,
              RenounceAdminRole
<1>4. ProtocolStep \/ Tick \/ UNCHANGED vars => UNCHANGED requestVars
  BY DEF ProtocolStep, SetAdmin, SetStatus, Tick, vars
<1>5. ASSUME NEW amount \in Amount, CashIn(amount) PROVE UNCHANGED requestVars
  BY <1>5 DEF CashIn
<1>. QED  BY <1>1, <1>2, <1>3, <1>4, <1>5 DEF Next

\* Time does not run backwards.
LEMMA TimeMovesForward ==
  ASSUME IInv, [Next]_vars
  PROVE  now' \in Nat /\ now \in Nat /\ now' >= now
<1>1. ASSUME NEW caller \in Address, RequestStep(caller) PROVE now' = now
  BY <1>1 DEF RequestStep, ProposeCashOut, ApproveCashOut, ExecuteCashOut, CancelCashOut
<1>2. ASSUME NEW caller \in Address, BoardStep(caller) \/ AccessControlStep(caller)
      PROVE  now' = now
  BY <1>2 DEF BoardStep, AddBoardMember, RemoveBoardMember, SetCashOutThreshold,
              AccessControlStep, GrantBoardRole, RevokeBoardRole, RenounceBoardRole,
              RenounceAdminRole
<1>3. (\E amount \in Amount : CashIn(amount)) \/ ProtocolStep \/ UNCHANGED vars => now' = now
  BY DEF CashIn, ProtocolStep, SetAdmin, SetStatus, vars
<1>4. now' = now \/ now' = now + 1
  BY <1>1, <1>2, <1>3 DEF Next, Tick
<1>. QED  BY <1>4 DEF IInv, TypeOK

(***************************************************************************)
(* A settled request is frozen for good (230-232, 248-250, 264-266).       *)
(***************************************************************************)
THEOREM SettledForGood == Spec => SettledIsFinal
<1>. DEFINE Step == \A id \in RequestId :
        cashOutById[id].executed \/ cashOutById[id].canceled =>
          /\ cashOutById'[id] = cashOutById[id]
          /\ hasApprovedCashOut'[id] = hasApprovedCashOut[id]
<1>1. ASSUME IInv, [Next]_vars PROVE Step
  <2>. SUFFICES ASSUME NEW id \in RequestId,
                       cashOutById[id].executed \/ cashOutById[id].canceled
                PROVE  Kept(id)
    BY DEF Kept
  <2>1. Kept(id) \/ Proposed(id) \/ Approved(id) \/ Executed(id) \/ Canceled(id)
    BY <1>1, RequestChanges
  <2>2. Settled(id) /\ ~Proposed(id)
    BY DEF Settled, Proposed, NoRequest
  <2>. QED  BY <2>1, <2>2 DEF Approved, Executed, Canceled
<1>2. IInv /\ [Next]_vars => [Step]_vars
  BY <1>1
<1>. HIDE DEF Step
<1>3. Spec => [][Step]_vars
  BY <1>2, Invariance, PTL DEF Spec
<1>. QED  BY <1>3 DEF SettledIsFinal, Step

(***************************************************************************)
(* The terms approvers saw are the terms that are paid, and approvals only *)
(* accumulate, one board member at a time (199-241).                       *)
(***************************************************************************)
THEOREM TermsAreFixed == Spec => ApprovedTermsAreFixed
<1>. DEFINE Step == \A id \in RequestId : Found(id) =>
        /\ Terms(cashOutById'[id]) = Terms(cashOutById[id])
        /\ hasApprovedCashOut[id] \subseteq hasApprovedCashOut'[id]
        /\ hasApprovedCashOut'[id] \ hasApprovedCashOut[id] \subseteq boardRole
<1>1. ASSUME IInv, [Next]_vars PROVE Step
  <2>. SUFFICES ASSUME NEW id \in RequestId, Found(id)
                PROVE  /\ Terms(cashOutById'[id]) = Terms(cashOutById[id])
                       /\ hasApprovedCashOut[id] \subseteq hasApprovedCashOut'[id]
                       /\ hasApprovedCashOut'[id] \ hasApprovedCashOut[id] \subseteq boardRole
    OBVIOUS
  <2>1. cashOutById[id] \in CashOutRequest
    BY <1>1 DEF IInv, TypeOK
  <2>2. Kept(id) \/ Approved(id) \/ Executed(id) \/ Canceled(id)
    BY <1>1, RequestChanges DEF Proposed, Found, NoRequest
  <2>3. Terms(cashOutById'[id]) = Terms(cashOutById[id])
    BY <2>1, <2>2 DEF Kept, Approved, Executed, Canceled, Terms, CashOutRequest
  <2>4. \/ hasApprovedCashOut'[id] = hasApprovedCashOut[id]
        \/ \E caller \in boardRole :
             hasApprovedCashOut'[id] = hasApprovedCashOut[id] \cup {caller}
    BY <2>2 DEF Kept, Approved, Executed, Canceled
  <2>. QED  BY <2>3, <2>4
<1>2. IInv /\ [Next]_vars => [Step]_vars
  BY <1>1
<1>. HIDE DEF Step
<1>3. Spec => [][Step]_vars
  BY <1>2, Invariance, PTL DEF Spec
<1>. QED  BY <1>3 DEF ApprovedTermsAreFixed, Step

(***************************************************************************)
(* docs/docs/security/overview.md:48: once expired, a request stays        *)
(* expired and is neither approved nor executed (202, 233, 250).           *)
(***************************************************************************)
THEOREM ExpiredStaysUnpaid == Spec => ExpiredIsNeverPaid
<1>. DEFINE Step == \A id \in RequestId : Found(id) /\ now > cashOutById[id].expiresAt =>
        /\ now' > cashOutById'[id].expiresAt
        /\ cashOutById'[id].executed = cashOutById[id].executed
        /\ cashOutById'[id].approvals = cashOutById[id].approvals
<1>1. ASSUME IInv, [Next]_vars PROVE Step
  <2>. SUFFICES ASSUME NEW id \in RequestId, Found(id), now > cashOutById[id].expiresAt
                PROVE  /\ now' > cashOutById'[id].expiresAt
                       /\ cashOutById'[id].executed = cashOutById[id].executed
                       /\ cashOutById'[id].approvals = cashOutById[id].approvals
    OBVIOUS
  <2>1. cashOutById[id] \in CashOutRequest
    BY <1>1 DEF IInv, TypeOK
  <2>2. Kept(id) \/ Canceled(id)
    <3>1. Kept(id) \/ Proposed(id) \/ Approved(id) \/ Executed(id) \/ Canceled(id)
      BY <1>1, RequestChanges
    <3>2. Expired(id) /\ ~Proposed(id)
      BY DEF Expired, Proposed, Found, NoRequest
    <3>. QED  BY <3>1, <3>2 DEF Approved, Executed
  <2>3. /\ cashOutById'[id].expiresAt = cashOutById[id].expiresAt
        /\ cashOutById'[id].executed = cashOutById[id].executed
        /\ cashOutById'[id].approvals = cashOutById[id].approvals
    BY <2>1, <2>2 DEF Kept, Canceled, CashOutRequest
  <2>4. cashOutById[id].expiresAt \in Nat
    BY <2>1 DEF CashOutRequest
  <2>. QED  BY <1>1, <2>3, <2>4, TimeMovesForward
<1>2. IInv /\ [Next]_vars => [Step]_vars
  BY <1>1
<1>. HIDE DEF Step
<1>3. Spec => [][Step]_vars
  BY <1>2, Invariance, PTL DEF Spec
<1>. QED  BY <1>3 DEF ExpiredIsNeverPaid, Step

(***************************************************************************)
(* Whatever the interleaving, money leaves the treasury only in the        *)
(* execution of one approved, unexpired request of a verified mosque, in   *)
(* that request's amount (executeCashOut 243-260).                         *)
(***************************************************************************)
THEOREM PayoutAuthorised == Spec => PayoutIsAuthorised
<1>. DEFINE Step == balanceOf'[Self] < balanceOf[Self] =>
        /\ status = "Verified"
        /\ adminRole # {}
        /\ \E id \in RequestId : PaysFor(id)
<1>1. ASSUME IInv, [Next]_vars PROVE Step
  <2>. USE DEF IInv, TypeOK
  <2>. SUFFICES ASSUME balanceOf'[Self] < balanceOf[Self]
                PROVE  /\ status = "Verified"
                       /\ adminRole # {}
                       /\ \E id \in RequestId : PaysFor(id)
    OBVIOUS
  <2>1. Self \in Holder /\ balanceOf[Self] \in Nat
    BY <1>1 DEF Holder
  <2>2. ~(balanceOf' = balanceOf)
    BY <2>1
  <2>3. ASSUME NEW amount \in Amount, CashIn(amount) PROVE FALSE
    BY <1>1, <2>1, <2>3, InstanceAssumption DEF CashIn
  <2>4. PICK caller \in Address, id \in RequestId : ExecuteCashOut(caller, id)
    BY <1>1, <2>2, <2>3
       DEF Next, RequestStep, ProposeCashOut, ApproveCashOut, CancelCashOut, BoardStep,
           AddBoardMember, RemoveBoardMember, SetCashOutThreshold, AccessControlStep,
           GrantBoardRole, RevokeBoardRole, RenounceBoardRole, RenounceAdminRole,
           ProtocolStep, SetAdmin, SetStatus, Tick, vars, tokenVars
  <2>. DEFINE r == cashOutById[id]
  <2>5. /\ r \in CashOutRequest /\ r.amount \in Nat /\ r.expiresAt \in Nat
        /\ now \in Nat
    BY <1>1 DEF CashOutRequest
  <2>6. /\ status = "Verified" /\ adminRole # {}
        /\ Found(id) /\ ~Settled(id) /\ ~Expired(id) /\ ThresholdReached(id)
        /\ cashOutById'[id] = [r EXCEPT !.executed = TRUE]
        /\ Transfer(r.to, r.amount)
    BY <1>1, <2>4 DEF ExecuteCashOut
  <2>7. balanceOf'[Self] + r.amount = balanceOf[Self]
    <3>. DEFINE debited == [balanceOf EXCEPT ![Self] = @ - r.amount]
    <3>1. balanceOf' = [debited EXCEPT ![r.to] = @ + r.amount] /\ r.amount <= balanceOf[Self]
      BY <2>6 DEF Transfer
    <3>2. debited \in [Holder -> Nat] /\ debited[Self] = balanceOf[Self] - r.amount
      BY <1>1, <2>1, <2>5, <3>1
    <3>. HIDE DEF debited, r
    <3>3. CASE r.to = Self
      BY <2>1, <2>5, <3>1, <3>2, <3>3
    <3>4. CASE r.to # Self
      BY <2>1, <2>5, <3>1, <3>2, <3>4
    <3>. QED  BY <3>3, <3>4
  <2>8. Cardinality(hasApprovedCashOut[id]) >= cashOutThreshold
    BY <1>1, <2>6 DEF ThresholdReached, ApprovalsAreDistinct
  <2>9. PaysFor(id)
    BY <2>5, <2>6, <2>7, <2>8 DEF PaysFor, Expired
  <2>. QED  BY <2>6, <2>9
<1>2. IInv /\ [Next]_vars => [Step]_vars
  BY <1>1
<1>. HIDE DEF Step
<1>3. Spec => [][Step]_vars
  BY <1>2, Invariance, PTL DEF Spec
<1>. QED  BY <1>3 DEF PayoutIsAuthorised, Step
----------------------------------------------------------------------------
(***************************************************************************)
(* The money.  A request that exists names somebody who can hold tokens:   *)
(* were it address(0), its execution would lose the amount (170, 194).     *)
(***************************************************************************)
PayeesHoldTokens ==
  \A id \in RequestId : Found(id) => cashOutById[id].to \in Holder

\* What the steps keep of the money; TreasuryBalances alone is not inductive.
Books == PayeesHoldTokens /\ TreasuryBalances

\* The amounts Paid adds up.
amounts == [id \in RequestId |-> cashOutById[id].amount]

\* Sums over requests and over holders are finite.
LEMMA FiniteMoney ==
  /\ IsFiniteSet(RequestId) /\ IsFiniteSet(Holder)
  /\ \A h : IsFiniteSet(PaidTo(h))
<1>1. IsFiniteSet(RequestId)
  BY FS_Interval, InstanceAssumption DEF RequestId
<1>2. IsFiniteSet(Holder)
  BY FS_AddElement, InstanceAssumption DEF Holder
<1>. QED  BY <1>1, <1>2, FS_Subset DEF PaidTo

\* Only an execution marks a request executed.
LEMMA OnlyExecutionPays ==
  ASSUME IInv, [Next]_vars, NEW id \in RequestId,
         cashOutById'[id].executed # cashOutById[id].executed
  PROVE  \E caller \in Address : ExecuteCashOut(caller, id)
<1>. USE DEF IInv, TypeOK
<1>1. ASSUME NEW caller \in Address, RequestStep(caller)
      PROVE  ExecuteCashOut(caller, id)
  <2>1. ASSUME NEW to \in Payee \cup {ZeroAddress}, NEW amount \in Amount,
               NEW expiresIn \in Lifetime, ProposeCashOut(caller, to, amount, expiresIn)
        PROVE  FALSE
    <3>1. cashOutNonce + 1 \in RequestId /\ cashOutNonce \in Nat
      BY <2>1, InstanceAssumption DEF ProposeCashOut, RequestId
    <3>2. cashOutById[cashOutNonce + 1] = NoRequest
      BY <3>1 DEF RequestsUpToNonce, RequestId
    <3>3. id # cashOutNonce + 1 => cashOutById'[id] = cashOutById[id]
      BY <2>1 DEF ProposeCashOut
    <3>4. cashOutById'[cashOutNonce + 1].executed = FALSE
      BY <2>1, <3>1 DEF ProposeCashOut
    <3>5. cashOutById[cashOutNonce + 1].executed = FALSE
      BY <3>2 DEF NoRequest
    <3>. QED  BY <3>3, <3>4, <3>5
  <2>2. ASSUME NEW other \in RequestId, ApproveCashOut(caller, other) PROVE FALSE
    BY <2>2 DEF ApproveCashOut, CashOutRequest
  <2>3. ASSUME NEW other \in RequestId, CancelCashOut(caller, other) PROVE FALSE
    BY <2>3 DEF CancelCashOut, CashOutRequest
  <2>4. ASSUME NEW other \in RequestId, ExecuteCashOut(caller, other) PROVE other = id
    BY <2>4 DEF ExecuteCashOut, CashOutRequest
  <2>. QED  BY <1>1, <2>1, <2>2, <2>3, <2>4 DEF RequestStep
<1>2. UNCHANGED cashOutById => FALSE
  OBVIOUS
<1>3. ASSUME NEW caller \in Address, BoardStep(caller) \/ AccessControlStep(caller)
      PROVE  UNCHANGED cashOutById
  BY <1>3 DEF BoardStep, AddBoardMember, RemoveBoardMember, SetCashOutThreshold,
              AccessControlStep, GrantBoardRole, RevokeBoardRole, RenounceBoardRole,
              RenounceAdminRole, requestVars
<1>4. ProtocolStep \/ Tick \/ UNCHANGED vars => UNCHANGED cashOutById
  BY DEF ProtocolStep, SetAdmin, SetStatus, Tick, vars, requestVars
<1>5. ASSUME NEW amount \in Amount, CashIn(amount) PROVE UNCHANGED cashOutById
  BY <1>5 DEF CashIn, requestVars
<1>. QED  BY <1>1, <1>2, <1>3, <1>4, <1>5 DEF Next

\* Only donations and executions move tokens.
LEMMA OnlyTheseMoveTokens ==
  ASSUME [Next]_vars
  PROVE  \/ \E amount \in Amount : CashIn(amount)
         \/ \E caller \in Address, id \in RequestId : ExecuteCashOut(caller, id)
         \/ UNCHANGED tokenVars
BY DEF Next, RequestStep, ProposeCashOut, ApproveCashOut, CancelCashOut, BoardStep,
       AddBoardMember, RemoveBoardMember, SetCashOutThreshold, AccessControlStep,
       GrantBoardRole, RevokeBoardRole, RenounceBoardRole, RenounceAdminRole,
       ProtocolStep, SetAdmin, SetStatus, Tick, vars

\* A proposal names a payee, and no step renames one.
LEMMA PayeesKept ==
  ASSUME IInv, PayeesHoldTokens, [Next]_vars
  PROVE  PayeesHoldTokens'
<1>. USE DEF IInv, TypeOK
<1>. SUFFICES ASSUME NEW id \in RequestId, Found(id)'
              PROVE  cashOutById'[id].to \in Holder
  BY DEF PayeesHoldTokens
<1>1. cashOutById[id] \in CashOutRequest
  OBVIOUS
<1>2. CASE Found(id)
  <2>1. Kept(id) \/ Approved(id) \/ Executed(id) \/ Canceled(id)
    BY <1>2, RequestChanges DEF Proposed, Found, NoRequest
  <2>2. cashOutById'[id].to = cashOutById[id].to
    BY <1>1, <2>1 DEF Kept, Approved, Executed, Canceled, CashOutRequest
  <2>. QED  BY <1>2, <2>2 DEF PayeesHoldTokens
<1>3. CASE ~Found(id)
  <2>1. cashOutById'[id].createdAt # cashOutById[id].createdAt
    BY <1>3 DEF Found
  <2>2. PICK caller \in Address, to \in Payee \cup {ZeroAddress}, amount \in Amount,
             expiresIn \in Lifetime : ProposeCashOut(caller, to, amount, expiresIn)
    <3>1. ASSUME NEW caller \in Address, NEW other \in RequestId,
                 \/ ApproveCashOut(caller, other) \/ ExecuteCashOut(caller, other)
                 \/ CancelCashOut(caller, other)
          PROVE  FALSE
      BY <2>1, <3>1 DEF ApproveCashOut, ExecuteCashOut, CancelCashOut, CashOutRequest
    <3>2. ~UNCHANGED requestVars
      BY <2>1 DEF requestVars
    <3>. QED
      BY <3>1, <3>2
         DEF Next, RequestStep, BoardStep, AddBoardMember, RemoveBoardMember,
             SetCashOutThreshold, AccessControlStep, GrantBoardRole, RevokeBoardRole,
             RenounceBoardRole, RenounceAdminRole, ProtocolStep, SetAdmin, SetStatus,
             Tick, CashIn, vars
  <2>3. to \in Holder
    BY <2>2 DEF ProposeCashOut, Holder
  <2>4. id = cashOutNonce + 1
    BY <2>1, <2>2 DEF ProposeCashOut
  <2>. QED  BY <2>2, <2>3, <2>4 DEF ProposeCashOut
<1>. QED  BY <1>2, <1>3

\* The books do not change while no request is paid.
LEMMA PaidKept ==
  ASSUME IInv, [Next]_vars, NEW h,
         \A id \in RequestId : cashOutById'[id].executed = cashOutById[id].executed
  PROVE  Paid(h)' = Paid(h)
<1>1. ASSUME NEW id \in RequestId, cashOutById[id].executed
      PROVE  cashOutById'[id] = cashOutById[id]
  <2>1. Kept(id) \/ Proposed(id) \/ Approved(id) \/ Executed(id) \/ Canceled(id)
    BY RequestChanges
  <2>2. Settled(id) /\ ~Proposed(id)
    BY <1>1 DEF Settled, Proposed, NoRequest
  <2>. QED  BY <2>1, <2>2 DEF Kept, Approved, Executed, Canceled
<1>2. PaidTo(h)' = PaidTo(h)
  BY <1>1 DEF PaidTo
<1>3. \A id \in PaidTo(h) : amounts'[id] = amounts[id]
  BY <1>1 DEF PaidTo, amounts
<1>4. SumFunctionOnSet(amounts', PaidTo(h)) = SumFunctionOnSet(amounts, PaidTo(h))
  BY <1>3, FiniteMoney, SumOfSame
<1>. QED  BY <1>2, <1>4 DEF Paid, amounts

\* Donations.
LEMMA CashInBooks ==
  ASSUME IInv, IInv', Books, NEW amount \in Amount, CashIn(amount)
  PROVE  TreasuryBalances'
<1>1. /\ balanceOf \in [Holder -> Nat] /\ balanceOf' \in [Holder -> Nat]
      /\ totalCashIn \in Nat /\ Self \in Holder /\ amount \in Nat
  BY InstanceAssumption DEF IInv, TypeOK, Holder
<1>2. /\ balanceOf'[Self] = balanceOf[Self] + amount
      /\ \A h \in Holder \ {Self} : balanceOf'[h] = balanceOf[h]
      /\ totalCashIn' = totalCashIn + amount
  BY <1>1 DEF CashIn
<1>3. \A h : Paid(h)' = Paid(h)
  <2>1. Next /\ UNCHANGED cashOutById
    BY DEF Next, CashIn, requestVars
  <2>. QED  BY <2>1, PaidKept
<1>. DEFINE before == SumFunctionOnSet(balanceOf, Holder)
            after  == SumFunctionOnSet(balanceOf', Holder)
<1>4. after + balanceOf[Self] = before + balanceOf'[Self]
  BY <1>1, <1>2, FiniteMoney, SumChangedAt
<1>5. after \in Nat /\ before \in Nat
  BY <1>1, FiniteMoney, SumWithout
<1>6. before = totalCashIn
  BY DEF Books, TreasuryBalances
<1>. HIDE DEF before, after
<1>7. after = totalCashIn'
  BY <1>1, <1>2, <1>4, <1>5, <1>6
<1>. QED  BY <1>2, <1>3, <1>7 DEF Books, TreasuryBalances, after

\* An execution moves the amount from the treasury to the payee, nobody else.
LEMMA ExecuteBooks ==
  ASSUME IInv, IInv', Books, NEW caller \in Address, NEW id \in RequestId,
         ExecuteCashOut(caller, id)
  PROVE  TreasuryBalances'
<1>0. PICK to \in Holder : to = cashOutById[id].to
  BY DEF Books, PayeesHoldTokens, ExecuteCashOut
<1>. DEFINE amount == cashOutById[id].amount
            debited == [balanceOf EXCEPT ![Self] = @ - amount]
<1>1. /\ balanceOf \in [Holder -> Nat] /\ balanceOf' \in [Holder -> Nat]
      /\ Self \in Holder /\ amount \in Nat
      /\ cashOutById \in [RequestId -> CashOutRequest]
  BY DEF IInv, TypeOK, Holder, CashOutRequest
<1>2. /\ cashOutById' = [cashOutById EXCEPT ![id].executed = TRUE]
      /\ ~cashOutById[id].executed
      /\ amount <= balanceOf[Self]
      /\ balanceOf' = [debited EXCEPT ![to] = @ + amount]
      /\ totalCashIn' = totalCashIn
  BY <1>0 DEF ExecuteCashOut, Transfer, Settled
<1>3. /\ debited \in [Holder -> Nat] /\ debited[Self] = balanceOf[Self] - amount
      /\ \A h \in Holder \ {Self} : debited[h] = balanceOf[h]
  BY <1>1, <1>2
<1>4. \A other \in RequestId :
        /\ cashOutById'[other].amount = cashOutById[other].amount
        /\ cashOutById'[other].to = cashOutById[other].to
        /\ cashOutById'[other].executed = (cashOutById[other].executed \/ other = id)
  BY <1>1, <1>2 DEF CashOutRequest
<1>5. amounts' = amounts /\ \A other \in RequestId : amounts[other] \in Nat
  BY <1>1, <1>4 DEF amounts, CashOutRequest
<1>6. ASSUME NEW h \in Holder, h # to
      PROVE  Paid(h)' = Paid(h)
  <2>1. PaidTo(h)' = PaidTo(h)
    BY <1>0, <1>4, <1>6 DEF PaidTo
  <2>. QED  BY <1>5, <2>1 DEF Paid, amounts
<1>7. Paid(to)' = amount + Paid(to) /\ Paid(to) \in Nat
  <2>. DEFINE paid == PaidTo(to) \cup {id}
  <2>2. PaidTo(to)' = paid /\ paid \ {id} = PaidTo(to) /\ id \in paid
    BY <1>0, <1>2, <1>4 DEF PaidTo
  <2>3. IsFiniteSet(paid)
    BY FiniteMoney, FS_AddElement
  <2>4. \A x \in paid : amounts[x] \in Nat
    BY <1>5 DEF PaidTo
  <2>5. amounts[id] = amount
    BY DEF amounts
  <2>6. SumFunctionOnSet(amounts, paid) = amount + SumFunctionOnSet(amounts, PaidTo(to))
    BY <2>2, <2>3, <2>4, <2>5, SumWithout
  <2>7. SumFunctionOnSet(amounts, PaidTo(to)) \in Nat
    BY <1>5, FiniteMoney, SumWithout DEF PaidTo
  <2>. HIDE DEF paid
  <2>. QED  BY <1>5, <2>2, <2>6, <2>7 DEF Paid, amounts
<1>8. \A h \in Holder \ {Self} : balanceOf'[h] = Paid(h)'
  <2>1. \A h \in Holder \ {Self} : balanceOf[h] = Paid(h)
    BY DEF Books, TreasuryBalances
  <2>. HIDE DEF amount, debited
  <2>2. \A h \in Holder \ {Self, to} : balanceOf'[h] = Paid(h)'
    BY <1>2, <1>3, <1>6, <2>1
  <2>3. to # Self => balanceOf'[to] = Paid(to)'
    BY <1>1, <1>2, <1>3, <1>7, <2>1
  <2>. QED  BY <2>2, <2>3
<1>9. SumFunctionOnSet(balanceOf', Holder) = totalCashIn'
  <2>. DEFINE before  == SumFunctionOnSet(balanceOf, Holder)
              between == SumFunctionOnSet(debited, Holder)
              after   == SumFunctionOnSet(balanceOf', Holder)
  <2>. HIDE DEF debited
  <2>1. before \in Nat /\ between \in Nat /\ after \in Nat
    BY <1>1, <1>3, FiniteMoney, SumWithout
  <2>2. before + debited[Self] = between + balanceOf[Self]
    <3>1. \A y \in Holder : balanceOf[y] \in Nat /\ debited[y] \in Nat
      BY <1>1, <1>3
    <3>2. \A y \in Holder \ {Self} : balanceOf[y] = debited[y]
      BY <1>3
    <3>. QED  BY <1>1, <3>1, <3>2, FiniteMoney, SumChangedAt
  <2>3. /\ balanceOf'[to] = debited[to] + amount
        /\ \A h \in Holder \ {to} : balanceOf'[h] = debited[h]
    BY <1>2, <1>3
  <2>4. after + debited[to] = between + balanceOf'[to]
    BY <1>1, <1>3, <2>3, FiniteMoney, SumChangedAt
  <2>5. before = totalCashIn
    BY DEF Books, TreasuryBalances
  <2>6. debited[to] \in Nat /\ balanceOf[Self] \in Nat
    BY <1>1, <1>3
  <2>. HIDE DEF before, between, after, amount
  <2>7. after = before
    BY <1>1, <1>3, <2>1, <2>2, <2>3, <2>4, <2>6
  <2>. QED  BY <1>2, <2>5, <2>7 DEF after
<1>. QED  BY <1>8, <1>9 DEF TreasuryBalances

\* A new instance has no request and no tokens.
LEMMA InitBooks == Init => Books
<1>. SUFFICES ASSUME Init PROVE Books
  OBVIOUS
<1>1. \A id \in RequestId : ~Found(id) /\ ~cashOutById[id].executed
  BY DEF Init, Found, NoRequest
<1>2. \A h : PaidTo(h) = {}
  BY <1>1 DEF PaidTo
<1>3. \A h : Paid(h) = 0
  BY <1>2, FS_EmptySet, SumUnfolds DEF Paid
<1>4. SumFunctionOnSet(balanceOf, Holder) = 0
  <2>. DEFINE G == {s \in SUBSET Holder : SumFunctionOnSet(balanceOf, s) = 0}
  <2>1. ASSUME NEW s \in SUBSET Holder, \A x \in s : s \ {x} \in G
        PROVE  s \in G
    <3>1. CASE s = {}
      BY <3>1, FS_EmptySet, SumUnfolds
    <3>2. CASE s # {}
      <4>1. PICK x \in s : s \ {x} \in G
        BY <2>1, <3>2
      <4>2. IsFiniteSet(s) /\ \A y \in s : balanceOf[y] = 0
        BY FiniteMoney, FS_Subset DEF Init
      <4>3. SumFunctionOnSet(balanceOf, s) = balanceOf[x] + SumFunctionOnSet(balanceOf, s \ {x})
        BY <4>2, SumWithout
      <4>4. SumFunctionOnSet(balanceOf, s \ {x}) = 0 /\ balanceOf[x] = 0
        BY <4>1, <4>2
      <4>. QED  BY <4>3, <4>4
    <3>. QED  BY <3>1, <3>2
  <2>. HIDE DEF G
  <2>2. Holder \in G
    <3>1. \A s \in SUBSET Holder : s \in G
      BY <2>1, FiniteMoney, SubsetInduct
    <3>. QED  BY <3>1
  <2>. QED  BY <2>2 DEF G
<1>5. /\ \A h \in Holder : balanceOf[h] = 0
      /\ totalCashIn = 0
  BY DEF Init
<1>. QED  BY <1>1, <1>3, <1>4, <1>5 DEF Books, PayeesHoldTokens, TreasuryBalances

\* The books stay balanced in every step.
LEMMA NextBooks == IInv /\ Books /\ [Next]_vars => Books'
<1>. SUFFICES ASSUME IInv, Books, [Next]_vars PROVE Books'
  OBVIOUS
<1>1. IInv' /\ PayeesHoldTokens'
  BY NextIInv, PayeesKept DEF Books
<1>2. CASE \E amount \in Amount : CashIn(amount)
  BY <1>1, <1>2, CashInBooks DEF Books
<1>3. CASE \E caller \in Address, id \in RequestId : ExecuteCashOut(caller, id)
  BY <1>1, <1>3, ExecuteBooks DEF Books
<1>4. CASE /\ UNCHANGED tokenVars
           /\ ~\E caller \in Address, id \in RequestId : ExecuteCashOut(caller, id)
  <2>1. \A h : Paid(h)' = Paid(h)
    BY <1>4, OnlyExecutionPays, PaidKept
  <2>2. balanceOf' = balanceOf /\ totalCashIn' = totalCashIn
    BY <1>4 DEF tokenVars
  <2>. QED  BY <1>1, <2>1, <2>2 DEF Books, TreasuryBalances
<1>. QED  BY <1>2, <1>3, <1>4, OnlyTheseMoveTokens

(***************************************************************************)
(* No sequence of donations, cash-outs and edits of the board creates or   *)
(* loses a token: each payee has exactly what its executed requests name,  *)
(* each counted once, and the treasury holds the rest (243-260).           *)
(***************************************************************************)
THEOREM TokenConserved == Spec => []TreasuryBalances
<1>1. Spec => []Books
  BY InitBooks, NextBooks, Invariance, PTL DEF Spec
<1>. QED  BY <1>1, PTL DEF Books
----------------------------------------------------------------------------
(***************************************************************************)
(* MasjidInstance implements MultisigTreasury: initial states map to       *)
(* initial states, and each step to a step of the treasury or a stutter.   *)
(***************************************************************************)

\* The treasury counts endorsers with the same Cardinality.
LEMMA SameCardinality == \A S : Treasury!Cardinality(S) = Cardinality(S)
BY DEF Treasury!Cardinality, Cardinality

\* The treasury's phase and value under the mapping.
phases   == [id \in RequestId |-> Phase(id)]
outflows == [id \in RequestId |-> Outflow(id)]

\* What each request's two flags and its createdAt say of its phase.
LEMMA PhaseByFlags ==
  ASSUME NEW id \in RequestId, TypeOK
  PROVE  /\ cashOutById[id].executed => Phase(id) = "paid"
         /\ cashOutById[id].canceled /\ ~cashOutById[id].executed => Phase(id) = "void"
         /\ Found(id) /\ ~Settled(id) => Phase(id) = "open"
         /\ cashOutById[id] = NoRequest => Phase(id) = "none" /\ Outflow(id) = 0
<1>1. cashOutById[id] \in CashOutRequest
  BY DEF TypeOK
<1>2. cashOutById[id].executed \in BOOLEAN /\ cashOutById[id].canceled \in BOOLEAN
  BY <1>1 DEF CashOutRequest
<1>. QED  BY <1>2 DEF Phase, Found, Settled, Outflow, NoRequest

\* The same of the state after a step.
LEMMA NextPhaseByFlags ==
  ASSUME NEW id \in RequestId, TypeOK'
  PROVE  /\ cashOutById'[id].executed => Phase(id)' = "paid"
         /\ cashOutById'[id].canceled /\ ~cashOutById'[id].executed => Phase(id)' = "void"
         /\ Found(id)' /\ ~Settled(id)' => Phase(id)' = "open"
         /\ Outflow(id)' \in Nat
<1>1. cashOutById'[id] \in CashOutRequest
  BY DEF TypeOK
<1>2. /\ cashOutById'[id].executed \in BOOLEAN /\ cashOutById'[id].canceled \in BOOLEAN
      /\ cashOutById'[id].amount \in Nat
  BY <1>1 DEF CashOutRequest
<1>. QED  BY <1>2 DEF Phase, Found, Settled, Outflow

\* A request a step leaves alone keeps its phase and its outflow.
LEMMA KeptPhase ==
  ASSUME NEW id \in RequestId, cashOutById'[id] = cashOutById[id]
  PROVE  Phase(id)' = Phase(id) /\ Outflow(id)' = Outflow(id)
BY DEF Phase, Outflow, Found

\* A step that touches one request changes the maps at that request only.
LEMMA OneRequestMaps ==
  ASSUME NEW id \in RequestId,
         \A other \in RequestId \ {id} : cashOutById'[other] = cashOutById[other]
  PROVE  /\ phases' = [phases EXCEPT ![id] = Phase(id)']
         /\ outflows' = [outflows EXCEPT ![id] = Outflow(id)']
<1>1. \A other \in RequestId \ {id} : Phase(other)' = Phase(other) /\ Outflow(other)' = Outflow(other)
  BY KeptPhase
<1>. QED  BY <1>1 DEF phases, outflows

\* A step that writes no request keeps both maps.
LEMMA UntouchedMaps ==
  ASSUME cashOutById' = cashOutById
  PROVE  phases' = phases /\ outflows' = outflows
<1>1. \A id \in RequestId : Phase(id)' = Phase(id) /\ Outflow(id)' = Outflow(id)
  BY KeptPhase
<1>. QED  BY <1>1 DEF phases, outflows

\* The constructor leaves an empty treasury.
LEMMA InitTreasury == Init => Treasury!TreasuryInit
<1>. SUFFICES ASSUME Init PROVE Treasury!TreasuryInit
  OBVIOUS
<1>1. TypeOK
  BY InitTypeOK
<1>2. \A id \in RequestId : Phase(id) = "none" /\ Outflow(id) = 0
  BY <1>1, PhaseByFlags DEF Init
<1>3. balanceOf[Self] = 0
  BY DEF Init, Holder
<1>4. cashOutThreshold \in Nat \ {0}
  BY <1>1, InstanceAssumption DEF Init, TypeOK
<1>. QED  BY <1>2, <1>3, <1>4 DEF Init, Treasury!TreasuryInit
----------------------------------------------------------------------------
\* A donation is a deposit.
LEMMA CashInDeposits ==
  ASSUME IInv, NEW amount \in Amount, CashIn(amount)
  PROVE  Treasury!Deposit
<1>1. Self \in Holder /\ balanceOf[Self] \in Nat /\ amount \in Nat /\ amount # 0
  BY InstanceAssumption DEF IInv, TypeOK, Holder, CashIn
<1>2. balanceOf'[Self] = balanceOf[Self] + amount
  BY <1>1 DEF IInv, TypeOK, CashIn
<1>3. phases' = phases /\ outflows' = outflows
  BY UntouchedMaps DEF CashIn, requestVars
<1>. QED
  BY <1>1, <1>2, <1>3 DEF CashIn, boardVars, requestVars, Treasury!Deposit, phases, outflows

\* A proposal opens a payment that was never opened.
LEMMA ProposeOpens ==
  ASSUME IInv, IInv', NEW caller \in Address, NEW to \in Payee \cup {ZeroAddress},
         NEW amount \in Amount, NEW expiresIn \in Lifetime,
         ProposeCashOut(caller, to, amount, expiresIn)
  PROVE  \E id \in RequestId : Treasury!Open(id)
<1>1. PICK new \in RequestId : new = cashOutNonce + 1
  BY InstanceAssumption DEF ProposeCashOut, IInv, TypeOK, RequestId
<1>2. cashOutById[new] = NoRequest /\ now # 0
  BY <1>1, InstanceAssumption DEF IInv, TypeOK, OneSettlement, RequestsUpToNonce
<1>3. /\ cashOutById'[new].createdAt = now
      /\ ~cashOutById'[new].executed /\ ~cashOutById'[new].canceled
      /\ \A other \in RequestId \ {new} : cashOutById'[other] = cashOutById[other]
  BY <1>1 DEF ProposeCashOut, IInv, TypeOK
<1>4. UNCHANGED <<balanceOf, cashOutThreshold, hasApprovedCashOut>>
  BY DEF ProposeCashOut, boardVars, tokenVars
<1>5. Found(new)' /\ ~Settled(new)'
  BY <1>2, <1>3 DEF Found, Settled
<1>6. Phase(new) = "none" /\ Phase(new)' = "open" /\ Outflow(new)' \in Nat
  BY <1>2, <1>5, PhaseByFlags, NextPhaseByFlags DEF IInv
<1>7. /\ phases' = [phases EXCEPT ![new] = "open"]
      /\ outflows' = [outflows EXCEPT ![new] = Outflow(new)']
      /\ phases[new] = "none" /\ outflows'[new] = Outflow(new)'
  BY <1>3, <1>6, OneRequestMaps DEF phases, outflows
<1>8. Treasury!Open(new)
  BY <1>4, <1>6, <1>7 DEF Treasury!Open, phases, outflows
<1>. QED  BY <1>8

\* An approval endorses an open payment.
LEMMA ApproveEndorses ==
  ASSUME IInv, IInv', NEW caller \in Address, NEW id \in RequestId, ApproveCashOut(caller, id)
  PROVE  Treasury!Endorse(id, caller)
<1>1. /\ Found(id) /\ ~Settled(id)
      /\ caller \notin hasApprovedCashOut[id]
      /\ hasApprovedCashOut' = [hasApprovedCashOut EXCEPT ![id] = @ \cup {caller}]
      /\ UNCHANGED <<balanceOf, cashOutThreshold>>
      /\ \A other \in RequestId \ {id} : cashOutById'[other] = cashOutById[other]
  BY DEF ApproveCashOut, IInv, TypeOK, tokenVars, boardVars
<1>2. cashOutById[id] \in CashOutRequest
  BY DEF IInv, TypeOK
<1>3. cashOutById'[id] = [cashOutById[id] EXCEPT !.approvals = @ + 1]
  BY DEF ApproveCashOut, IInv, TypeOK
<1>4. /\ cashOutById'[id].to = cashOutById[id].to
      /\ cashOutById'[id].amount = cashOutById[id].amount
      /\ cashOutById'[id].createdAt = cashOutById[id].createdAt
      /\ cashOutById'[id].executed = cashOutById[id].executed
      /\ cashOutById'[id].canceled = cashOutById[id].canceled
  BY <1>2, <1>3 DEF CashOutRequest
<1>5. Phase(id)' = Phase(id) /\ Outflow(id)' = Outflow(id) /\ Phase(id) = "open"
  BY <1>1, <1>4, PhaseByFlags DEF Phase, Outflow, Found, IInv
<1>6. phases' = phases /\ outflows' = outflows /\ phases[id] = "open"
  BY <1>1, <1>5, OneRequestMaps DEF phases, outflows
<1>. QED  BY <1>1, <1>6 DEF Treasury!Endorse, phases, outflows

\* A cancellation voids an open payment.
LEMMA CancelVoids ==
  ASSUME IInv, IInv', NEW caller \in Address, NEW id \in RequestId, CancelCashOut(caller, id)
  PROVE  Treasury!Void(id)
<1>1. /\ Found(id) /\ ~Settled(id)
      /\ UNCHANGED <<balanceOf, cashOutThreshold, hasApprovedCashOut>>
      /\ \A other \in RequestId \ {id} : cashOutById'[other] = cashOutById[other]
  BY DEF CancelCashOut, IInv, TypeOK, tokenVars, boardVars
<1>2. cashOutById[id] \in CashOutRequest
  BY DEF IInv, TypeOK
<1>3. cashOutById'[id] = [cashOutById[id] EXCEPT !.canceled = TRUE]
  BY DEF CancelCashOut, IInv, TypeOK
<1>4. /\ cashOutById'[id].to = cashOutById[id].to
      /\ cashOutById'[id].amount = cashOutById[id].amount
      /\ cashOutById'[id].executed = cashOutById[id].executed
      /\ cashOutById'[id].canceled
  BY <1>2, <1>3 DEF CashOutRequest
<1>5. Phase(id) = "open" /\ Phase(id)' = "void" /\ Outflow(id)' = Outflow(id)
  BY <1>1, <1>4, PhaseByFlags, NextPhaseByFlags DEF Outflow, Settled, IInv
<1>6. /\ phases' = [phases EXCEPT ![id] = "void"] /\ outflows' = outflows
      /\ phases[id] = "open"
  BY <1>1, <1>5, OneRequestMaps DEF phases, outflows
<1>. QED  BY <1>1, <1>6 DEF Treasury!Void, phases, outflows

\* An execution pays an open, sufficiently endorsed payment in full.
LEMMA ExecutePays ==
  ASSUME IInv, IInv', NEW caller \in Address, NEW id \in RequestId, ExecuteCashOut(caller, id)
  PROVE  Treasury!Pay(id)
<1>. DEFINE r == cashOutById[id]
<1>1. /\ Found(id) /\ ~Settled(id) /\ ThresholdReached(id)
      /\ UNCHANGED <<cashOutThreshold, hasApprovedCashOut>>
      /\ \A other \in RequestId \ {id} : cashOutById'[other] = cashOutById[other]
      /\ Transfer(r.to, r.amount)
  BY DEF ExecuteCashOut, IInv, TypeOK, boardVars
<1>2. r \in CashOutRequest /\ r.amount \in Nat
  BY DEF IInv, TypeOK, CashOutRequest
<1>3. cashOutById'[id] = [r EXCEPT !.executed = TRUE]
  BY DEF ExecuteCashOut, IInv, TypeOK
<1>4. cashOutById'[id].to = r.to /\ cashOutById'[id].amount = r.amount /\ cashOutById'[id].executed
  BY <1>2, <1>3 DEF CashOutRequest
<1>5. Phase(id) = "open" /\ Phase(id)' = "paid" /\ Outflow(id)' = Outflow(id)
  BY <1>1, <1>4, PhaseByFlags, NextPhaseByFlags DEF Outflow, IInv
<1>6. /\ phases' = [phases EXCEPT ![id] = "paid"] /\ outflows' = outflows
      /\ phases[id] = "open" /\ outflows[id] = Outflow(id)
  BY <1>1, <1>5, OneRequestMaps DEF phases, outflows
<1>7. Cardinality(hasApprovedCashOut[id]) >= cashOutThreshold
  BY <1>1 DEF ThresholdReached, IInv, ApprovalsAreDistinct
<1>8. Outflow(id) <= balanceOf[Self] /\ balanceOf'[Self] = balanceOf[Self] - Outflow(id)
  <2>. DEFINE debited == [balanceOf EXCEPT ![Self] = @ - r.amount]
  <2>1. /\ balanceOf' = [debited EXCEPT ![r.to] = @ + r.amount]
        /\ r.amount <= balanceOf[Self]
    BY <1>1 DEF Transfer
  <2>2. Self \in Holder /\ balanceOf \in [Holder -> Nat]
    BY DEF Holder, IInv, TypeOK
  <2>3. /\ balanceOf[Self] \in Nat /\ debited \in [Holder -> Nat]
        /\ debited[Self] = balanceOf[Self] - r.amount
    BY <1>2, <2>1, <2>2
  <2>. HIDE DEF debited
  <2>4. CASE r.to = Self
    BY <1>2, <2>1, <2>2, <2>3, <2>4 DEF Outflow
  <2>5. CASE r.to # Self
    BY <1>2, <2>1, <2>2, <2>3, <2>5 DEF Outflow
  <2>. QED  BY <2>4, <2>5
<1>. HIDE DEF r
<1>9. UNCHANGED <<cashOutThreshold, hasApprovedCashOut>>
  BY <1>1
<1>10. outflows[id] <= balanceOf[Self] /\ balanceOf'[Self] = balanceOf[Self] - outflows[id]
  BY <1>6, <1>8
<1>. QED  BY <1>6, <1>7, <1>9, <1>10, SameCardinality DEF Treasury!Pay, phases, outflows

\* Editing the board at most changes the rule; roles and statuses are invisible.
LEMMA RuleOrStutter ==
  ASSUME IInv, IInv', UNCHANGED <<requestVars, tokenVars>>
  PROVE  Treasury!ChangeRule
<1>1. phases' = phases /\ outflows' = outflows
  BY UntouchedMaps DEF requestVars
<1>2. cashOutThreshold' \in Nat \ {0}
  BY DEF IInv, TypeOK, ThresholdWithinCount
<1>. QED  BY <1>1, <1>2 DEF Treasury!ChangeRule, requestVars, tokenVars, phases, outflows

LEMMA StepSimulation ==
  IInv /\ IInv' /\ [Next]_vars => [Treasury!TreasuryNext]_(Treasury!treasuryVars)
<1>. SUFFICES ASSUME IInv, IInv', [Next]_vars PROVE Treasury!TreasuryNext
  OBVIOUS
<1>1. ASSUME NEW amount \in Amount, CashIn(amount) PROVE Treasury!TreasuryNext
  BY <1>1, CashInDeposits DEF Treasury!TreasuryNext
<1>2. ASSUME NEW caller \in Address, RequestStep(caller) PROVE Treasury!TreasuryNext
  BY <1>2, ProposeOpens, ApproveEndorses, ExecutePays, CancelVoids
     DEF RequestStep, Treasury!TreasuryNext
<1>3. ASSUME NEW caller \in Address, BoardStep(caller) \/ AccessControlStep(caller)
      PROVE  UNCHANGED <<requestVars, tokenVars>>
  BY <1>3 DEF BoardStep, AddBoardMember, RemoveBoardMember, SetCashOutThreshold,
              AccessControlStep, GrantBoardRole, RevokeBoardRole, RenounceBoardRole,
              RenounceAdminRole
<1>4. ProtocolStep \/ Tick \/ UNCHANGED vars => UNCHANGED <<requestVars, tokenVars>>
  BY DEF ProtocolStep, SetAdmin, SetStatus, Tick, vars
<1>5. UNCHANGED <<requestVars, tokenVars>> => Treasury!TreasuryNext
  BY RuleOrStutter DEF Treasury!TreasuryNext
<1>. QED  BY <1>1, <1>2, <1>3, <1>4, <1>5 DEF Next

(***************************************************************************)
(* Every behaviour of the contract, with boards, requests and amounts of   *)
(* any size, is one of the multi-signature treasury (170-302).             *)
(***************************************************************************)
THEOREM TreasuryImplemented == Spec => ImplementsTreasury
<1>1. Init => Treasury!TreasuryInit
  BY InitTreasury
<1>2. IInv /\ IInv' /\ [Next]_vars => [Treasury!TreasuryNext]_(Treasury!treasuryVars)
  BY StepSimulation
<1>. QED
  BY <1>1, <1>2, Invariance, PTL DEF Spec, ImplementsTreasury, Treasury!TreasurySpec
=============================================================================
