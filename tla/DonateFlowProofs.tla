-------------------------- MODULE DonateFlowProofs --------------------------
(***************************************************************************)
(* Theorems about DonateFlow for every set of accounts, amounts, funds and *)
(* number of submissions that DonateAssumption admits.                     *)
(***************************************************************************)
EXTENDS DonateFlow, TLAPS

\* What the stage of submission s says of its two transactions on the network.
StageMatchesTx(s) ==
  LET f == flow[s]  status(op) == tx[s][op].status IN
  /\ f.at = "unused"     => ~f.live /\ \A op \in Op : status(op) = "none"
  /\ f.op = "approve"    => status("cashIn") = "none"
  /\ f.op = "cashIn"     => status("approve") \in {"none", "mined"}
  /\ f.at = "simulating" => status(f.op) = "none"
  /\ f.at = "prompting"  => status(f.op) = "prompted"
  /\ f.at = "confirming" => status(f.op) \in {"pending", "mined", "reverted"}
  /\ f.at = "refetching" => f.op = "approve" /\ status("approve") = "mined"
  /\ f.at \in {"refused", "dropped"} => status("cashIn") \in {"none", "reverted"}

StagesMatchTx == \A s \in Submission : StageMatchesTx(s)

\* What reaches a wallet is a positive amount for one of its accounts.
SentIsSound ==
  \A s \in Submission, op \in Op :
    tx[s][op].status # "none" => flow[s].amount > 0 /\ tx[s][op].by \in Account

\* The form that thanks does so for a submission, and for one that has paid.
ThanksForOne ==
  form.step = "done" => form.of \in Submission /\ tx[form.of]["cashIn"].status = "mined"

\* Submission s accounts for what the instance may still take from account a.
IsCause(a, s) ==
  /\ tx[s]["approve"].status = "mined" /\ tx[s]["approve"].by = a
  /\ ~(tx[s]["cashIn"].status = "mined" /\ tx[s]["cashIn"].by = a)
  /\ allowance[a] <= flow[s].amount

\* The approved amount bounds what is left of it: once the submission that approved it
\* has been paid from the same account, nothing is.
AllowanceIsBounded ==
  \A a \in Account : allowance[a] > 0 => \E s \in Submission : IsCause(a, s)

\* The inductive invariant.
IInv ==
  /\ TypeOK
  /\ StagesMatchTx
  /\ SentIsSound
  /\ FormShowsItsFlow
  /\ ThanksForOne
  /\ AllowanceIsBounded
----------------------------------------------------------------------------
\* Types of the parts of a submission and of its transactions.
LEMMA PartTypes ==
  ASSUME TypeOK, NEW s \in Submission
  PROVE  /\ flow[s] \in [at : {"unused"} \cup Running \cup Ended, op : Op,
                         amount : Amount \cup {0}, live : BOOLEAN]
         /\ flow[s].at \in {"unused"} \cup Running \cup Ended
         /\ flow[s].op \in Op /\ flow[s].amount \in Int /\ flow[s].live \in BOOLEAN
         /\ tx[s] \in [Op -> [by : Account \cup {Nobody},
                status : {"none", "prompted", "pending", "mined", "reverted"}]]
<1>1. flow[s] \in [at : {"unused"} \cup Running \cup Ended, op : Op,
                   amount : Amount \cup {0}, live : BOOLEAN]
  BY DEF TypeOK
<1>2. flow[s].amount \in Amount \cup {0}
  BY <1>1
<1>3. flow[s].amount \in Int
  BY <1>2, DonateAssumption
<1>4. tx[s] \in [Op -> [by : Account \cup {Nobody},
                status : {"none", "prompted", "pending", "mined", "reverted"}]]
  BY DEF TypeOK
<1>. QED  BY <1>1, <1>3, <1>4

TxType == [by : Account \cup {Nobody},
           status : {"none", "prompted", "pending", "mined", "reverted"}]

\* A transaction with a new status is still one.
LEMMA TxStatusType ==
  ASSUME TypeOK, NEW s \in Submission, NEW op \in Op,
         NEW new \in {"none", "prompted", "pending", "mined", "reverted"}
  PROVE  [tx EXCEPT ![s][op].status = new] \in [Submission -> [Op -> TxType]]
<1>1. tx \in [Submission -> [Op -> TxType]]
  BY DEF TypeOK, TxType
<1>2. [tx[s][op] EXCEPT !.status = new] \in TxType
  BY <1>1 DEF TxType
<1>. DEFINE changed == [tx[s][op] EXCEPT !.status = new]
<1>. HIDE DEF changed
<1>3. [tx[s] EXCEPT ![op] = changed] \in [Op -> TxType]
  BY <1>1, <1>2 DEF changed
<1>4. [tx EXCEPT ![s] = [tx[s] EXCEPT ![op] = changed]] \in [Submission -> [Op -> TxType]]
  BY <1>1, <1>3
<1>. QED  BY <1>4 DEF changed

\* The form keeps its type through the callbacks of a submission.
LEMMA FormAfterType ==
  ASSUME TypeOK, NEW s \in Submission, NEW step \in Step, NEW error \in BOOLEAN
  PROVE  FormAfter(s, step, error) \in [step : Step, error : BOOLEAN, of : {0} \cup Submission]
BY DEF TypeOK, FormAfter

\* A failed submission is well typed.
LEMMA FailType ==
  ASSUME TypeOK, NEW s \in Submission, NEW outcome \in Ended, Fail(s, outcome)
  PROVE  /\ form' \in [step : Step, error : BOOLEAN, of : {0} \cup Submission]
         /\ flow' \in [Submission -> [at : {"unused"} \cup Running \cup Ended,
                              op : Op, amount : Amount \cup {0}, live : BOOLEAN]]
         /\ UNCHANGED <<account, page, cached, balance, allowance, treasury>>
<1>1. "idle" \in Step /\ TRUE \in BOOLEAN
  BY DEF Step
<1>2. form' \in [step : Step, error : BOOLEAN, of : {0} \cup Submission]
  BY <1>1, FormAfterType DEF Fail
<1>. QED  BY <1>2 DEF Fail, TypeOK, chainVars

\* What a mined transaction does to the stablecoin leaves natural numbers.
LEMMA MineType ==
  ASSUME TypeOK, SentIsSound, NEW s \in Submission, NEW op \in Op, Mine(s, op)
  PROVE  TypeOK'
<1>. USE DEF TypeOK
<1>1. /\ flow[s].amount \in Int /\ flow[s].amount > 0 /\ tx[s][op].by \in Account
      /\ tx[s][op].status = "pending"
  BY PartTypes DEF SentIsSound, Mine
<1>. DEFINE by == tx[s][op].by  amount == flow[s].amount
<1>2. tx' \in [Submission -> [Op -> [by : Account \cup {Nobody},
                 status : {"none", "prompted", "pending", "mined", "reverted"}]]]
  <2>. DEFINE new == IF Allowed(op, by, amount) THEN "mined" ELSE "reverted"
  <2>1. new \in {"mined", "reverted"} /\ tx' = [tx EXCEPT ![s][op].status = new]
    BY DEF Mine
  <2>. HIDE DEF new
  <2>. QED  BY <2>1, TxStatusType DEF TxType
<1>3. CASE ~Allowed(op, by, amount)
  BY <1>2, <1>3 DEF Mine, chainVars
<1>4. CASE Allowed(op, by, amount) /\ op = "approve"
  <2>1. allowance' = [allowance EXCEPT ![by] = amount] /\ UNCHANGED <<balance, treasury>>
    BY <1>4 DEF Mine, ApprovedAmount
  <2>2. allowance' \in [Account -> Nat]
    BY <1>1, <2>1
  <2>. QED  BY <1>2, <2>1, <2>2 DEF Mine
<1>5. CASE Allowed(op, by, amount) /\ op # "approve"
  <2>1. amount <= allowance[by] /\ amount <= balance[by]
    BY <1>5 DEF Allowed
  <2>2. /\ allowance' = [allowance EXCEPT ![by] = @ - amount]
        /\ balance' = [balance EXCEPT ![by] = @ - amount]
        /\ treasury' = treasury + amount
    BY <1>5 DEF Mine
  <2>3. allowance[by] - amount \in Nat /\ balance[by] - amount \in Nat
        /\ treasury + amount \in Nat
    BY <1>1, <2>1
  <2>. HIDE DEF by, amount
  <2>4. allowance' \in [Account -> Nat] /\ balance' \in [Account -> Nat] /\ treasury' \in Nat
    BY <2>2, <2>3
  <2>. QED  BY <1>2, <2>4 DEF Mine
<1>. QED  BY <1>3, <1>4, <1>5

\* Every step of page, form, wallet, node and network is well typed.
LEMMA NextTypeOK ==
  ASSUME TypeOK, SentIsSound, Next
  PROVE  TypeOK'
<1>. USE DEF TypeOK
<1>1. CASE OpenPage
  BY <1>1 DEF OpenPage, chainVars
<1>2. CASE LeavePage
  BY <1>2 DEF LeavePage, Unmount, EmptyForm, Step, chainVars
<1>3. CASE ReadToken
  <2>1. [balance |-> balance[account], allowance |-> allowance[account]]
          \in [balance : Nat, allowance : Nat]
    BY <1>3 DEF ReadToken
  <2>. QED  BY <1>3, <2>1 DEF ReadToken, chainVars
<1>4. CASE Reset
  BY <1>4 DEF Reset, EmptyForm, Step, chainVars
<1>5. ASSUME NEW verified \in BOOLEAN, ReadRow(verified) PROVE TypeOK'
  <2>1. CASE page = "form" /\ ~verified
    <3>1. page' = "noForm" /\ Unmount /\ UNCHANGED <<account, cached, tx, chainVars>>
      BY <1>5, <2>1 DEF ReadRow
    <3>. QED  BY <3>1 DEF Unmount, EmptyForm, Step, chainVars
  <2>2. CASE ~(page = "form" /\ ~verified)
    BY <1>5, <2>2 DEF ReadRow, chainVars
  <2>. QED  BY <2>1, <2>2
<1>6. ASSUME NEW a \in Account \cup {Nobody}, ChangeAccount(a) PROVE TypeOK'
  BY <1>6 DEF ChangeAccount, chainVars
<1>7. ASSUME NEW s \in Submission PROVE
        /\ \A amount \in Amount : Submit(s, amount) => TypeOK'
        /\ FlowStep(s) \/ WalletSigns(s) \/ WalletRefuses(s) => TypeOK'
  <2>1. ASSUME NEW amount \in Amount, Submit(s, amount) PROVE TypeOK'
    <3>1. FirstOp(amount) \in Op
      BY DEF FirstOp, Op
    <3>2. StepOf(FirstOp(amount)) \in Step
      BY DEF StepOf, Step
    <3>. QED  BY <2>1, <3>1, <3>2 DEF Submit, Running, chainVars
  <2>2. CASE Simulate(s)
    <3>1. account \in Account /\ flow[s].op \in Op
      BY <2>2, PartTypes DEF Simulate
    <3>. QED  BY <2>2, <3>1 DEF Simulate, Running, chainVars
  <2>3. CASE SimulateFails(s)
    BY <2>3, FailType DEF SimulateFails, Ended
  <2>4. ASSUME NEW op \in Op, Mine(s, op) PROVE TypeOK'
    BY <2>4, MineType
  <2>5. CASE Approved(s)
    BY <2>5 DEF Approved, Running, Ended, chainVars
  <2>6. CASE Refetched(s)
    <3>1. form' \in [step : Step, error : BOOLEAN, of : {0} \cup Submission]
      BY <2>6, FormAfterType DEF Refetched, Step
    <3>2. cached' \in [Account -> [balance : Nat, allowance : Nat]]
      <4>1. CASE UNCHANGED cached
        BY <4>1
      <4>2. CASE /\ account # Nobody
                 /\ cached' = [cached EXCEPT ![account].allowance = allowance[account]]
        <5>. DEFINE read == [cached[account] EXCEPT !.allowance = allowance[account]]
        <5>1. read \in [balance : Nat, allowance : Nat]
          BY <4>2
        <5>2. cached' = [cached EXCEPT ![account] = read]
          BY <4>2
        <5>. HIDE DEF read
        <5>. QED  BY <5>1, <5>2
      <4>. QED  BY <2>6, <4>1, <4>2 DEF Refetched
    <3>3. flow' \in [Submission -> [at : {"unused"} \cup Running \cup Ended,
                                    op : Op, amount : Amount \cup {0}, live : BOOLEAN]]
      <4>. DEFINE next == [flow[s] EXCEPT !.at = "simulating", !.op = "cashIn"]
      <4>1. next \in [at : {"unused"} \cup Running \cup Ended,
                      op : Op, amount : Amount \cup {0}, live : BOOLEAN]
        BY PartTypes DEF Running, Op
      <4>2. flow' = [flow EXCEPT ![s] = next]
        BY <2>6 DEF Refetched
      <4>. HIDE DEF next
      <4>. QED  BY <4>1, <4>2
    <3>. QED  BY <2>6, <3>1, <3>2, <3>3 DEF Refetched, chainVars
  <2>7. CASE Donated(s)
    <3>1. form' \in [step : Step, error : BOOLEAN, of : {0} \cup Submission]
      BY <2>7, FormAfterType DEF Donated, Step
    <3>. QED  BY <2>7, <3>1 DEF Donated, Ended, chainVars
  <2>8. CASE Reverted(s)
    BY <2>8, FailType DEF Reverted, Ended
  <2>9. CASE ReceiptLost(s)
    BY <2>9, FailType DEF ReceiptLost, Ended
  <2>10. CASE WalletSigns(s)
    <3>1. tx' \in [Submission -> [Op -> TxType]]
      BY <2>10, PartTypes, TxStatusType DEF WalletSigns
    <3>2. flow' \in [Submission -> [at : {"unused"} \cup Running \cup Ended,
                                    op : Op, amount : Amount \cup {0}, live : BOOLEAN]]
      BY <2>10 DEF WalletSigns, Running
    <3>. QED  BY <2>10, <3>1, <3>2 DEF WalletSigns, TxType, chainVars
  <2>11. CASE WalletRefuses(s)
    <3>1. NoTx \in [by : Account \cup {Nobody},
                    status : {"none", "prompted", "pending", "mined", "reverted"}]
      BY DEF NoTx
    <3>. QED  BY <2>11, <3>1, FailType DEF WalletRefuses, Ended
  <2>. QED
    BY <2>1, <2>2, <2>3, <2>4, <2>5, <2>6, <2>7, <2>8, <2>9, <2>10, <2>11 DEF FlowStep
<1>. QED  BY <1>1, <1>2, <1>3, <1>4, <1>5, <1>6, <1>7 DEF Next
----------------------------------------------------------------------------
(* A step is one of the page, or of one submission. *)

\* What happens to the page and the account.
AroundForm ==
  \/ OpenPage \/ LeavePage \/ ReadToken \/ Reset
  \/ \E verified \in BOOLEAN : ReadRow(verified)
  \/ \E a \in Account \cup {Nobody} : ChangeAccount(a)

\* What happens to submission s.
OfSubmission(s) ==
  \/ \E amount \in Amount : Submit(s, amount)
  \/ FlowStep(s)
  \/ WalletSigns(s) \/ WalletRefuses(s)

\* A step of the page touches no transaction and no submission, except that these may
\* lose their form; and it clears the form only with what runs for it, or when done.
LEMMA PageKeepsSubmissions ==
  ASSUME TypeOK, AroundForm
  PROVE  /\ UNCHANGED <<tx, balance, allowance, treasury>>
         /\ \A s \in Submission :
              /\ flow'[s].at = flow[s].at /\ flow'[s].op = flow[s].op
              /\ flow'[s].amount = flow[s].amount
              /\ flow'[s].live => flow[s].live
         /\ \/ form' = form
            \/ /\ form' = EmptyForm
               /\ form.step = "done" \/ \A s \in Submission : ~flow'[s].live
<1>. USE DEF TypeOK
<1>1. CASE OpenPage
  BY <1>1 DEF OpenPage, chainVars
<1>2. ASSUME Unmount
      PROVE  /\ \A s \in Submission :
                  /\ flow'[s].at = flow[s].at /\ flow'[s].op = flow[s].op
                  /\ flow'[s].amount = flow[s].amount /\ ~flow'[s].live
             /\ form' = EmptyForm
  BY <1>2 DEF Unmount
<1>3. CASE LeavePage
  BY <1>2, <1>3 DEF LeavePage, chainVars
<1>4. CASE ReadToken
  BY <1>4 DEF ReadToken, chainVars
<1>5. CASE Reset
  BY <1>5 DEF Reset, chainVars
<1>6. ASSUME NEW verified \in BOOLEAN, ReadRow(verified)
      PROVE  UNCHANGED <<tx, chainVars>> /\ (Unmount \/ UNCHANGED <<form, flow>>)
  BY <1>6 DEF ReadRow
<1>7. CASE \E verified \in BOOLEAN : ReadRow(verified)
  BY <1>2, <1>6, <1>7 DEF chainVars
<1>8. CASE \E a \in Account \cup {Nobody} : ChangeAccount(a)
  BY <1>8 DEF ChangeAccount, chainVars
<1>. QED  BY <1>1, <1>3, <1>4, <1>5, <1>7, <1>8 DEF AroundForm

\* A step of one submission leaves the others alone.
LEMMA OthersAreKept ==
  ASSUME TypeOK, NEW s \in Submission, OfSubmission(s), NEW r \in Submission \ {s}
  PROVE  flow'[r] = flow[r] /\ tx'[r] = tx[r]
BY DEF TypeOK, OfSubmission, Submit, FlowStep, Simulate, SimulateFails, Fail, Mine, Approved,
       Refetched, Donated, Reverted, ReceiptLost, WalletSigns, WalletRefuses

\* A submission that fails without the wallet keeps its amount, and touches no transaction.
LEMMA FailureKeeps ==
  ASSUME TypeOK, NEW s \in Submission, SimulateFails(s) \/ Reverted(s) \/ ReceiptLost(s)
  PROVE  flow'[s].amount = flow[s].amount /\ UNCHANGED <<tx, balance, allowance, treasury>>
<1>1. PICK outcome \in Ended : Fail(s, outcome) /\ tx' = tx
  BY DEF SimulateFails, Reverted, ReceiptLost, Ended
<1>. QED  BY <1>1 DEF TypeOK, Fail, chainVars

\* A step leaves a submission as it was, or is one of its own.
LEMMA StepsOfOne ==
  ASSUME TypeOK, Next
  PROVE  AroundForm \/ \E s \in Submission : OfSubmission(s)
BY DEF Next, AroundForm, OfSubmission
----------------------------------------------------------------------------
\* Stages and transactions stay in step.
LEMMA NextStages ==
  ASSUME TypeOK, StagesMatchTx, Next
  PROVE  StagesMatchTx'
<1>1. CASE AroundForm
  BY <1>1, PageKeepsSubmissions DEF StagesMatchTx, StageMatchesTx
<1>2. ASSUME NEW s \in Submission, OfSubmission(s) PROVE StageMatchesTx(s)'
  <2>. USE DEF TypeOK, StageMatchesTx
  <2>1. StageMatchesTx(s) /\ flow[s].op \in Op
    BY PartTypes DEF StagesMatchTx
  <2>2. ASSUME NEW amount \in Amount, Submit(s, amount) PROVE StageMatchesTx(s)'
    BY <2>1, <2>2 DEF Submit, FirstOp, Op
  <2>3. CASE Simulate(s)
    BY <2>1, <2>3 DEF Simulate, Op
  <2>4. CASE SimulateFails(s)
    BY <2>1, <2>4 DEF SimulateFails, Fail, Op
  <2>5. ASSUME NEW op \in Op, Mine(s, op) PROVE StageMatchesTx(s)'
    BY <2>1, <2>5 DEF Mine, Op
  <2>6. CASE Approved(s)
    BY <2>1, <2>6 DEF Approved, Op
  <2>7. CASE Refetched(s)
    BY <2>1, <2>7 DEF Refetched, Op
  <2>8. CASE Donated(s)
    BY <2>1, <2>8 DEF Donated, Op
  <2>9. CASE Reverted(s)
    BY <2>1, <2>9 DEF Reverted, Fail, Op
  <2>10. CASE ReceiptLost(s)
    BY <2>1, <2>10 DEF ReceiptLost, Fail, Op
  <2>11. CASE WalletSigns(s)
    BY <2>1, <2>11 DEF WalletSigns, Op
  <2>12. CASE WalletRefuses(s)
    BY <2>1, <2>12 DEF WalletRefuses, Fail, NoTx, Op
  <2>. QED
    BY <1>2, <2>2, <2>3, <2>4, <2>5, <2>6, <2>7, <2>8, <2>9, <2>10, <2>11, <2>12
       DEF OfSubmission, FlowStep
<1>3. ASSUME NEW s \in Submission, OfSubmission(s) PROVE StagesMatchTx'
  BY <1>2, <1>3, OthersAreKept DEF StagesMatchTx, StageMatchesTx
<1>. QED  BY <1>1, <1>3, StepsOfOne

\* Only a positive amount gets past the simulation, and only for a connected account.
LEMMA NextSent ==
  ASSUME TypeOK, StagesMatchTx, SentIsSound, Next
  PROVE  SentIsSound'
<1>. DEFINE Sound(s) == \A op \in Op :
       tx[s][op].status # "none" => flow[s].amount > 0 /\ tx[s][op].by \in Account
<1>1. CASE AroundForm
  BY <1>1, PageKeepsSubmissions DEF SentIsSound
<1>2. ASSUME NEW s \in Submission, OfSubmission(s) PROVE Sound(s)'
  <2>. USE DEF TypeOK
  <2>1. Sound(s) /\ StageMatchesTx(s) /\ flow[s].op \in Op
    BY PartTypes DEF SentIsSound, StagesMatchTx
  <2>2. ASSUME NEW amount \in Amount, Submit(s, amount) PROVE Sound(s)'
    BY <2>1, <2>2 DEF Submit, StageMatchesTx
  <2>3. CASE Simulate(s)
    BY <2>1, <2>3 DEF Simulate
  <2>4. ASSUME NEW op \in Op, Mine(s, op) PROVE Sound(s)'
    BY <2>1, <2>4 DEF Mine
  <2>5. CASE WalletSigns(s)
    <3>1. /\ flow'[s].amount = flow[s].amount
          /\ tx'[s] = [tx[s] EXCEPT ![flow[s].op].status = "pending"]
      BY <2>5 DEF WalletSigns
    <3>2. tx[s][flow[s].op].status # "none"
      BY <2>1, <2>5 DEF WalletSigns, StageMatchesTx
    <3>3. \A op \in Op : tx'[s][op].by = tx[s][op].by
                         /\ (op # flow[s].op => tx'[s][op].status = tx[s][op].status)
      BY <3>1, PartTypes
    <3>. QED  BY <2>1, <3>1, <3>2, <3>3
  <2>6. CASE WalletRefuses(s)
    BY <2>1, <2>6 DEF WalletRefuses, Fail, NoTx
  <2>7. CASE SimulateFails(s) \/ Approved(s) \/ Refetched(s) \/ Donated(s) \/ Reverted(s)
             \/ ReceiptLost(s)
    <3>1. flow'[s].amount = flow[s].amount /\ tx' = tx
      <4>1. CASE SimulateFails(s) \/ Reverted(s) \/ ReceiptLost(s)
        BY <4>1, FailureKeeps
      <4>2. CASE Approved(s) \/ Donated(s)
        BY <4>2 DEF Approved, Donated
      <4>3. CASE Refetched(s)
        BY <4>3 DEF Refetched
      <4>. QED  BY <2>7, <4>1, <4>2, <4>3
    <3>. QED  BY <2>1, <3>1
  <2>. QED
    BY <1>2, <2>2, <2>3, <2>4, <2>5, <2>6, <2>7 DEF OfSubmission, FlowStep
<1>3. ASSUME NEW s \in Submission, OfSubmission(s) PROVE SentIsSound'
  BY <1>2, <1>3, OthersAreKept DEF SentIsSound
<1>. QED  BY <1>1, <1>3, StepsOfOne
----------------------------------------------------------------------------
\* A submission whose form is there works on what the form shows.
LEMMA NextForm ==
  ASSUME TypeOK, StagesMatchTx, FormShowsItsFlow, ThanksForOne, Next
  PROVE  FormShowsItsFlow' /\ ThanksForOne'
<1>. DEFINE Shows(s) == flow[s].live /\ flow[s].at \in Running =>
       /\ s = form.of
       /\ form.step = IF flow[s].at = "refetching" THEN "approving" ELSE StepOf(flow[s].op)
<1>1. CASE AroundForm
  <2>1. CASE form' = form
    BY <1>1, <2>1, PageKeepsSubmissions DEF FormShowsItsFlow, ThanksForOne, StepOf
  <2>2. CASE form' # form
    BY <1>1, <2>2, PageKeepsSubmissions DEF FormShowsItsFlow, ThanksForOne, StepOf, EmptyForm
  <2>. QED  BY <2>1, <2>2
<1>2. ASSUME NEW s \in Submission, OfSubmission(s)
      PROVE  FormShowsItsFlow' /\ ThanksForOne'
  <2>. USE DEF TypeOK
  <2>1. /\ \A r \in Submission : Shows(r)
        /\ StageMatchesTx(s) /\ flow[s].op \in Op /\ flow[s].live \in BOOLEAN
        /\ "done" # StepOf("approve") /\ "done" # StepOf("cashIn")
        /\ "idle" # StepOf("approve") /\ "idle" # StepOf("cashIn")
    BY PartTypes DEF FormShowsItsFlow, StagesMatchTx, StepOf
  <2>2. \A r \in Submission \ {s} : flow'[r] = flow[r] /\ tx'[r] = tx[r]
    BY <1>2, OthersAreKept
  <2>3. ASSUME NEW amount \in Amount, Submit(s, amount)
        PROVE  FormShowsItsFlow' /\ ThanksForOne'
    <3>1. form.step = "idle"
      BY <2>3 DEF Submit, MayEnter, Busy
    <3>2. \A r \in Submission : ~(flow[r].live /\ flow[r].at \in Running)
      BY <2>1, <3>1, PartTypes DEF Op, StepOf
    <3>3. /\ form'.of = s /\ form'.step = StepOf(FirstOp(amount))
          /\ flow'[s].at = "simulating" /\ flow'[s].op = FirstOp(amount)
      BY <2>3 DEF Submit
    <3>4. StepOf(FirstOp(amount)) # "done"
      BY DEF StepOf
    <3>. QED  BY <2>2, <3>2, <3>3, <3>4 DEF FormShowsItsFlow, ThanksForOne
  <2>thanks. ASSUME form' = form,
                tx[s]["cashIn"].status = "mined" => tx'[s]["cashIn"].status = "mined"
         PROVE  ThanksForOne'
    <3>1. ASSUME form.step = "done"
          PROVE  form.of \in Submission /\ tx'[form.of]["cashIn"].status = "mined"
      BY <2>2, <2>thanks, <3>1 DEF ThanksForOne
    <3>. QED  BY <2>thanks, <3>1 DEF ThanksForOne
  <2>shows. ASSUME form' = form, Shows(s)'
         PROVE  FormShowsItsFlow'
    <3>1. \A r \in Submission : Shows(r)'
      BY <2>1, <2>2, <2>shows
    <3>. QED  BY <3>1 DEF FormShowsItsFlow
  <2>4. ASSUME UNCHANGED form, flow'[s].live = flow[s].live, flow'[s].op = flow[s].op,
               flow'[s].at \in Running => flow[s].at \in Running,
               flow'[s].at = "refetching" => flow[s].op = "approve",
               flow[s].at = "refetching" => flow'[s].at \notin Running,
               tx[s]["cashIn"].status = "mined" => tx'[s]["cashIn"].status = "mined"
        PROVE  FormShowsItsFlow' /\ ThanksForOne'
    <3>1. Shows(s)'
      BY <2>1, <2>4 DEF StepOf, Running
    <3>. QED  BY <2>4, <2>thanks, <2>shows, <3>1
  <2>5. ASSUME NEW outcome \in Ended, Fail(s, outcome), flow[s].at \in Running,
               tx[s]["cashIn"].status = "mined" => tx'[s]["cashIn"].status = "mined"
        PROVE  FormShowsItsFlow' /\ ThanksForOne'
    <3>1. flow'[s].at = outcome /\ outcome \notin Running
      BY <2>5 DEF Fail, Ended, Running
    <3>2. CASE flow[s].live
      <4>1. s = form.of /\ form'.step = "idle"
        BY <2>1, <2>5, <3>2 DEF Fail, FormAfter
      <4>. QED  BY <2>1, <2>2, <3>1, <4>1 DEF FormShowsItsFlow, ThanksForOne
    <3>3. CASE ~flow[s].live
      <4>1. form' = form
        BY <2>5, <3>3 DEF Fail, FormAfter
      <4>. QED  BY <2>5, <2>thanks, <2>shows, <3>1, <4>1
    <3>. QED  BY <2>1, <3>2, <3>3
  <2>6. CASE Simulate(s)
    BY <2>1, <2>4, <2>6 DEF Simulate, Running, StageMatchesTx, Op
  <2>7. CASE SimulateFails(s)
    BY <2>5, <2>7 DEF SimulateFails, Ended, Running
  <2>8. ASSUME NEW op \in Op, Mine(s, op) PROVE FormShowsItsFlow' /\ ThanksForOne'
    <3>1. UNCHANGED <<form, flow>> /\ tx[s][op].status = "pending"
      BY <2>8 DEF Mine
    <3>2. tx[s]["cashIn"].status = "mined" => tx'[s]["cashIn"].status = "mined"
      BY <2>8, <3>1, PartTypes DEF Mine
    <3>3. Shows(s)'
      BY <2>1, <3>1
    <3>. QED  BY <2>thanks, <2>shows, <3>1, <3>2, <3>3
  <2>9. CASE Approved(s)
    BY <2>1, <2>4, <2>9 DEF Approved, Running
  <2>10. CASE Refetched(s)
    <3>1. flow'[s].at = "simulating" /\ flow'[s].op = "cashIn" /\ flow'[s].live = flow[s].live
      BY <2>10 DEF Refetched
    <3>2. flow[s].at = "refetching" /\ tx' = tx /\ form' = FormAfter(s, "donating", form.error)
      BY <2>10 DEF Refetched
    <3>3. CASE flow[s].live
      <4>1. s = form.of /\ form'.of = s /\ form'.step = "donating"
        BY <2>1, <3>2, <3>3 DEF FormAfter, Running
      <4>. QED  BY <2>1, <2>2, <3>1, <4>1 DEF FormShowsItsFlow, ThanksForOne, StepOf
    <3>4. CASE ~flow[s].live
      <4>1. form' = form
        BY <3>2, <3>4 DEF FormAfter
      <4>. QED  BY <2>1, <2>2, <3>1, <3>2, <3>4, <4>1 DEF FormShowsItsFlow, ThanksForOne
    <3>. QED  BY <2>1, <3>3, <3>4
  <2>11. CASE Donated(s)
    <3>1. flow'[s].at = "paid" /\ tx' = tx /\ form' = FormAfter(s, "done", form.error)
      BY <2>11 DEF Donated
    <3>2. flow[s].at = "confirming" /\ tx[s]["cashIn"].status = "mined"
      BY <2>11 DEF Donated
    <3>3. CASE flow[s].live
      <4>1. s = form.of /\ form'.of = s /\ form'.step = "done"
        BY <2>1, <3>1, <3>2, <3>3 DEF FormAfter, Running
      <4>. QED  BY <2>1, <2>2, <3>1, <3>2, <4>1 DEF FormShowsItsFlow, ThanksForOne, Running
    <3>4. CASE ~flow[s].live
      <4>1. form' = form
        BY <3>1, <3>4 DEF FormAfter
      <4>. QED  BY <2>thanks, <2>shows, <3>1, <4>1 DEF Running
    <3>. QED  BY <2>1, <3>3, <3>4
  <2>12. CASE Reverted(s)
    BY <2>5, <2>12 DEF Reverted, Ended, Running
  <2>13. CASE ReceiptLost(s)
    BY <2>5, <2>13 DEF ReceiptLost, Ended, Running
  <2>14. CASE WalletSigns(s)
    BY <2>1, <2>4, <2>14 DEF WalletSigns, Running, StageMatchesTx, Op
  <2>15. CASE WalletRefuses(s)
    BY <2>1, <2>5, <2>15 DEF WalletRefuses, Ended, Running, StageMatchesTx, NoTx, Op
  <2>. QED
    BY <1>2, <2>3, <2>6, <2>7, <2>8, <2>9, <2>10, <2>11, <2>12, <2>13, <2>14, <2>15
       DEF OfSubmission, FlowStep
<1>. QED  BY <1>1, <1>2, StepsOfOne
----------------------------------------------------------------------------
\* A submission that accounts for an allowance goes on doing so, as long as the allowance
\* does not grow and the submission is not paid from that account.
LEMMA CauseKept ==
  ASSUME TypeOK, NEW a \in Account, NEW s \in Submission, IsCause(a, s),
         tx'[s]["approve"] = tx[s]["approve"], flow'[s].amount = flow[s].amount,
         tx'[s]["cashIn"].status = "mined" /\ tx'[s]["cashIn"].by = a =>
           tx[s]["cashIn"].status = "mined" /\ tx[s]["cashIn"].by = a,
         allowance'[a] <= allowance[a], allowance'[a] \in Nat
  PROVE  IsCause(a, s)'
<1>1. allowance[a] \in Nat /\ flow[s].amount \in Int
  BY PartTypes DEF TypeOK
<1>. QED  BY <1>1 DEF IsCause

\* A step that mines nothing keeps every cause.
LEMMA CausesKept ==
  ASSUME TypeOK, AllowanceIsBounded, UNCHANGED allowance, NEW s \in Submission,
         \A r \in Submission \ {s} : flow'[r] = flow[r] /\ tx'[r] = tx[r],
         tx[s]["approve"].status = "mined" =>
           tx'[s]["approve"] = tx[s]["approve"] /\ flow'[s].amount = flow[s].amount,
         tx'[s]["cashIn"].status = "mined" => tx'[s]["cashIn"] = tx[s]["cashIn"]
  PROVE  AllowanceIsBounded'
<1>. SUFFICES ASSUME NEW a \in Account, allowance'[a] > 0
              PROVE  \E r \in Submission : IsCause(a, r)'
  BY DEF AllowanceIsBounded
<1>1. allowance[a] \in Nat /\ allowance'[a] = allowance[a]
  BY DEF TypeOK
<1>2. PICK r \in Submission : IsCause(a, r)
  BY <1>1 DEF AllowanceIsBounded
<1>3. CASE r = s
  <2>1. tx[s]["approve"].status = "mined"
    BY <1>2, <1>3 DEF IsCause
  <2>. QED  BY <1>1, <1>2, <1>3, <2>1, CauseKept
<1>4. CASE r # s
  BY <1>1, <1>2, <1>4, CauseKept
<1>. QED  BY <1>3, <1>4

\* A mined donation uses up what its own approval allowed, a mined approval is a cause.
LEMMA MineCauses ==
  ASSUME TypeOK, StagesMatchTx, SentIsSound, AllowanceIsBounded,
         NEW s \in Submission, NEW op \in Op, Mine(s, op)
  PROVE  AllowanceIsBounded'
<1>. DEFINE by == tx[s][op].by  amount == flow[s].amount
<1>1. /\ by \in Account /\ amount \in Int /\ amount > 0
      /\ tx[s][op].status = "pending" /\ flow' = flow
  BY PartTypes DEF SentIsSound, Mine
<1>2. \A r \in Submission \ {s} : tx'[r] = tx[r]
  BY DEF Mine, TypeOK
<1>3. /\ \A other \in Op \ {op} : tx'[s][other] = tx[s][other]
      /\ tx'[s][op].by = by
      /\ tx'[s][op].status = IF Allowed(op, by, amount) THEN "mined" ELSE "reverted"
  BY PartTypes DEF Mine, TypeOK
<1>4. StageMatchesTx(s)
  BY DEF StagesMatchTx
<1>5. CASE ~Allowed(op, by, amount)
  <2>1. UNCHANGED allowance
    BY <1>5 DEF Mine, chainVars
  <2>2. tx[s]["approve"].status = "mined" => op # "approve"
    BY <1>1
  <2>. QED  BY <1>1, <1>2, <1>3, <1>5, <2>1, <2>2, CausesKept DEF Op
<1>6. CASE Allowed(op, by, amount) /\ op = "approve"
  <2>1. allowance' = [allowance EXCEPT ![by] = amount]
    BY <1>6 DEF Mine, ApprovedAmount
  <2>2. tx[s]["cashIn"].status # "mined"
    BY <1>1, <1>4, <1>6, PartTypes DEF StageMatchesTx, Op
  <2>. SUFFICES ASSUME NEW a \in Account, allowance'[a] > 0
                PROVE  \E r \in Submission : IsCause(a, r)'
    BY DEF AllowanceIsBounded
  <2>3. CASE a = by
    <3>1. allowance'[a] = amount
      BY <2>1, <2>3 DEF TypeOK
    <3>2. tx'[s]["cashIn"].status # "mined" /\ tx'[s]["approve"].status = "mined"
          /\ tx'[s]["approve"].by = a
      BY <1>3, <1>6, <2>2, <2>3 DEF Op
    <3>. QED  BY <1>1, <3>1, <3>2 DEF IsCause
  <2>4. CASE a # by
    <3>1. allowance[a] \in Nat /\ allowance'[a] = allowance[a]
      BY <2>1, <2>4 DEF TypeOK
    <3>2. PICK r \in Submission : IsCause(a, r)
      BY <3>1 DEF AllowanceIsBounded
    <3>3. r # s
      BY <1>1, <1>6, <3>2 DEF IsCause
    <3>. QED  BY <1>1, <1>2, <3>1, <3>2, <3>3, CauseKept
  <2>. QED  BY <2>3, <2>4
<1>7. CASE Allowed(op, by, amount) /\ op # "approve"
  <2>1. allowance' = [allowance EXCEPT ![by] = @ - amount] /\ amount <= allowance[by]
    BY <1>7 DEF Mine, Allowed
  <2>. HIDE DEF by, amount
  <2>. SUFFICES ASSUME NEW a \in Account, allowance'[a] > 0
                PROVE  \E r \in Submission : IsCause(a, r)'
    BY DEF AllowanceIsBounded
  <2>2. /\ allowance[a] \in Nat /\ allowance'[a] \in Nat /\ allowance'[a] <= allowance[a]
        /\ a = by => allowance'[a] = allowance[a] - amount
    BY <1>1, <2>1 DEF TypeOK
  <2>3. PICK r \in Submission : IsCause(a, r)
    BY <2>2 DEF AllowanceIsBounded
  <2>4. CASE r # s
    BY <1>1, <1>2, <2>2, <2>3, <2>4, CauseKept
  <2>5. CASE r = s
    <3>1. a # by
      BY <1>1, <2>2, <2>3, <2>5 DEF IsCause, amount
    <3>. QED  BY <1>1, <1>3, <1>7, <2>2, <2>3, <2>5, <3>1, CauseKept DEF Op, by
  <2>. QED  BY <2>4, <2>5
<1>. QED  BY <1>5, <1>6, <1>7

\* Every step keeps a cause for every allowance.
LEMMA NextCauses ==
  ASSUME TypeOK, StagesMatchTx, SentIsSound, AllowanceIsBounded, Next
  PROVE  AllowanceIsBounded'
<1>1. CASE AroundForm
  BY <1>1, PageKeepsSubmissions DEF AllowanceIsBounded, IsCause
<1>2. ASSUME NEW s \in Submission, OfSubmission(s) PROVE AllowanceIsBounded'
  <2>. USE DEF TypeOK
  <2>1. StageMatchesTx(s) /\ flow[s].op \in Op
    BY PartTypes DEF StagesMatchTx
  <2>2. \A r \in Submission \ {s} : flow'[r] = flow[r] /\ tx'[r] = tx[r]
    BY <1>2, OthersAreKept
  <2>3. ASSUME NEW op \in Op, Mine(s, op) PROVE AllowanceIsBounded'
    BY <2>3, MineCauses
  <2>4. CASE \E amount \in Amount : Submit(s, amount)
    <3>1. UNCHANGED <<allowance, tx>> /\ tx[s]["approve"].status # "mined"
      BY <2>1, <2>4 DEF Submit, StageMatchesTx, chainVars, Op
    <3>. QED  BY <2>2, <3>1, CausesKept
  <2>5. CASE Simulate(s)
    <3>1. UNCHANGED allowance /\ flow'[s].amount = flow[s].amount
      BY <2>5 DEF Simulate, chainVars
    <3>2. /\ tx'[s][flow[s].op].status = "prompted" /\ tx[s][flow[s].op].status = "none"
          /\ \A op \in Op \ {flow[s].op} : tx'[s][op] = tx[s][op]
      BY <2>1, <2>5, PartTypes DEF Simulate, StageMatchesTx
    <3>. QED  BY <2>1, <2>2, <3>1, <3>2, CausesKept DEF Op
  <2>6. CASE WalletSigns(s)
    <3>1. UNCHANGED allowance /\ flow'[s].amount = flow[s].amount
      BY <2>6 DEF WalletSigns, chainVars
    <3>2. /\ tx'[s][flow[s].op].status = "pending" /\ tx[s][flow[s].op].status = "prompted"
          /\ \A op \in Op \ {flow[s].op} : tx'[s][op] = tx[s][op]
      BY <2>1, <2>6, PartTypes DEF WalletSigns, StageMatchesTx
    <3>. QED  BY <2>1, <2>2, <3>1, <3>2, CausesKept DEF Op
  <2>7. CASE WalletRefuses(s)
    <3>1. UNCHANGED allowance /\ flow'[s].amount = flow[s].amount
      BY <2>7 DEF WalletRefuses, Fail, chainVars
    <3>2. /\ tx'[s][flow[s].op].status = "none" /\ tx[s][flow[s].op].status = "prompted"
          /\ \A op \in Op \ {flow[s].op} : tx'[s][op] = tx[s][op]
      BY <2>1, <2>7, PartTypes DEF WalletRefuses, StageMatchesTx, NoTx
    <3>. QED  BY <2>1, <2>2, <3>1, <3>2, CausesKept DEF Op
  <2>8. CASE SimulateFails(s) \/ Reverted(s) \/ ReceiptLost(s)
    <3>1. UNCHANGED <<allowance, tx>> /\ flow'[s].amount = flow[s].amount
      BY <2>8, FailureKeeps
    <3>. QED  BY <2>2, <3>1, CausesKept
  <2>9. CASE Approved(s) \/ Refetched(s) \/ Donated(s)
    <3>1. UNCHANGED <<allowance, tx>> /\ flow'[s].amount = flow[s].amount
      BY <2>9 DEF Approved, Refetched, Donated, chainVars
    <3>. QED  BY <2>2, <3>1, CausesKept
  <2>. QED
    BY <1>2, <2>3, <2>4, <2>5, <2>6, <2>7, <2>8, <2>9 DEF OfSubmission, FlowStep
<1>. QED  BY <1>1, <1>2, StepsOfOne
----------------------------------------------------------------------------
LEMMA InitIInv == Init => IInv
<1>. SUFFICES ASSUME Init PROVE IInv
  OBVIOUS
<1>1. TypeOK
  <2>1. /\ EmptyForm \in [step : Step, error : BOOLEAN, of : {0} \cup Submission]
        /\ NothingRead \in [balance : Nat, allowance : Nat]
        /\ NoTx \in [by : Account \cup {Nobody},
                     status : {"none", "prompted", "pending", "mined", "reverted"}]
    BY DEF EmptyForm, NothingRead, NoTx, Step
  <2>2. NoFlow \in [at : {"unused"} \cup Running \cup Ended, op : Op,
                    amount : Amount \cup {0}, live : BOOLEAN]
    BY DEF NoFlow, Op
  <2>. QED  BY <2>1, <2>2, DonateAssumption DEF Init, TypeOK
<1>2. StagesMatchTx /\ SentIsSound
  BY DEF Init, StagesMatchTx, StageMatchesTx, SentIsSound, NoFlow, NoTx, Op
<1>3. FormShowsItsFlow /\ ThanksForOne
  BY DEF Init, FormShowsItsFlow, ThanksForOne, NoFlow, EmptyForm
<1>4. AllowanceIsBounded
  BY DEF Init, AllowanceIsBounded
<1>. QED  BY <1>1, <1>2, <1>3, <1>4 DEF IInv

LEMMA NextIInv == IInv /\ [Next]_vars => IInv'
<1>. SUFFICES ASSUME IInv, [Next]_vars PROVE IInv'
  OBVIOUS
<1>1. CASE Next
  BY <1>1, NextTypeOK, NextStages, NextSent, NextForm, NextCauses DEF IInv
<1>2. CASE UNCHANGED vars
  BY <1>2
     DEF vars, chainVars, IInv, TypeOK, StagesMatchTx, StageMatchesTx, SentIsSound,
         FormShowsItsFlow, ThanksForOne, AllowanceIsBounded, IsCause, StepOf
<1>. QED  BY <1>1, <1>2

LEMMA Invariance == Spec => []IInv
BY InitIInv, NextIInv, PTL DEF Spec

\* Form, reads, submissions, transactions and token keep their types, whatever a donor
\* does and whatever fails (DonateForm.tsx, hooks.ts).
THEOREM TypeCorrect == Spec => []TypeOK
<1>1. IInv => TypeOK
  BY DEF IInv
<1>. QED  BY <1>1, Invariance, PTL

\* Whatever number of submissions a donor starts, leaves and loses, what runs for the form
\* is the one submission it shows (DonateForm.tsx 35-68, 86).
THEOREM OneFlowPerForm == Spec => []FormShowsItsFlow
<1>1. IInv => FormShowsItsFlow
  BY DEF IInv
<1>. QED  BY <1>1, Invariance, PTL

\* The form never thanks for a donation that has not arrived (DonateForm.tsx 59).
THEOREM ThanksAreEarned == Spec => []ThanksForReceived
<1>1. IInv => ThanksForReceived
  BY DEF IInv, ThanksForOne, ThanksForReceived
<1>. QED  BY <1>1, Invariance, PTL

\* A refusal, a revert or a form that went leaves no donation that may still be mined
\* (hooks.ts 95-152, DonateForm.tsx 35-68).
THEOREM RefusalsAreFree == Spec => []RefusedIsUnpaid
<1>1. IInv => RefusedIsUnpaid
  BY DEF IInv, StagesMatchTx, StageMatchesTx, RefusedIsUnpaid
<1>. QED  BY <1>1, Invariance, PTL

\* For every number of accounts and submissions, what the instance may take from an
\* account was approved for a donation that did not go through (DonateForm.tsx 50-52).
THEOREM AllowancesHaveCauses == Spec => []AllowanceHasACause
<1>1. IInv => AllowanceHasACause
  BY DEF IInv, AllowanceIsBounded, IsCause, AllowanceHasACause
<1>. QED  BY <1>1, Invariance, PTL
=============================================================================
