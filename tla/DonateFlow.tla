----------------------------- MODULE DonateFlow -----------------------------
(***************************************************************************)
(* front-end/src/app/masjid/[id]: the donation form of a mosque's page and *)
(* the hooks it calls.  A submission approves the amount for the mosque's  *)
(* instance if the allowance the page has cached does not cover it, and    *)
(* then donates with cashIn.  Each of the two transactions is simulated,   *)
(* put to the wallet, sent, mined or reverted, and its receipt awaited.    *)
(*                                                                         *)
(* A submission runs to its end even when the form is gone: React Query    *)
(* then drops the callbacks of mutate that have not started, while one     *)
(* that has started goes on.  flow[s].live says whether the form that      *)
(* started submission s is still on the page.                              *)
(*                                                                         *)
(* External, as the hooks use them: the wallet, which may show another     *)
(* account at any time; the node, whose calls may fail; the stablecoin,    *)
(* whose transferFrom spends an allowance; and the instance, whose cashIn  *)
(* is that transferFrom.                                                   *)
(*                                                                         *)
(* Left out: the note, decimals, layout, and the histories the page shows. *)
(***************************************************************************)
EXTENDS Integers, FiniteSets

CONSTANTS
  Account,          \* accounts the donor's wallet can show
  Nobody,           \* no wallet connected
  Amount,           \* what parseDonateAmount can make of the input
  Funds,            \* tokens an account starts with
  MaxSubmissions    \* bound: clicks on the button

ASSUME DonateAssumption ==
  /\ Nobody \notin Account
  /\ Amount \subseteq Int
  /\ Funds \in Nat
  /\ MaxSubmissions \in Nat

VARIABLES
  account,     \* useAccount().address
  page,        \* "away", "noForm" (loading, not found, not verified) or "form"
  form,        \* state of the mounted DonateForm
  cached,      \* balance and allowance as last read, per account
  flow,        \* every submission's mutation
  tx,          \* every submission's approve and cashIn
  balance,     \* the stablecoin: tokens
  allowance,   \* the stablecoin: what the instance may still take
  treasury     \* tokens of the instance

chainVars == <<balance, allowance, treasury>>
vars == <<account, page, form, cached, flow, tx, chainVars>>

Submission == 1..MaxSubmissions
Op         == {"approve", "cashIn"}
Step       == {"idle", "approving", "donating", "done"}
Running    == {"simulating", "prompting", "confirming", "refetching"}
Ended      == {"paid", "refused", "lost", "dropped"}

EmptyForm == [step |-> "idle", error |-> FALSE, of |-> 0]
NoFlow    == [at |-> "unused", op |-> "approve", amount |-> 0, live |-> FALSE]
NoTx      == [by |-> Nobody, status |-> "none"]

\* Mutant: a read that has not arrived is used as it is.
NothingReadUndefined == [balance |-> Nobody, allowance |-> Nobody]

\* useTokenInfo takes a read that has not arrived for zero.
NothingRead == [balance |-> 0, allowance |-> 0]

TypeOK ==
  /\ account \in Account \cup {Nobody}
  /\ page \in {"away", "noForm", "form"}
  /\ form \in [step : Step, error : BOOLEAN, of : {0} \cup Submission]
  /\ cached \in [Account -> [balance : Nat, allowance : Nat]]
  /\ flow \in [Submission -> [at : {"unused"} \cup Running \cup Ended,
                              op : Op, amount : Amount \cup {0}, live : BOOLEAN]]
  /\ tx \in [Submission -> [Op -> [by : Account \cup {Nobody},
                 status : {"none", "prompted", "pending", "mined", "reverted"}]]]
  /\ balance \in [Account -> Nat]
  /\ allowance \in [Account -> Nat]
  /\ treasury \in Nat

Init ==
  /\ account = Nobody
  /\ page = "away"
  /\ form = EmptyForm
  /\ cached = [a \in Account |-> NothingRead]
  /\ flow = [s \in Submission |-> NoFlow]
  /\ tx = [s \in Submission |-> [op \in Op |-> NoTx]]
  /\ balance = [a \in Account |-> Funds]
  /\ allowance = [a \in Account |-> 0]
  /\ treasury = 0
----------------------------------------------------------------------------
(* The page around the form. *)

\* The form goes with everything it shows; what it has started goes on.
Unmount ==
  /\ form' = EmptyForm
  /\ flow' = [s \in Submission |-> [flow[s] EXCEPT !.live = FALSE]]

\* The page opens with what React Query still holds of the mosque's row: nothing,
\* a verified mosque, or one that is not.
OpenPage ==
  /\ page = "away"
  /\ page' \in {"noForm", "form"}
  /\ UNCHANGED <<account, form, cached, flow, tx, chainVars>>

\* The row arrives, or is read again.  Only a verified mosque with an instance
\* gets the form.
ReadRow(verified) ==
  /\ page # "away"
  /\ page' = IF verified THEN "form" ELSE "noForm"
  /\ IF page = "form" /\ ~verified THEN Unmount ELSE UNCHANGED <<form, flow>>
  /\ UNCHANGED <<account, cached, tx, chainVars>>

LeavePage ==
  /\ page # "away"
  /\ page' = "away"
  /\ Unmount
  /\ UNCHANGED <<account, cached, tx, chainVars>>

ChangeAccount(a) ==
  /\ a # account
  /\ account' = a
  /\ UNCHANGED <<page, form, cached, flow, tx, chainVars>>

\* useReadContract reads on mount, on a change of account and when the window is
\* visible again, not when a transaction is mined.  Both reads are keyed by account.
ReadToken ==
  /\ page = "form" /\ account # Nobody
  /\ cached' = [cached EXCEPT ![account] =
                  [balance |-> balance[account], allowance |-> allowance[account]]]
  /\ UNCHANGED <<account, page, form, flow, tx, chainVars>>
----------------------------------------------------------------------------
(* The form. *)

Busy == form.step # "idle"

\* Mutant: the button stays enabled while a submission runs.
MayEnterWhileBusy(amount) ==
  /\ page = "form" /\ account # Nobody
  /\ amount # 0
  /\ amount <= cached[account].balance

\* The button is there for a connected account, and enabled for an amount that is
\* not zero and not above the cached balance.
MayEnter(amount) ==
  /\ page = "form" /\ account # Nobody
  /\ ~Busy
  /\ amount # 0
  /\ amount <= cached[account].balance

\* handleSubmit decides on the cached allowance whether to approve first.
FirstOp(amount) == IF cached[account].allowance >= amount THEN "cashIn" ELSE "approve"

StepOf(op) == IF op = "approve" THEN "approving" ELSE "donating"

Submit(s, amount) ==
  /\ flow[s].at = "unused" /\ \A r \in 1..(s - 1) : flow[r].at # "unused"
  /\ MayEnter(amount)
  /\ form' = [step |-> StepOf(FirstOp(amount)), error |-> FALSE, of |-> s]
  /\ flow' = [flow EXCEPT ![s] = [at |-> "simulating", op |-> FirstOp(amount),
                                  amount |-> amount, live |-> TRUE]]
  /\ UNCHANGED <<account, page, cached, tx, chainVars>>

\* "Infaq lagi"
Reset ==
  /\ page = "form" /\ form.step = "done"
  /\ form' = EmptyForm
  /\ UNCHANGED <<account, page, cached, flow, tx, chainVars>>
----------------------------------------------------------------------------
(* The mutations useApproveToken and useCashIn. *)

FormAfter(s, step, error) ==
  IF flow[s].live THEN [form EXCEPT !.step = step, !.error = error] ELSE form

\* Mutant: the inner mutate has no onError.
FailOfApproval(s, outcome) ==
  /\ flow' = [flow EXCEPT ![s].at = outcome]
  /\ form' = IF flow[s].op = "approve" THEN FormAfter(s, "idle", TRUE) ELSE form
  /\ UNCHANGED <<account, page, cached, chainVars>>

\* The onError callbacks: the mutation ends and the form is idle with a message.
Fail(s, outcome) ==
  /\ flow' = [flow EXCEPT ![s].at = outcome]
  /\ form' = FormAfter(s, "idle", TRUE)
  /\ UNCHANGED <<account, page, cached, chainVars>>

\* What the token and the instance let this call do now.
Allowed(op, a, amount) ==
  \/ op = "approve"
  \/ op = "cashIn" /\ amount > 0 /\ amount <= allowance[a] /\ amount <= balance[a]

\* simulateContract succeeds for the account that is connected at this moment, and
\* the request goes to the wallet for that account.  A negative amount cannot be
\* encoded.
Simulate(s) ==
  /\ flow[s].at = "simulating"
  /\ account # Nobody
  /\ flow[s].amount > 0
  /\ Allowed(flow[s].op, account, flow[s].amount)
  /\ flow' = [flow EXCEPT ![s].at = "prompting"]
  /\ tx' = [tx EXCEPT ![s][flow[s].op] = [by |-> account, status |-> "prompted"]]
  /\ UNCHANGED <<account, page, form, cached, chainVars>>

\* Mutant: the form gives up when a transaction takes long, before the wallet is answered.
SimulateGivesUp(s) ==
  /\ flow[s].at \in {"simulating", "confirming"}
  /\ Fail(s, "refused")
  /\ UNCHANGED tx

\* The call would revert, no account is connected, or the node fails.
SimulateFails(s) ==
  /\ flow[s].at = "simulating"
  /\ Fail(s, "refused")
  /\ UNCHANGED tx

WalletSigns(s) ==
  /\ flow[s].at = "prompting"
  /\ flow' = [flow EXCEPT ![s].at = "confirming"]
  /\ tx' = [tx EXCEPT ![s][flow[s].op].status = "pending"]
  /\ UNCHANGED <<account, page, form, cached, chainVars>>

\* Rejected by the user, or the account is no longer the wallet's.
WalletRefuses(s) ==
  /\ flow[s].at = "prompting"
  /\ Fail(s, "refused")
  /\ tx' = [tx EXCEPT ![s][flow[s].op] = NoTx]

\* Mutant: the form approves all the account has, to save later approvals.
ApprovedFunds(s) == Funds

\* The form approves what it is about to donate.
ApprovedAmount(s) == flow[s].amount

\* A transaction is included in a block, whatever became of the form.
Mine(s, op) ==
  LET amount == flow[s].amount
      by     == tx[s][op].by
      ok     == Allowed(op, by, amount) IN
  /\ tx[s][op].status = "pending"
  /\ tx' = [tx EXCEPT ![s][op].status = IF ok THEN "mined" ELSE "reverted"]
  /\ IF ~ok THEN UNCHANGED chainVars
     ELSE IF op = "approve"
     THEN /\ allowance' = [allowance EXCEPT ![by] = ApprovedAmount(s)]
          /\ UNCHANGED <<balance, treasury>>
     ELSE /\ allowance' = [allowance EXCEPT ![by] = @ - amount]
          /\ balance' = [balance EXCEPT ![by] = @ - amount]
          /\ treasury' = treasury + amount
  /\ UNCHANGED <<account, page, form, cached, flow>>

\* waitForTransactionReceipt of the approval: onSuccess starts the second half, if
\* there is still a form to call it for.
Approved(s) ==
  /\ flow[s].at = "confirming" /\ flow[s].op = "approve"
  /\ tx[s]["approve"].status = "mined"
  /\ flow' = [flow EXCEPT ![s].at = IF flow[s].live THEN "refetching" ELSE "dropped"]
  /\ UNCHANGED <<account, page, form, cached, tx, chainVars>>

\* refetchAllowance never throws.  Whatever it brings, cashIn follows, and also when
\* the form has gone in the meantime.
Refetched(s) ==
  /\ flow[s].at = "refetching"
  /\ \/ UNCHANGED cached
     \/ /\ account # Nobody
        /\ cached' = [cached EXCEPT ![account].allowance = allowance[account]]
  /\ flow' = [flow EXCEPT ![s].at = "simulating", ![s].op = "cashIn"]
  /\ form' = FormAfter(s, "donating", form.error)
  /\ UNCHANGED <<account, page, tx, chainVars>>

\* Mutant: the donation counts as made when it is sent, without its receipt.
DonatedWhenSent(s) ==
  /\ flow[s].at = "confirming" /\ flow[s].op = "cashIn"
  /\ flow' = [flow EXCEPT ![s].at = "paid"]
  /\ form' = FormAfter(s, "done", form.error)
  /\ UNCHANGED <<account, page, cached, tx, chainVars>>

Donated(s) ==
  /\ flow[s].at = "confirming" /\ flow[s].op = "cashIn"
  /\ tx[s]["cashIn"].status = "mined"
  /\ flow' = [flow EXCEPT ![s].at = "paid"]
  /\ form' = FormAfter(s, "done", form.error)
  /\ UNCHANGED <<account, page, cached, tx, chainVars>>

Reverted(s) ==
  /\ flow[s].at = "confirming"
  /\ tx[s][flow[s].op].status = "reverted"
  /\ Fail(s, "refused")
  /\ UNCHANGED tx

\* The node fails while the receipt is awaited: the transaction may be mined, now or
\* later.
ReceiptLost(s) ==
  /\ flow[s].at = "confirming"
  /\ Fail(s, "lost")
  /\ UNCHANGED tx

\* What the code and the network do without the donor.
FlowStep(s) ==
  \/ Simulate(s) \/ SimulateFails(s)
  \/ \E op \in Op : Mine(s, op)
  \/ Approved(s) \/ Refetched(s) \/ Donated(s) \/ Reverted(s) \/ ReceiptLost(s)

Next ==
  \/ OpenPage \/ LeavePage \/ ReadToken \/ Reset
  \/ \E verified \in BOOLEAN : ReadRow(verified)
  \/ \E a \in Account \cup {Nobody} : ChangeAccount(a)
  \/ \E s \in Submission :
       \/ \E amount \in Amount : Submit(s, amount)
       \/ FlowStep(s)
       \/ WalletSigns(s) \/ WalletRefuses(s)

\* The node answers or fails and the network mines what was sent; nobody has to
\* answer a wallet's prompt.
Spec == Init /\ [][Next]_vars /\ \A s \in Submission : WF_vars(FlowStep(s))
----------------------------------------------------------------------------
(* Properties *)

\* The form of DonateForm.tsx works on one submission at a time: what runs for it is
\* the submission it shows, at the step it shows.
FormShowsItsFlow ==
  \A s \in Submission : flow[s].live /\ flow[s].at \in Running =>
    /\ s = form.of
    /\ form.step = IF flow[s].at = "refetching" THEN "approving" ELSE StepOf(flow[s].op)

\* "Infaq berhasil" is only shown for a donation that has reached the instance.
ThanksForReceived == form.step = "done" => tx[form.of]["cashIn"].status = "mined"

\* After every message that is not about a missing receipt, and after an approval
\* that nothing followed, no donation of that submission is made or under way: the
\* donor can submit again without paying twice.
RefusedIsUnpaid ==
  \A s \in Submission : flow[s].at \in {"refused", "dropped"} =>
    tx[s]["cashIn"].status \notin {"pending", "mined"}

\* The form approves exactly what it then spends, so the instance can only take more
\* from an account whose approved donation did not go through.
AllowanceHasACause ==
  \A a \in Account : allowance[a] > 0 =>
    \E s \in Submission :
      /\ tx[s]["approve"].status = "mined" /\ tx[s]["approve"].by = a
      /\ ~(tx[s]["cashIn"].status = "mined" /\ tx[s]["cashIn"].by = a)

\* A busy form gets idle or done, or goes, unless a prompt of the wallet is left
\* unanswered.
BusyFormSettles ==
  \A s \in Submission :
    []<>(form.of # s \/ form.step \in {"idle", "done"} \/ flow[s].at = "prompting")

\* docs/docs/core-flow/user-flows.md:129, "Approve the token (if not already approved)":
\* a submission that donates at once has the allowance it needs.  Violated: the
\* cached allowance is not read again after a donation has used it up.
ApprovesWhenNeeded ==
  [][\A s \in Submission :
       flow[s].at = "unused" /\ flow'[s].op = "cashIn" =>
         flow'[s].amount <= allowance[account]]_vars
=============================================================================
