------------------------------ MODULE PageCalls ------------------------------
(***************************************************************************)
(* How the pages of front-end/src/app for the board, the verifiers and the *)
(* admin send transactions.  A hook is one use of useWriteContract with    *)
(* the useWaitForTransactionReceipt on its hash; a component that mounts   *)
(* again has a new one.  A call is one press of a button: the contract     *)
(* call is simulated, put to the wallet, sent, and its receipt awaited.    *)
(*                                                                         *)
(* A call runs to its end even when its component is gone, or when the     *)
(* hook has turned to a later call; only then nobody awaits the receipt.   *)
(*                                                                         *)
(* The mutations of app/board/hooks.ts simulate inside the mutation, so    *)
(* that isPending holds from the press on.  The handlers of app/verifier   *)
(* and app/admin simulate before they call the hook, and their buttons     *)
(* stay enabled meanwhile.                                                 *)
(*                                                                         *)
(* External: the wallet, the node and the network.  Left out: arguments    *)
(* other than what a call is about, and error texts.                       *)
(***************************************************************************)
EXTENDS Naturals, FiniteSets

CONSTANTS
  Account,    \* accounts the wallet can show
  Nobody,     \* no wallet connected
  Hook,       \* the hooks of the page
  Inside,     \* those whose mutation simulates
  Target,     \* what calls are about
  Nothing,    \* no call yet
  MaxCalls    \* bound: presses

VARIABLES
  account,    \* useAccount().address
  call,       \* every press
  tx,         \* the network: the transaction of every press
  watched     \* the call a hook's state is about, 0 for none

callVars == <<account, call, tx, watched>>

Call    == 1..MaxCalls
Running == {"simulating", "prompting", "confirming"}
Ended   == {"confirmed", "refused", "lost", "over"}
NoCall(h) == [at |-> "unused", hook |-> h, target |-> Nothing, live |-> FALSE]
NoTx    == [status |-> "none", by |-> Nobody]

\* The call goes on, or ends.
At(k, stage) == [k EXCEPT !.at = stage, !.live = @ /\ stage \notin Ended]

CallTypeOK ==
  /\ account \in Account \cup {Nobody}
  /\ call \in [Call -> [at : {"unused", "uploading"} \cup Running \cup Ended,
                        hook : Hook, target : Target \cup {Nothing}, live : BOOLEAN]]
  /\ tx \in [Call -> [status : {"none", "pending", "mined", "reverted"},
                      by : Account \cup {Nobody}]]
  /\ watched \in [Hook -> Call \cup {0}]

CallInit ==
  /\ account \in Account
  /\ call = [c \in Call |-> NoCall(CHOOSE h \in Hook : TRUE)]
  /\ tx = [c \in Call |-> NoTx]
  /\ watched = [h \in Hook |-> 0]
----------------------------------------------------------------------------
(* What a hook tells its component. *)

Stage(h) == IF watched[h] = 0 THEN "unused" ELSE call[watched[h]].at

IsPending(h) ==
  Stage(h) \in (IF h \in Inside THEN {"simulating", "prompting"} ELSE {"prompting"})

IsConfirming(h) == Stage(h) = "confirming"

IsSuccess(h) == Stage(h) = "confirmed"

Busy(h) == IsPending(h) \/ IsConfirming(h)
----------------------------------------------------------------------------
(* Components come and go.  Both give call and watched after the hooks in hs went. *)

CallWithout(calls, hs) ==
  [c \in Call |->
     IF calls[c].hook \notin hs \/ ~calls[c].live THEN calls[c]
     ELSE IF calls[c].at = "confirming" THEN At(calls[c], "over")
     ELSE [calls[c] EXCEPT !.live = FALSE]]

WatchedWithout(hs) == [h \in Hook |-> IF h \in hs THEN 0 ELSE watched[h]]

Unmount(hs) ==
  /\ call' = CallWithout(call, hs)
  /\ watched' = WatchedWithout(hs)
----------------------------------------------------------------------------
(* The steps of a call. *)

ChangeAccount(a) ==
  /\ a # account
  /\ account' = a
  /\ UNCHANGED <<call, tx, watched>>

\* A button is pressed: the mutation, or the handler, starts.
Press(c, h, target, at) ==
  /\ call[c].at = "unused" /\ \A b \in 1..(c - 1) : call[b].at # "unused"
  /\ call' = [call EXCEPT ![c] = [at |-> at, hook |-> h, target |-> target, live |-> TRUE]]
  /\ watched' = IF h \in Inside /\ at = "simulating" THEN [watched EXCEPT ![h] = c] ELSE watched
  /\ UNCHANGED <<account, tx>>

\* simulateContract succeeds for the connected account, and writeContractAsync asks
\* the wallet.  A hook that does not simulate inside turns to this call now, from one
\* whose receipt it may be awaiting.
Simulate(c) ==
  LET h     == call[c].hook
      turns == h \notin Inside /\ call[c].live
      left  == IF turns /\ IsConfirming(h) THEN {watched[h]} ELSE {} IN
  /\ call[c].at = "simulating"
  /\ account # Nobody
  /\ call' = [b \in Call |-> IF b = c THEN At(call[b], "prompting")
                             ELSE IF b \in left THEN At(call[b], "over")
                             ELSE call[b]]
  /\ tx' = [tx EXCEPT ![c].by = account]
  /\ watched' = IF turns THEN [watched EXCEPT ![h] = c] ELSE watched
  /\ UNCHANGED account

\* The catch clauses: the call would revert, the node fails, no account is connected,
\* or the wallet refuses.
Refuse(c, stage) ==
  /\ call[c].at = stage
  /\ call' = [call EXCEPT ![c] = At(@, "refused")]
  /\ UNCHANGED <<account, tx, watched>>

\* Somebody waits for what becomes of the call.
IsWatched(c) == call[c].live /\ watched[call[c].hook] = c

WalletSigns(c) ==
  /\ call[c].at = "prompting"
  /\ call' = [call EXCEPT ![c] = At(@, IF IsWatched(c) THEN "confirming" ELSE "over")]
  /\ tx' = [tx EXCEPT ![c].status = "pending"]
  /\ UNCHANGED <<account, watched>>

\* The transaction is in a block and has worked, or has not.
Included(c, ok) ==
  /\ tx[c].status = "pending"
  /\ tx' = [tx EXCEPT ![c].status = IF ok THEN "mined" ELSE "reverted"]
  /\ UNCHANGED <<account, call, watched>>

Confirmed(c) ==
  /\ call[c].at = "confirming" /\ tx[c].status = "mined"
  /\ call' = [call EXCEPT ![c] = At(@, "confirmed")]
  /\ UNCHANGED <<account, tx, watched>>

\* The transaction has reverted, or the node fails: the component is told neither.
ReceiptFails(c) ==
  /\ call[c].at = "confirming"
  /\ call' = [call EXCEPT ![c] = At(@, "lost")]
  /\ UNCHANGED <<account, tx, watched>>
=============================================================================
