---------------------------- MODULE RegisterPage ----------------------------
(***************************************************************************)
(* front-end/src/app/board/register/ui.tsx with lib/pinata.ts and          *)
(* useRegisterMasjid: the form that uploads a mosque's metadata to IPFS    *)
(* and then registers it with the protocol.                                *)
(*                                                                         *)
(* The upload and the registration go on when the page is left.            *)
(*                                                                         *)
(* External: Pinata, and the protocol as far as the form can tell (module  *)
(* MasjidProtocol has it): a name that is taken is refused, others take    *)
(* names too, and a mosque that is rejected frees its name again.  Left    *)
(* out: what is typed in apart from the name, its validation, and the      *)
(* metadata.                                                               *)
(***************************************************************************)
EXTENDS Naturals, FiniteSets

CONSTANTS
  Account, Nobody, Nothing, MaxCalls,
  Name           \* names for a mosque

VARIABLES
  account, call, tx, watched,
  open,          \* the form is on the page
  taken          \* the protocol: names that are registered

RegisterHook == <<"register", 0>>

INSTANCE PageCalls WITH Hook <- {RegisterHook}, Inside <- {RegisterHook}, Target <- Name

vars == <<account, call, tx, watched, open, taken>>

TypeOK ==
  /\ CallTypeOK
  /\ open \in BOOLEAN
  /\ taken \subseteq Name

Init ==
  /\ CallInit
  /\ open = TRUE
  /\ taken = {}
----------------------------------------------------------------------------
\* Mutant: the button is not disabled while the upload is awaited.
HookIsBusy == Busy(RegisterHook)

Uploading == \E c \in Call : call[c].live /\ call[c].at = "uploading"

IsBusy == Uploading \/ Busy(RegisterHook)

\* The button is there for a connected account, and disabled while the form is busy
\* and once the registration is confirmed.
MaySubmit == open /\ account # Nobody /\ ~IsBusy /\ ~IsSuccess(RegisterHook)

\* onSubmit: photo and metadata are uploaded first.
Submit(c, name) ==
  /\ MaySubmit
  /\ Press(c, RegisterHook, name, "uploading")
  /\ UNCHANGED <<open, taken>>

\* The metadata is on IPFS: registerMasjid.mutate, wherever the user is by now.
Uploaded(c) ==
  /\ call[c].at = "uploading"
  /\ call' = [call EXCEPT ![c] = At(@, "simulating")]
  /\ watched' = IF call[c].live THEN [watched EXCEPT ![RegisterHook] = c] ELSE watched
  /\ UNCHANGED <<account, tx, open, taken>>

UploadFails(c) == Refuse(c, "uploading") /\ UNCHANGED <<open, taken>>

Leave ==
  /\ open
  /\ open' = FALSE
  /\ Unmount({RegisterHook})
  /\ UNCHANGED <<account, tx, taken>>

Return ==
  /\ ~open
  /\ open' = TRUE
  /\ UNCHANGED <<account, call, tx, watched, taken>>
----------------------------------------------------------------------------
\* MasjidProtocol.register
Accepts(c) == call[c].target \notin taken

PageSimulate(c) ==
  /\ call[c].at = "simulating" /\ Accepts(c)
  /\ Simulate(c)
  /\ UNCHANGED <<open, taken>>

PageRefuse(c, stage) == Refuse(c, stage) /\ UNCHANGED <<open, taken>>

Sign(c) == WalletSigns(c) /\ UNCHANGED <<open, taken>>

Mine(c) ==
  /\ tx[c].status = "pending"
  /\ Included(c, Accepts(c))
  /\ taken' = IF Accepts(c) THEN taken \cup {call[c].target} ELSE taken
  /\ UNCHANGED open

\* Others: a name is registered, or freed as the verifiers reject its mosque.
Outside(name) ==
  /\ taken' \in {taken \cup {name}, taken \ {name}} \ {taken}
  /\ UNCHANGED <<account, call, tx, watched, open>>

Receipt(c) == (Confirmed(c) \/ ReceiptFails(c)) /\ UNCHANGED <<open, taken>>

Wallet(a) == ChangeAccount(a) /\ UNCHANGED <<open, taken>>

CallStep(c) ==
  \/ Uploaded(c) \/ UploadFails(c)
  \/ PageSimulate(c) \/ PageRefuse(c, "simulating")
  \/ Mine(c) \/ Receipt(c)

Next ==
  \/ Leave \/ Return
  \/ \E a \in Account \cup {Nobody} : Wallet(a)
  \/ \E name \in Name : Outside(name)
  \/ \E c \in Call :
       \/ \E name \in Name : Submit(c, name)
       \/ CallStep(c) \/ Sign(c) \/ PageRefuse(c, "prompting")

Spec == Init /\ [][Next]_vars /\ \A c \in Call : WF_vars(CallStep(c))
=============================================================================
