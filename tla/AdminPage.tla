------------------------------ MODULE AdminPage ------------------------------
(***************************************************************************)
(* front-end/src/app/admin/ui.tsx: the page that adds verifiers to the     *)
(* registry, removes them, and names them in the service's table.          *)
(*                                                                         *)
(* refresh loads the lists anew, and while a load has not answered the     *)
(* page shows nothing else: all forms and buttons are unmounted, whatever  *)
(* they are in the middle of.  A load that fails ends the page for good,   *)
(* since nothing clears the error.                                         *)
(*                                                                         *)
(* External: the service's answers, which lag behind the chain, and the    *)
(* registry (module VerifierRegistry).  Left out: the list of mosques,     *)
(* labels, and inactive verifiers.                                         *)
(***************************************************************************)
EXTENDS Naturals, FiniteSets

CONSTANTS
  Account, Nobody, Nothing, MaxCalls,
  Person,        \* addresses the admin may name
  MaxLabels      \* bound: labels saved

VARIABLES
  account, call, tx, watched,
  loads,         \* requests for the lists that have not been answered
  loading, failed,
  verifiers,     \* those the page shows as active
  saving,        \* the verifier whose label is being saved (one at a time), or Nothing
  labels,        \* number of labels saved
  registered     \* the registry

AddHook == <<"add", Nothing>>
RemoveHook == {"remove"} \X Person
AdminHook == RemoveHook \cup {AddHook}

INSTANCE PageCalls WITH Hook <- AdminHook, Inside <- {}, Target <- Person

vars == <<account, call, tx, watched, loads, loading, failed, verifiers, saving, labels,
          registered>>

TypeOK ==
  /\ CallTypeOK
  /\ loads \in 0..(1 + 2 * MaxCalls + MaxLabels)
  /\ loading \in BOOLEAN /\ failed \in BOOLEAN
  /\ verifiers \subseteq Person
  /\ saving \in Person \cup {Nothing}
  /\ labels \in 0..MaxLabels
  /\ registered \subseteq Person

Init ==
  /\ CallInit
  /\ loads = 1 /\ loading = TRUE /\ failed = FALSE
  /\ verifiers = {}
  /\ saving = Nothing /\ labels = 0
  /\ registered = {}
----------------------------------------------------------------------------
(* The lists *)

Mounted == ~loading /\ ~failed

\* refresh, n times: the loading page takes all others away.
Refresh(n) ==
  /\ loads' = loads + n
  /\ loading' = TRUE

Answer(vs) ==
  /\ loads > 0 /\ loads' = loads - 1
  /\ loading' = FALSE
  /\ verifiers' = vs
  /\ Unmount({"remove"} \X (verifiers \ vs))
  /\ UNCHANGED <<account, tx, failed, saving, labels, registered>>

\* Mutant: without finally, only an answer ends the loading.
AnswerFailsLoading ==
  /\ loads > 0 /\ loads' = loads - 1
  /\ failed' = TRUE
  /\ Unmount(AdminHook)
  /\ UNCHANGED <<account, tx, loading, verifiers, saving, labels, registered>>

AnswerFails ==
  /\ loads > 0 /\ loads' = loads - 1
  /\ loading' = FALSE
  /\ failed' = TRUE
  /\ Unmount(AdminHook)
  /\ UNCHANGED <<account, tx, verifiers, saving, labels, registered>>
----------------------------------------------------------------------------
(* VerifierLabelCell *)

SaveLabel(v) ==
  /\ Mounted /\ v \in verifiers /\ saving = Nothing
  /\ labels < MaxLabels /\ labels' = labels + 1
  /\ saving' = v
  /\ UNCHANGED <<account, call, tx, watched, loads, loading, failed, verifiers, registered>>

\* handleSave calls onUpdated also when its cell has gone.
LabelSaved ==
  /\ saving # Nothing /\ saving' = Nothing
  /\ Refresh(1)
  /\ Unmount(AdminHook)
  /\ UNCHANGED <<account, tx, failed, verifiers, labels, registered>>

LabelRefused ==
  /\ saving # Nothing /\ saving' = Nothing
  /\ UNCHANGED <<account, call, tx, watched, loads, loading, failed, verifiers, labels,
                 registered>>
----------------------------------------------------------------------------
(* AddVerifierForm and RemoveVerifierButton *)

PressAdd(c, v) ==
  /\ Mounted
  /\ ~Busy(AddHook)
  /\ Press(c, AddHook, v, "simulating")
  /\ UNCHANGED <<loads, loading, failed, verifiers, saving, labels, registered>>

PressRemove(c, v) ==
  /\ Mounted /\ v \in verifiers
  /\ ~Busy(<<"remove", v>>)
  /\ Press(c, <<"remove", v>>, v, "simulating")
  /\ UNCHANGED <<loads, loading, failed, verifiers, saving, labels, registered>>

\* VerifierRegistry.addVerifier, removeVerifier
Accepts(c) == (call[c].hook = AddHook) = (call[c].target \notin registered)

PageSimulate(c) ==
  /\ call[c].at = "simulating" /\ Accepts(c)
  /\ Simulate(c)
  /\ UNCHANGED <<loads, loading, failed, verifiers, saving, labels, registered>>

PageRefuse(c, stage) ==
  /\ Refuse(c, stage)
  /\ UNCHANGED <<loads, loading, failed, verifiers, saving, labels, registered>>

Sign(c) ==
  /\ WalletSigns(c)
  /\ UNCHANGED <<loads, loading, failed, verifiers, saving, labels, registered>>

\* Beyond Accepts the registry requires the authority.
Mine(c) ==
  /\ \/ Included(c, FALSE) /\ UNCHANGED registered
     \/ /\ tx[c].status = "pending" /\ Accepts(c)
        /\ Included(c, TRUE)
        /\ registered' = IF call[c].hook = AddHook THEN registered \cup {call[c].target}
                         ELSE registered \ {call[c].target}
  /\ UNCHANGED <<loads, loading, failed, verifiers, saving, labels>>

\* The effect of a success runs twice: the first refresh makes a new onSuccess, one of
\* its dependencies, before the page turns to loading.  Then the form has gone, and
\* its message with it.
Receipt(c) ==
  /\ \/ /\ call[c].at = "confirming" /\ tx[c].status = "mined"
        /\ Refresh(2)
        /\ call' = CallWithout([call EXCEPT ![c] = At(@, "confirmed")], AdminHook)
        /\ watched' = WatchedWithout(AdminHook)
        /\ UNCHANGED <<account, tx>>
     \/ ReceiptFails(c) /\ UNCHANGED <<loads, loading>>
  /\ UNCHANGED <<failed, verifiers, saving, labels, registered>>

Wallet(a) ==
  /\ ChangeAccount(a)
  /\ UNCHANGED <<loads, loading, failed, verifiers, saving, labels, registered>>

CallStep(c) == PageSimulate(c) \/ PageRefuse(c, "simulating") \/ Mine(c) \/ Receipt(c)

Load == AnswerFails \/ \E vs \in SUBSET Person : Answer(vs)

Next ==
  \/ Load \/ LabelSaved \/ LabelRefused
  \/ \E v \in Person : SaveLabel(v)
  \/ \E a \in Account \cup {Nobody} : Wallet(a)
  \/ \E c \in Call :
       \/ \E v \in Person : PressAdd(c, v) \/ PressRemove(c, v)
       \/ CallStep(c) \/ Sign(c) \/ PageRefuse(c, "prompting")

Spec ==
  /\ Init /\ [][Next]_vars
  /\ WF_vars(Load)
  /\ \A c \in Call : WF_vars(CallStep(c))
=============================================================================
