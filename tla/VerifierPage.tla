---------------------------- MODULE VerifierPage ----------------------------
(***************************************************************************)
(* front-end/src/app/verifier/ui.tsx: the queue of mosques a verifier      *)
(* votes on, the form for voting by id, and the history.                   *)
(*                                                                         *)
(* Both forms are on the tab "queue".  The queue is loaded from the service*)
(* when the tab opens and on every change of isSuccess; loads may overlap, *)
(* and whichever answers last is what the page shows.  The service's table *)
(* lags behind the chain, so an answer may be any list.                    *)
(*                                                                         *)
(* External: the service's answers, and the protocol as far as the page    *)
(* can tell (module MasjidProtocol has it): one vote per verifier on a     *)
(* mosque that is pending.  Left out: the direction of a vote, and which   *)
(* button shows the spinner.                                               *)
(***************************************************************************)
EXTENDS Naturals, FiniteSets

CONSTANTS
  Account, Nobody, Nothing, MaxCalls,
  Masjid

VARIABLES
  account, call, tx, watched,
  tab,         \* "queue", "history"
  loads,       \* requests for the list of this tab that have not been answered
  loading,     \* the tab shows that it is loading
  listed,      \* queue, or the mosques in history
  voted        \* the protocol: votes cast, as <<account, mosque>>

AttestHook == <<"attest", 0>>
ManualHook == <<"manual", 0>>

INSTANCE PageCalls WITH Hook <- {AttestHook, ManualHook}, Inside <- {}, Target <- Masjid

tabVars == <<tab, loads, loading, listed>>
vars == <<account, call, tx, watched, tab, loads, loading, listed, voted>>

TypeOK ==
  /\ CallTypeOK
  /\ tab \in {"queue", "history"}
  /\ loads \in 0..(1 + 3 * MaxCalls)
  /\ loading \in BOOLEAN
  /\ listed \subseteq Masjid
  /\ voted \subseteq Account \X Masjid

Init ==
  /\ CallInit
  /\ tab = "queue" /\ loads = 1 /\ loading = TRUE /\ listed = {}
  /\ voted = {}
----------------------------------------------------------------------------
(* Lists *)

\* loadQueue, n times.
Reload(n) ==
  /\ loads' = loads + n
  /\ loading' = (loading \/ n > 0)

\* A tab that is not shown is not mounted: it loses its hooks, and the answers still to
\* come are for nobody.
OpenTab(t) ==
  /\ t # tab
  /\ tab' = t /\ loads' = 1 /\ loading' = TRUE /\ listed' = {}
  /\ Unmount({AttestHook, ManualHook})
  /\ UNCHANGED <<account, tx, voted>>

Answer(ms) ==
  /\ loads > 0 /\ loads' = loads - 1
  /\ loading' = FALSE
  /\ listed' = ms
  /\ UNCHANGED <<account, call, tx, watched, tab, voted>>

\* An answer that is not ok leaves the list, an error empties it.
AnswerFails ==
  /\ loads > 0 /\ loads' = loads - 1
  /\ loading' = FALSE
  /\ listed' \in {listed, {}}
  /\ UNCHANGED <<account, call, tx, watched, tab, voted>>
----------------------------------------------------------------------------
(* Votes *)

\* The buttons of the queue are only disabled once the hook is busy, which it is not
\* while handleAttest simulates.
Attest(c, m) ==
  /\ tab = "queue" /\ ~loading /\ m \in listed
  /\ ~Busy(AttestHook)
  /\ Press(c, AttestHook, m, "simulating")
  /\ UNCHANGED <<tab, loads, loading, listed, voted>>

ManualAttest(c, m) ==
  /\ tab = "queue"
  /\ ~Busy(ManualHook)
  /\ Press(c, ManualHook, m, "simulating")
  /\ UNCHANGED <<tab, loads, loading, listed, voted>>

\* "Attest permintaan lain": loadQueue from the button, and again from the effect, as
\* isSuccess changes.
AttestAnother ==
  /\ tab = "queue" /\ IsSuccess(AttestHook)
  /\ watched' = [watched EXCEPT ![AttestHook] = 0]
  /\ Reload(2)
  /\ UNCHANGED <<account, call, tx, tab, listed, voted>>

\* MasjidProtocol.attest
Accepts(by, m) == by # Nobody /\ <<by, m>> \notin voted

\* The effect on isSuccess also runs when the hook turns to a new call after a success.
PageSimulate(c) ==
  /\ call[c].at = "simulating" /\ Accepts(account, call[c].target)
  /\ Simulate(c)
  /\ Reload(IF IsSuccess(AttestHook) /\ call[c].hook = AttestHook /\ call[c].live THEN 1 ELSE 0)
  /\ UNCHANGED <<tab, listed, voted>>

PageRefuse(c, stage) ==
  /\ Refuse(c, stage)
  /\ UNCHANGED <<tab, loads, loading, listed, voted>>

Sign(c) == WalletSigns(c) /\ UNCHANGED <<tab, loads, loading, listed, voted>>

\* Beyond Accepts the protocol requires a verifier and a mosque that is pending.
Mine(c) ==
  LET by == tx[c].by  m == call[c].target IN
  /\ \/ Included(c, FALSE) /\ UNCHANGED voted
     \/ /\ tx[c].status = "pending" /\ Accepts(by, m)
        /\ Included(c, TRUE)
        /\ voted' = voted \cup {<<by, m>>}
  /\ UNCHANGED <<tab, loads, loading, listed>>

Receipt(c) ==
  /\ \/ Confirmed(c) /\ Reload(IF call[c].hook = AttestHook THEN 1 ELSE 0)
     \/ ReceiptFails(c) /\ Reload(0)
  /\ UNCHANGED <<tab, listed, voted>>

Wallet(a) == ChangeAccount(a) /\ UNCHANGED <<tab, loads, loading, listed, voted>>

CallStep(c) == PageSimulate(c) \/ PageRefuse(c, "simulating") \/ Mine(c) \/ Receipt(c)

Load == AnswerFails \/ \E ms \in SUBSET Masjid : Answer(ms)

Next ==
  \/ Load \/ AttestAnother
  \/ \E t \in {"queue", "history"} : OpenTab(t)
  \/ \E a \in Account \cup {Nobody} : Wallet(a)
  \/ \E c \in Call :
       \/ \E m \in Masjid : Attest(c, m) \/ ManualAttest(c, m)
       \/ CallStep(c) \/ Sign(c) \/ PageRefuse(c, "prompting")

Spec ==
  /\ Init /\ [][Next]_vars
  /\ WF_vars(Load)
  /\ \A c \in Call : WF_vars(CallStep(c))
=============================================================================
