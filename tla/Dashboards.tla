----------------------------- MODULE Dashboards ------------------------------
(***************************************************************************)
(* The pages for the board, the verifiers and the admin, one of them open  *)
(* in the tab.  Each module describes its page, with the same hooks and    *)
(* the same wallet under them; here is what holds on all of them.          *)
(***************************************************************************)
EXTENDS Naturals, FiniteSets

CONSTANTS
  Account, Nobody, Nothing, MaxCalls,
  Masjid, Begun, Lists, MaxRequests, MaxThreshold, MaxEvents, Name, Person, MaxLabels

ASSUME DashboardsAssumption ==
  /\ Nobody \notin Account
  /\ Nothing \notin Masjid \cup Person
  /\ Begun \in [Masjid -> 0..MaxRequests]
  /\ Lists \subseteq SUBSET Masjid
  /\ {MaxCalls, MaxRequests, MaxEvents, MaxLabels} \subseteq Nat
  /\ MaxThreshold \in Nat \ {0}

VARIABLES
  site,                                                             \* the page that is open
  account, call, tx, watched,
  page, list, masjids, deployed, selected, proposing, chain, troubles, seen, rows, \* board
  open, taken,                                                                 \* register
  loads, loading,                                                              \* lists
  tab, listed, voted,                                                          \* verifier
  failed, verifiers, saving, labels, registered                                \* admin

Board    == INSTANCE BoardPage
Register == INSTANCE RegisterPage
Verifier == INSTANCE VerifierPage
Admin    == INSTANCE AdminPage

boardVars    == <<page, list, masjids, deployed, selected, proposing, chain, troubles, seen, rows>>
registerVars == <<open, taken>>
listVars     == <<loads, loading>>
verifierVars == <<tab, listed, voted>>
adminVars    == <<failed, verifiers, saving, labels, registered>>
vars == <<site, account, call, tx, watched, boardVars, registerVars, listVars, verifierVars,
          adminVars>>

NoBoard    == /\ page = Nothing /\ list = Nothing /\ masjids = Nothing /\ deployed = Nothing
              /\ selected = Nothing /\ proposing = Nothing /\ chain = Nothing /\ troubles = Nothing
              /\ seen = Nothing /\ rows = Nothing
NoRegister == open = Nothing /\ taken = Nothing
NoLists    == loads = Nothing /\ loading = Nothing
NoVerifier == tab = Nothing /\ listed = Nothing /\ voted = Nothing
NoAdmin    == /\ failed = Nothing /\ verifiers = Nothing /\ saving = Nothing
              /\ labels = Nothing /\ registered = Nothing

Init ==
  \/ site = "board"    /\ Board!Init    /\ NoRegister /\ NoLists /\ NoVerifier /\ NoAdmin
  \/ site = "register" /\ Register!Init /\ NoBoard /\ NoLists /\ NoVerifier /\ NoAdmin
  \/ site = "verifier" /\ Verifier!Init /\ NoBoard /\ NoRegister /\ NoAdmin
  \/ site = "admin"    /\ Admin!Init    /\ NoBoard /\ NoRegister /\ NoVerifier

\* Only the page that is open takes steps.
OnBoard    == site = "board"    /\ UNCHANGED <<site, registerVars, listVars, verifierVars, adminVars>>
OnRegister == site = "register" /\ UNCHANGED <<site, boardVars, listVars, verifierVars, adminVars>>
OnVerifier == site = "verifier" /\ UNCHANGED <<site, boardVars, registerVars, adminVars>>
OnAdmin    == site = "admin"    /\ UNCHANGED <<site, boardVars, registerVars, verifierVars>>

Next ==
  \/ OnBoard    /\ Board!Next
  \/ OnRegister /\ Register!Next
  \/ OnVerifier /\ Verifier!Next
  \/ OnAdmin    /\ Admin!Next

\* The steps of code, node and network for one call, and the service's answers.
CallStep(c) ==
  \/ OnBoard    /\ Board!CallStep(c)
  \/ OnRegister /\ Register!CallStep(c)
  \/ OnVerifier /\ Verifier!CallStep(c)
  \/ OnAdmin    /\ Admin!CallStep(c)

Load == (OnVerifier /\ Verifier!Load) \/ (OnAdmin /\ Admin!Load)

\* The node answers or fails, the network mines what was sent, the service answers or
\* fails; nobody has to answer the wallet or to press a button.
Spec == Init /\ [][Next]_vars /\ WF_vars(Load) /\ \A c \in 1..MaxCalls : WF_vars(CallStep(c))
----------------------------------------------------------------------------
(* Properties *)

TypeOK ==
  CASE site = "board"    -> Board!TypeOK
    [] site = "register" -> Register!TypeOK
    [] site = "verifier" -> Verifier!TypeOK
    [] site = "admin"    -> Admin!TypeOK

\* board/ui.tsx and board/hooks.ts show nothing of a request that has not happened: a
\* request shown as executed or canceled is, no more approvals are shown than it has,
\* and every row belongs to a request of the mosque on show, whichever reads failed.
RowsAreHistory == site = "board" => Board!RowsAreHistory

\* A row of the board's table, its form, and the form for registering each run one call
\* at a time: as long as the component is there, its buttons show what it has started.
OneCallPerComponent ==
  site \in {"board", "register"} =>
    \A c, d \in 1..MaxCalls :
      /\ call[c].live /\ call[d].live
      /\ {call[c].at, call[d].at} \subseteq {"uploading", "simulating", "prompting", "confirming"}
      /\ call[c].hook[2] = call[d].hook[2]
      => c = d

\* The form for registering (register/ui.tsx 80-117) uploads before it calls its hook, goes
\* on when it is left, and may be opened anew meanwhile.  When it reports a registration,
\* that is the one submitted last, and it is in a block.
SuccessIsOfLastPress ==
  site = "register" /\ Register!IsSuccess(Register!RegisterHook) =>
    LET c == watched[Register!RegisterHook] IN
    /\ tx[c].status = "mined"
    /\ \A d \in 1..MaxCalls : call[d].at # "unused" => d <= c

\* Code, node or network are busy with a call the component still waits for.
Spinning(c) == call[c].live /\ call[c].at \in {"uploading", "simulating", "confirming"}

Loading == site \in {"verifier", "admin"} /\ loading

\* No button stays busy for ever, unless the wallet's prompt is left unanswered, and a
\* page that loads stops loading, whether the answers come, fail or overlap.
SpinnersEnd ==
  /\ \A c \in 1..MaxCalls : []<>~Spinning(c)
  /\ []<>~Loading
=============================================================================
