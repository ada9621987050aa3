------------------------------ MODULE BoardPage ------------------------------
(***************************************************************************)
(* front-end/src/app/board: the dashboard from which the head of mosques   *)
(* proposes, executes and cancels cash-outs (ui.tsx, hooks.ts).            *)
(*                                                                         *)
(* What the page shows of a mosque comes from two reads that are repeated  *)
(* every eight seconds and each time the page asks for something new: the  *)
(* instance (status, threshold, number of requests) and its requests.      *)
(* Every single result may be missing, and a missing one stays missing     *)
(* until the next read.  Rows are mounted per request id: choosing another *)
(* mosque keeps the row components of the ids both have, and a new request *)
(* takes all rows away until the requests have been read again.            *)
(*                                                                         *)
(* The service also lists mosques it knows no instance of: those that wait *)
(* for their verification, were rejected, or whose row a replayed          *)
(* registration has emptied.  Such a mosque has neither reads nor rows,    *)
(* and no form for a cash-out.                                             *)
(*                                                                         *)
(* The instances are external here, as far as the page can tell: a request *)
(* gathers approvals, expires, and is settled once (module MasjidInstance  *)
(* has the contract).  Others change them at any time.  Whether a request  *)
(* has expired the page takes from the clock of the browser, which nothing *)
(* keeps together with the time of blocks: either answer may come.         *)
(*                                                                         *)
(* Left out: balances, statistics and donations the page shows, notes,     *)
(* amounts and addresses, layout.                                          *)
(***************************************************************************)
EXTENDS Naturals, FiniteSets

CONSTANTS
  Account, Nobody, Nothing, MaxCalls,
  Lists,          \* lists of mosques the service may answer with
  Masjid,         \* mosques the service may have for the head
  Begun,          \* number of requests each has at the beginning, with one approval
  MaxRequests,    \* bound: requests of an instance
  MaxThreshold,   \* bound: the threshold of an instance
  MaxEvents       \* bound: presses, changes by others, reads that fail, accounts that change

VARIABLES
  account, call, tx, watched,
  page,           \* "list", the list of mosques, or "dashboard"
  list,           \* useBoardMasjid: "loading", "failed" or "loaded"
  masjids,        \* what it has loaded
  deployed,       \* those of them that came with the address of an instance
  selected,       \* selectedId; the address of the page may name any mosque, or none
  proposing,      \* showPropose
  chain,          \* the instances
  troubles,       \* number of changes by others, failed reads and account changes
  seen,           \* what the last read of each instance has brought
  rows            \* what the last read of its requests has brought

RequestId == 1..MaxRequests
RowHook   == {"execute", "cancel"} \X RequestId
ProposeHook == <<"propose", 0>>
BoardHook == RowHook \cup {ProposeHook}

INSTANCE PageCalls WITH Hook <- BoardHook, Inside <- BoardHook,
                        Target <- Masjid \X (RequestId \cup {0})

pageVars  == <<page, list, masjids, deployed, selected, proposing>>
shownVars == <<seen, rows>>
chainVars == <<chain, troubles>>
vars == <<account, call, tx, watched, pageVars, shownVars, chainVars>>

Request  == [approvals : 0..MaxThreshold, expired : BOOLEAN,
             settled : {"open", "executed", "canceled"}]
NewRequest == [approvals |-> 0, expired |-> FALSE, settled |-> "open"]
Row      == [approvals : 0..MaxThreshold, settled : {"open", "executed", "canceled"}]
NoRead   == [verified |-> FALSE, threshold |-> 0, count |-> 0]
NoRows   == [of |-> 0, got |-> [id \in {} |-> Nothing]]

Rows == UNION {[ids -> Row] : ids \in SUBSET RequestId}

TypeOK ==
  /\ CallTypeOK
  /\ page \in {"list", "dashboard"}
  /\ list \in {"loading", "failed", "loaded"}
  /\ masjids \subseteq Masjid /\ deployed \subseteq masjids
  /\ selected \in Masjid \cup {Nothing}
  /\ proposing \in BOOLEAN
  /\ chain \in [Masjid -> [verified : BOOLEAN, threshold : 1..MaxThreshold,
                           count : 0..MaxRequests, request : [RequestId -> Request]]]
  /\ troubles \in 0..MaxEvents
  /\ seen \in [Masjid -> [verified : BOOLEAN, threshold : 0..MaxThreshold,
                          count : 0..MaxRequests]]
  /\ rows \in [Masjid -> [of : 0..MaxRequests, got : Rows]]

Init ==
  /\ CallInit
  /\ page = "list" /\ list = "loading" /\ masjids = {} /\ deployed = {}
  /\ selected = Nothing
  /\ proposing = FALSE
  /\ chain = [m \in Masjid |-> [verified |-> TRUE, threshold |-> 1, count |-> Begun[m],
                  request |-> [id \in RequestId |->
                     [NewRequest EXCEPT !.approvals = IF id <= Begun[m] THEN 1 ELSE 0]]]]
  /\ troubles = 0
  /\ seen = [m \in Masjid |-> NoRead]
  /\ rows = [m \in Masjid |-> NoRows]
----------------------------------------------------------------------------
Presses == Cardinality({c \in Call : call[c].at # "unused"})

Trouble == Presses + troubles < MaxEvents /\ troubles' = troubles + 1

TroubleIf(condition) == IF condition THEN Trouble ELSE UNCHANGED troubles
----------------------------------------------------------------------------
(* What is mounted. *)

First(ms) == CHOOSE m \in ms : TRUE

\* useBoardDashboard: the selected mosque, the first one, or none.  A list that fails to
\* load again takes the dashboard away, though not what is selected.
ShownAs(l, ms, sel) ==
  IF l # "loaded" THEN Nothing
  ELSE IF sel \in ms THEN sel
  ELSE IF sel = Nothing /\ ms # {} THEN First(ms)
  ELSE Nothing

Shown == IF page = "dashboard" THEN ShownAs(list, masjids, selected) ELSE Nothing

\* Its instanceAddress, for which nothing is read and nothing mounted when there is none.
InstanceAs(l, ms, ds, sel) == IF ShownAs(l, ms, sel) \in ds THEN ShownAs(l, ms, sel) ELSE Nothing

Instance == IF Shown \in deployed THEN Shown ELSE Nothing

\* The rows of the table of an instance: the requests that were read for the number of
\* requests that was read, and had a result.
RowsOf(m) ==
  IF m = Nothing \/ rows[m].of # seen[m].count THEN {} ELSE DOMAIN rows[m].got

HooksOfRows(ids) == {"execute", "cancel"} \X ids

\* Components whose row is not in the new table are unmounted.
ShowRows(old, new) == Unmount(HooksOfRows(old \ new))

\* The dashboard turns to the instance of mosque m, or to none: then the form goes too,
\* though showPropose stays and brings it back with the next instance.
Show(m) ==
  Unmount(HooksOfRows(RowsOf(Instance) \ RowsOf(m)) \cup IF m = Nothing THEN {ProposeHook} ELSE {})
----------------------------------------------------------------------------
(* Reads *)

\* The list arrives, is read again, or fails to; ds are its mosques that have an instance
\* (GetByMember, masjid_service.go:24-53, lists them all).
LoadMasjids(l, ms, ds) ==
  /\ list' = l /\ masjids' = ms /\ deployed' = ds
  /\ <<l, ms, ds>> # <<list, masjids, deployed>>
  /\ l = "failed" => ms = masjids /\ ds = deployed
  /\ TroubleIf(l = "failed" \/ list = "loaded" \/ ds # ms)
  /\ IF page = "dashboard" THEN Show(InstanceAs(l, ms, ds, selected)) ELSE UNCHANGED <<call, watched>>
  /\ UNCHANGED <<account, tx, page, selected, proposing, shownVars, chain>>

\* Mutant: a missing threshold is passed on as it is.
ThresholdOrNothing(m, got) == IF "threshold" \in got THEN chain[m].threshold ELSE Nothing

\* cashOutThreshold ?? BigInt(0)
ThresholdOrZero(m, got) == IF "threshold" \in got THEN chain[m].threshold ELSE 0

\* useInstanceContracts.  A missing status is not Verified, a missing threshold is
\* passed on as 0, a missing cashOutNonce makes an empty table.
ReadInstance(got) ==
  LET m == Instance
      now == [verified  |-> "status" \in got /\ chain[m].verified,
              threshold |-> ThresholdOrZero(m, got),
              count     |-> IF "count" \in got THEN chain[m].count ELSE 0] IN
  /\ m # Nothing
  /\ now # seen[m]
  /\ TroubleIf(got # {"status", "threshold", "count"})
  /\ seen' = [seen EXCEPT ![m] = now]
  /\ ShowRows(RowsOf(m), IF rows[m].of = now.count THEN DOMAIN rows[m].got ELSE {})
  /\ UNCHANGED <<account, tx, pageVars, rows, chain>>

RowOf(req) == [approvals |-> req.approvals, settled |-> req.settled]

\* Mutant: the request after the one asked for.
ReadNext(m, id) == RowOf(chain[m].request[IF id < MaxRequests THEN id + 1 ELSE id])

\* Of expiresAt, which never changes, the page makes what its clock says (PressRow).
ReadRequest(m, id) == RowOf(chain[m].request[id])

\* useCashOutRequests: ids 1 to the number that was read.
ReadRequests(got) ==
  LET m == Instance
      ids == got \cap 1..seen[m].count
      now == [of |-> seen[m].count, got |-> [id \in ids |-> ReadRequest(m, id)]] IN
  /\ m # Nothing
  /\ seen[m].count > 0
  /\ now # rows[m]
  /\ TroubleIf(got # RequestId)
  /\ rows' = [rows EXCEPT ![m] = now]
  /\ ShowRows(RowsOf(m), ids)
  /\ UNCHANGED <<account, tx, pageVars, seen, chain>>
----------------------------------------------------------------------------
(* The dashboard *)

\* The buttons with the names of the mosques are there for more than one.  The button of
\* the mosque on show selects it too, where it was only the first of the list.
Select(m) ==
  /\ Shown # Nothing /\ Cardinality(masjids) > 1
  /\ m \in masjids /\ selected # m
  /\ selected' = m
  /\ Show(InstanceAs(list, masjids, deployed, m))
  /\ UNCHANGED <<account, tx, page, list, masjids, deployed, proposing, shownVars, chainVars>>

\* "Ajukan Pencairan", "Tutup Form"
TogglePropose ==
  /\ Instance # Nothing /\ seen[Instance].verified
  /\ proposing' = ~proposing
  /\ IF proposing THEN Unmount({ProposeHook}) ELSE UNCHANGED <<call, watched>>
  /\ UNCHANGED <<account, tx, page, list, masjids, deployed, selected, shownVars, chainVars>>

\* The form stays when the mosque is, or becomes, one that is not verified.
Propose(c) ==
  /\ Instance # Nothing /\ proposing
  /\ ~Busy(ProposeHook)
  /\ Presses + troubles < MaxEvents
  /\ Press(c, ProposeHook, <<Instance, 0>>, "simulating")
  /\ UNCHANGED <<pageVars, shownVars, chainVars>>

\* canExecute, "Siap Eksekusi" in cashOutStatusBadge
CanExecute(m, id) == rows[m].got[id].approvals >= seen[m].threshold

\* Mutant: a cancellation does not make the row busy.
ExecuteBusy(id) == Busy(<<"execute", id>>)

RowBusy(id) == Busy(<<"execute", id>>) \/ Busy(<<"cancel", id>>)

\* CashOutActions: nothing for a settled request; "Execute" for one that has its
\* approvals and has not expired by the clock of the browser.
MayPressRow(m, button, id, isExpired) ==
  /\ m # Nothing /\ id \in RowsOf(m)
  /\ rows[m].got[id].settled = "open"
  /\ button = "execute" => CanExecute(m, id) /\ ~isExpired
  /\ ~RowBusy(id)

PressRow(c, button, id) ==
  /\ \E isExpired \in BOOLEAN : MayPressRow(Instance, button, id, isExpired)
  /\ Presses + troubles < MaxEvents
  /\ Press(c, <<button, id>>, <<Instance, id>>, "simulating")
  /\ UNCHANGED <<pageVars, shownVars, chainVars>>

\* "Kelola" in the list of page.tsx, or an address typed in.
OpenDashboard(sel) ==
  /\ page = "list"
  /\ page' = "dashboard" /\ selected' = sel
  /\ UNCHANGED <<account, call, tx, watched, list, masjids, deployed, proposing, shownVars,
                 chainVars>>

\* The dashboard goes, or AuthGuard takes it away.
Leave ==
  /\ page = "dashboard"
  /\ page' = "list" /\ selected' = Nothing /\ proposing' = FALSE
  /\ Unmount(BoardHook)
  /\ UNCHANGED <<account, tx, list, masjids, deployed, shownVars, chainVars>>
----------------------------------------------------------------------------
(* The calls *)

\* What the instance requires of the call, whoever sends it.
Accepts(c) ==
  LET m == call[c].target[1]  id == call[c].target[2]  req == chain[m].request[id] IN
  CASE call[c].hook[1] = "propose" -> chain[m].verified /\ chain[m].count < MaxRequests
    [] call[c].hook[1] = "execute" -> /\ chain[m].verified
                                      /\ req.settled = "open" /\ ~req.expired
                                      /\ req.approvals >= chain[m].threshold
    [] OTHER                       -> req.settled = "open"

PageSimulate(c) ==
  /\ call[c].at = "simulating" /\ Accepts(c)
  /\ Simulate(c)
  /\ UNCHANGED <<pageVars, shownVars, chainVars>>

PageRefuse(c, stage) ==
  /\ Refuse(c, stage)
  /\ UNCHANGED <<pageVars, shownVars, chainVars>>

\* onSuccess of the form's mutate runs when the hash is there: it closes the form,
\* whichever mosque it is about, and with it goes the wait for the receipt.
Sign(c) ==
  LET closes == call[c].hook = ProposeHook /\ IsWatched(c) IN
  /\ IF closes
     THEN /\ call[c].at = "prompting"
          /\ proposing' = FALSE
          /\ tx' = [tx EXCEPT ![c].status = "pending"]
          /\ call' = CallWithout([call EXCEPT ![c].at = "confirming"], {ProposeHook})
          /\ watched' = WatchedWithout({ProposeHook})
          /\ UNCHANGED account
     ELSE WalletSigns(c) /\ UNCHANGED proposing
  /\ UNCHANGED <<page, list, masjids, deployed, selected, shownVars, chainVars>>

Settle(m, id, how) == [chain EXCEPT ![m].request[id].settled = how]

\* The transaction is in a block.  What the contract requires beyond Accepts (the role
\* of the sender, the treasury) may make it revert.
Mine(c) ==
  LET m == call[c].target[1]  id == call[c].target[2] IN
  /\ \/ Included(c, FALSE) /\ UNCHANGED chain
     \/ /\ tx[c].status = "pending" /\ Accepts(c)
        /\ Included(c, TRUE)
        /\ chain' = CASE call[c].hook[1] = "propose" -> [chain EXCEPT ![m].count = @ + 1]
                      [] call[c].hook[1] = "execute" -> Settle(m, id, "executed")
                      [] OTHER                       -> Settle(m, id, "canceled")
  /\ UNCHANGED <<troubles, pageVars, shownVars>>

Receipt(c) ==
  /\ Confirmed(c) \/ ReceiptFails(c)
  /\ UNCHANGED <<pageVars, shownVars, chainVars>>
----------------------------------------------------------------------------
\* Others: the protocol, other members of the board, and time.
Outside(m) ==
  /\ Trouble
  /\ \/ chain' = [chain EXCEPT ![m].verified = ~@]
     \/ \E t \in 1..MaxThreshold \ {chain[m].threshold} : chain' = [chain EXCEPT ![m].threshold = t]
     \/ chain[m].count < MaxRequests /\ chain' = [chain EXCEPT ![m].count = @ + 1]
     \/ \E id \in 1..chain[m].count :
          LET req == chain[m].request[id] IN
          /\ req.settled = "open"
          /\ \/ /\ ~req.expired
                /\ chain' = [chain EXCEPT ![m].request[id].expired = TRUE]
             \/ /\ ~req.expired /\ req.approvals < MaxThreshold
                /\ chain' = [chain EXCEPT ![m].request[id].approvals = @ + 1]
             \/ chain' = Settle(m, id, "canceled")
  /\ UNCHANGED <<account, call, tx, watched, pageVars, shownVars>>

Wallet(a) == ChangeAccount(a) /\ Trouble /\ UNCHANGED <<pageVars, shownVars, chain>>

\* What the code, the node and the network do of themselves.
CallStep(c) == PageSimulate(c) \/ PageRefuse(c, "simulating") \/ Mine(c) \/ Receipt(c)

Next ==
  \/ TogglePropose \/ Leave
  \/ \E l \in {"failed", "loaded"}, ms \in Lists : \E ds \in SUBSET ms : LoadMasjids(l, ms, ds)
  \/ \E sel \in Masjid \cup {Nothing} : OpenDashboard(sel)
  \/ \E got \in SUBSET {"status", "threshold", "count"} : ReadInstance(got)
  \/ \E got \in SUBSET RequestId : ReadRequests(got)
  \/ \E m \in Masjid : Select(m) \/ Outside(m)
  \/ \E a \in Account \cup {Nobody} : Wallet(a)
  \/ \E c \in Call :
       \/ Propose(c) \/ \E b \in {"execute", "cancel"}, id \in RequestId : PressRow(c, b, id)
       \/ CallStep(c) \/ Sign(c) \/ PageRefuse(c, "prompting")

Spec == Init /\ [][Next]_vars /\ \A c \in Call : WF_vars(CallStep(c))
----------------------------------------------------------------------------
(* Properties *)

\* ui.tsx and hooks.ts show nothing of a request that has not happened: a request shown
\* as executed or canceled is, no more approvals are shown than it has, and every row
\* belongs to a request of the mosque on show.
RowsAreHistory ==
  \A m \in Masjid : \A id \in RowsOf(m) :
    LET req == rows[m].got[id]  now == chain[m].request[id] IN
    /\ id <= chain[m].count
    /\ req.settled # "open" => req.settled = now.settled
    /\ req.approvals <= now.approvals
=============================================================================
