---------------------------- MODULE MasjidTables ----------------------------
(***************************************************************************)
(* The PostgreSQL tables the back end derives from the events, and what    *)
(* each event handler (service/event_service.go) writes into them through  *)
(* the repositories.  A handler is one or two statements, each committed   *)
(* on its own: Handle(db, e, k) is the database after the k-th.            *)
(*                                                                         *)
(* An insert with ON CONFLICT DO UPDATE overwrites the row with all the    *)
(* columns of the handler's struct, the zero ones included.                *)
(* Left out: columns that copy an event's payload, and users.name, which   *)
(* every upsert of a user resets to the empty string.                      *)
(***************************************************************************)
EXTENDS ChainEvents

Role == {"guest", "board", "verifier"}

NoRow == [status |-> "absent", masjidAdmin |-> Founder, instanceAddr |-> FALSE,
          attestYes |-> 0, attestNo |-> 0]

EmptyTables ==
  [ masjids      |-> [m \in Mosque |-> NoRow],
    attests      |-> {},     \* rows [masjidId, verifier, support]
    verifiers    |-> [a \in Account |-> "absent"],
    cashIns      |-> {},     \* rows [tx, instanceAddr, linked], linked: masjid_id is set
    cashOuts     |-> {},     \* rows [instanceAddr, requestId, linked, executed, canceled]
    cashOutVotes |-> {},     \* rows [instanceAddr, requestId, approver]
    boardMembers |-> {},     \* rows [memberAddr, instanceAddr, isActive]
    users        |-> [a \in Account |-> "absent"] ]

\* The tables by their columns.
Tables ==
  [ masjids      : [Mosque -> [status : {"absent", "pending", "verified", "rejected", "flagged",
                                         "revoked"},
                               masjidAdmin : Account, instanceAddr : BOOLEAN,
                               attestYes : Nat, attestNo : Nat]],
    attests      : SUBSET [masjidId : Mosque, verifier : Account, support : BOOLEAN],
    verifiers    : [Account -> {"absent", "active", "inactive"}],
    cashIns      : SUBSET [tx : Nat, instanceAddr : Mosque, linked : BOOLEAN],
    cashOuts     : SUBSET [instanceAddr : Mosque, requestId : 1..MaxRequests, linked : BOOLEAN,
                           executed : BOOLEAN, canceled : BOOLEAN],
    cashOutVotes : SUBSET [instanceAddr : Mosque, requestId : 1..MaxRequests,
                           approver : Account],
    boardMembers : SUBSET [memberAddr : Account, instanceAddr : Mosque, isActive : BOOLEAN],
    users        : [Account -> Role \cup {"absent"}] ]

\* FindByID: the row of a registered mosque.
FindByID(db, m) == db.masjids[m].status # "absent"

\* FindByInstance: a row names the instance, so masjid_id can be filled in.
FindByInstance(db, m) == db.masjids[m].instanceAddr

\* ListInstanceAddresses
ListInstanceAddresses(db) == { m \in Mosque : db.masjids[m].instanceAddr }

UpsertUser(db, a, role) == [db EXCEPT !.users[a] = role]

UpdateRole(db, a, role) ==
  IF db.users[a] = "absent" THEN db ELSE [db EXCEPT !.users[a] = role]
----------------------------------------------------------------------------
\* The insert starts from an empty struct: counts 0 and no instance.
HandleMasjidRegistered(db, e) ==
  [db EXCEPT !.masjids[e.masjidId] =
     [NoRow EXCEPT !.status = "pending", !.masjidAdmin = e.proposer]]

UpsertAttest(db, e) ==
  [db EXCEPT !.attests =
     { r \in @ : ~(r.masjidId = e.masjidId /\ r.verifier = e.verifier) }
     \cup {[masjidId |-> e.masjidId, verifier |-> e.verifier, support |-> e.support]}]

UpdateAttestCounts(db, m, yesCount, noCount) ==
  [db EXCEPT !.masjids[m] = [@ EXCEPT !.attestYes = yesCount, !.attestNo = noCount]]

HandleMasjidAttested(db, e, k) ==
  CASE ~FindByID(db, e.masjidId)          -> db
    [] FindByID(db, e.masjidId) /\ k = 1  -> UpsertAttest(db, e)
    [] FindByID(db, e.masjidId) /\ k = 2  ->
         UpdateAttestCounts(db, e.masjidId, e.yesCount, e.noCount)

\* An UPDATE of a row that is not there changes nothing, and is no error.
UpdateStatus(db, m, status) ==
  IF FindByID(db, m) THEN [db EXCEPT !.masjids[m].status = status] ELSE db

HandleMasjidRejected(db, e) == UpdateStatus(db, e.masjidId, "rejected")

HandleStatus(db, e) == UpdateStatus(db, e.masjidId, e.status)

UpdateVerified(db, m) ==
  IF FindByID(db, m)
  THEN [db EXCEPT !.masjids[m] = [@ EXCEPT !.instanceAddr = TRUE, !.status = "verified"]]
  ELSE db

HandleMasjidVerified(db, e, k) ==
  CASE k = 1 -> UpdateVerified(db, e.masjidId)
    [] k = 2 /\ FindByID(db, e.masjidId) ->
         UpsertUser(db, db.masjids[e.masjidId].masjidAdmin, "board")
    [] k = 2 /\ ~FindByID(db, e.masjidId) -> db
----------------------------------------------------------------------------
\* Mutant: is_active is not among the columns a conflict updates.
UpsertVerifierKeepsActive(db, a) ==
  IF db.verifiers[a] = "absent" THEN [db EXCEPT !.verifiers[a] = "active"] ELSE db

UpsertVerifier(db, a) == [db EXCEPT !.verifiers[a] = "active"]

HandleVerifierAdded(db, e, k) ==
  IF k = 1 THEN UpsertVerifier(db, e.address) ELSE UpsertUser(db, e.address, "verifier")

Deactivate(db, a) ==
  IF db.verifiers[a] = "absent" THEN db ELSE [db EXCEPT !.verifiers[a] = "inactive"]

HandleVerifierRemoved(db, e, k) ==
  IF k = 1 THEN Deactivate(db, e.address) ELSE UpdateRole(db, e.address, "guest")
----------------------------------------------------------------------------
\* One row per transaction: tx_hash is the key.
HandleCashIn(db, e, tx) ==
  [db EXCEPT !.cashIns =
     { r \in @ : r.tx # tx }
     \cup {[tx |-> tx, instanceAddr |-> e.instance, linked |-> FindByInstance(db, e.instance)]}]

Requests(db, e) ==
  { r \in db.cashOuts : r.instanceAddr = e.instance /\ r.requestId = e.requestId }

HandleCashOutProposed(db, e) ==
  [db EXCEPT !.cashOuts =
     (@ \ Requests(db, e))
     \cup {[instanceAddr |-> e.instance, requestId |-> e.requestId,
            linked |-> FindByInstance(db, e.instance), executed |-> FALSE, canceled |-> FALSE]}]

\* cash_out_votes references cash_outs: without the request the insert fails.
HandleCashOutApproved(db, e) ==
  IF Requests(db, e) = {} THEN db
  ELSE [db EXCEPT !.cashOutVotes =
          @ \cup {[instanceAddr |-> e.instance, requestId |-> e.requestId,
                   approver |-> e.approver]}]

HandleCashOutExecuted(db, e) ==
  [db EXCEPT !.cashOuts =
     (@ \ Requests(db, e)) \cup { [r EXCEPT !.executed = TRUE] : r \in Requests(db, e) }]

HandleCashOutCanceled(db, e) ==
  [db EXCEPT !.cashOuts =
     (@ \ Requests(db, e)) \cup { [r EXCEPT !.canceled = TRUE] : r \in Requests(db, e) }]

\* External (gorm): a zero value of a column whose model says default:true is
\* inserted as that default, so the row is written active whatever was asked.
IsActiveWritten(allowed) == TRUE

UpsertBoardMember(db, e) ==
  [db EXCEPT !.boardMembers =
     { r \in @ : ~(r.memberAddr = e.member /\ r.instanceAddr = e.instance) }
     \cup {[memberAddr |-> e.member, instanceAddr |-> e.instance,
            isActive |-> IsActiveWritten(e.allowed)]}]

FindInstancesByMember(db, a) ==
  { r.instanceAddr : r \in { x \in db.boardMembers : x.memberAddr = a /\ x.isActive } }

HandleBoardMemberUpdated(db, e, k) ==
  LET role == IF e.allowed \/ FindInstancesByMember(db, e.member) # {}
              THEN "board" ELSE "guest"
  IN  IF k = 1 THEN UpsertBoardMember(db, e) ELSE UpsertUser(db, e.member, role)
----------------------------------------------------------------------------
\* How many statements the handler of an event runs.
Statements(e) ==
  IF e.kind \in {"MasjidAttested", "MasjidVerified", "VerifierAdded", "VerifierRemoved",
                 "BoardMemberUpdated"}
  THEN 2 ELSE 1

Handle(db, e, k, tx) ==
  CASE e.kind = "MasjidRegistered"    -> HandleMasjidRegistered(db, e)
    [] e.kind = "MasjidAttested"      -> HandleMasjidAttested(db, e, k)
    [] e.kind = "MasjidRejected"      -> HandleMasjidRejected(db, e)
    [] e.kind = "MasjidVerified"      -> HandleMasjidVerified(db, e, k)
    [] e.kind = "MasjidStatusUpdated" -> HandleStatus(db, e)
    [] e.kind = "VerifierAdded"       -> HandleVerifierAdded(db, e, k)
    [] e.kind = "VerifierRemoved"     -> HandleVerifierRemoved(db, e, k)
    [] e.kind = "CashIn"              -> HandleCashIn(db, e, tx)
    [] e.kind = "CashOutProposed"     -> HandleCashOutProposed(db, e)
    [] e.kind = "CashOutApproved"     -> HandleCashOutApproved(db, e)
    [] e.kind = "CashOutExecuted"     -> HandleCashOutExecuted(db, e)
    [] e.kind = "CashOutCanceled"     -> HandleCashOutCanceled(db, e)
    [] e.kind = "BoardMemberUpdated"  -> HandleBoardMemberUpdated(db, e, k)
=============================================================================
