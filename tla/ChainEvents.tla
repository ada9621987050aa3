----------------------------- MODULE ChainEvents -----------------------------
(***************************************************************************)
(* The logs the contracts emit and the back end listens to, as the chain   *)
(* keeps them: a sequence of blocks, each the events of one transaction    *)
(* (or none).  The rules under which a contract emits them are modules     *)
(* MasjidProtocol and MasjidInstance; here a transaction is any that comes *)
(* in an order those contracts allow for one mosque, one verifier and one  *)
(* request.  An instance is named by its mosque.  Hashes, amounts and      *)
(* timestamps are payload the tables copy, and are left out.               *)
(***************************************************************************)
EXTENDS Naturals, FiniteSets, SequencesExt

CONSTANTS
  Mosque,       \* masjid ids
  Account,      \* verifiers, board members, donors
  Founder,      \* proposes every mosque, is its admin and its founding board
  TxKind,       \* the transactions this instance of the model sends
  MaxRequests   \* bound: cash-out requests of one mosque

Registered(m)        == [kind |-> "MasjidRegistered", masjidId |-> m, proposer |-> Founder]
Attested(m, v, s, y, n) ==
  [kind |-> "MasjidAttested", masjidId |-> m, verifier |-> v, support |-> s,
   yesCount |-> y, noCount |-> n]
Rejected(m)          == [kind |-> "MasjidRejected", masjidId |-> m]
Verified(m)          == [kind |-> "MasjidVerified", masjidId |-> m]
StatusUpdated(m, s)  == [kind |-> "MasjidStatusUpdated", masjidId |-> m, status |-> s]

VerifierAdded(a)     == [kind |-> "VerifierAdded", address |-> a]
VerifierRemoved(a)   == [kind |-> "VerifierRemoved", address |-> a]

Donated(m)           == [kind |-> "CashIn", instance |-> m]
Proposed(m, r)       == [kind |-> "CashOutProposed", instance |-> m, requestId |-> r]
Approved(m, r, a)    == [kind |-> "CashOutApproved", instance |-> m, requestId |-> r,
                         approver |-> a]
Executed(m, r)       == [kind |-> "CashOutExecuted", instance |-> m, requestId |-> r]
Canceled(m, r)       == [kind |-> "CashOutCanceled", instance |-> m, requestId |-> r]
BoardMemberUpdated(m, a, allowed) ==
  [kind |-> "BoardMemberUpdated", instance |-> m, member |-> a, allowed |-> allowed]

\* What a contract can emit.
Event ==
  [kind : {"MasjidRegistered"}, masjidId : Mosque, proposer : {Founder}]
  \cup [kind : {"MasjidAttested"}, masjidId : Mosque, verifier : Account, support : BOOLEAN,
        yesCount : Nat, noCount : Nat]
  \cup [kind : {"MasjidRejected", "MasjidVerified"}, masjidId : Mosque]
  \cup [kind : {"MasjidStatusUpdated"}, masjidId : Mosque,
        status : {"verified", "flagged", "revoked"}]
  \cup [kind : {"VerifierAdded", "VerifierRemoved"}, address : Account]
  \cup [kind : {"CashIn"}, instance : Mosque]
  \cup [kind : {"CashOutProposed", "CashOutExecuted", "CashOutCanceled"}, instance : Mosque,
        requestId : 1..MaxRequests]
  \cup [kind : {"CashOutApproved"}, instance : Mosque, requestId : 1..MaxRequests,
        approver : Account]
  \cup [kind : {"BoardMemberUpdated"}, instance : Mosque, member : Account, allowed : BOOLEAN]

\* The topics each pass of the indexer asks a node for.
Topics ==
  [ MasjidProtocol   |-> {"MasjidRegistered", "MasjidAttested", "MasjidRejected",
                          "MasjidVerified", "MasjidStatusUpdated"},
    VerifierRegistry |-> {"VerifierAdded", "VerifierRemoved"},
    MasjidInstance   |-> {"CashIn", "CashOutProposed", "CashOutApproved", "CashOutExecuted",
                          "CashOutCanceled", "BoardMemberUpdated"} ]

Stream == DOMAIN Topics
----------------------------------------------------------------------------
\* The events of the first n blocks of a chain, in order.
Events(chain, n) == FlattenSeq(SubSeq(chain, 1, n))

\* The status a mosque has after an event of the protocol's stream.
StatusAfter(e) ==
  CASE e.kind = "MasjidRegistered"    -> "pending"
    [] e.kind = "MasjidVerified"      -> "verified"
    [] e.kind = "MasjidRejected"      -> "rejected"
    [] e.kind = "MasjidStatusUpdated" -> e.status

StatusOnChain(events, m) ==
  LET Decides(e) == e.kind \in Topics.MasjidProtocol \ {"MasjidAttested"} /\ e.masjidId = m
      last == SelectLastInSeq(events, Decides)
  IN  IF last = 0 THEN "absent" ELSE StatusAfter(events[last])

VotesOnChain(events, m, supports) ==
  { e \in ToSet(events) :
      e.kind = "MasjidAttested" /\ e.masjidId = m /\ e.support \in supports }

\* Whether the registry lists the account, and whether m's board does.
VerifierOnChain(events, a) ==
  LET Concerns(e) == e.kind \in Topics.VerifierRegistry /\ e.address = a
      last == SelectLastInSeq(events, Concerns)
  IN  last # 0 /\ events[last].kind = "VerifierAdded"

MemberOnChain(events, m, a) ==
  LET Concerns(e) == e.kind = "BoardMemberUpdated" /\ e.instance = m /\ e.member = a
      last == SelectLastInSeq(events, Concerns)
  IN  last # 0 /\ events[last].allowed

EventsOf(events, kind, m) ==
  { e \in ToSet(events) : e.kind = kind /\ e.instance = m }

Settled(events, m, r) == { Executed(m, r), Canceled(m, r) } \cap ToSet(events) # {}
----------------------------------------------------------------------------
\* register
RegisterTx(events) ==
  { <<Registered(m)>> : m \in { x \in Mosque : StatusOnChain(events, x) = "absent" } }

\* attest, and the decision it may bring: the constructor of the new instance
\* announces the founding board before the protocol announces the instance.
\* An account votes once.
YesVote(events, m, v) ==
  Attested(m, v, TRUE, Cardinality(VotesOnChain(events, m, {TRUE})) + 1,
                       Cardinality(VotesOnChain(events, m, {FALSE})))

NoVote(events, m, v) ==
  Attested(m, v, FALSE, Cardinality(VotesOnChain(events, m, {TRUE})),
                        Cardinality(VotesOnChain(events, m, {FALSE})) + 1)

Ballots(events) ==
  { c \in Mosque \X Account :
      /\ StatusOnChain(events, c[1]) = "pending"
      /\ \A e \in VotesOnChain(events, c[1], BOOLEAN) : e.verifier # c[2] }

VoteTx(events) ==
  UNION { { <<YesVote(events, c[1], c[2])>>,
            <<NoVote(events, c[1], c[2])>>,
            <<NoVote(events, c[1], c[2]), Rejected(c[1])>> } : c \in Ballots(events) }

VerifyTx(events) ==
  { <<YesVote(events, c[1], c[2]), BoardMemberUpdated(c[1], Founder, TRUE), Verified(c[1])>> :
      c \in Ballots(events) }

\* flag, unflag, revoke
StatusTx(events) ==
  LET next == [ verified |-> {"flagged", "revoked"}, flagged |-> {"verified", "revoked"} ]
  IN  UNION { { <<StatusUpdated(m, s)>> : s \in next[StatusOnChain(events, m)] } :
                m \in { x \in Mosque : StatusOnChain(events, x) \in DOMAIN next } }

\* addVerifier, removeVerifier
VerifierTx(events) ==
  { IF VerifierOnChain(events, a) THEN <<VerifierRemoved(a)>> ELSE <<VerifierAdded(a)>> :
      a \in Account }

Deployed(events) == { m \in Mosque : Verified(m) \in ToSet(events) }

\* cashIn
DonateTx(events) == { <<Donated(m)>> : m \in Deployed(events) }

\* proposeCashOut, approveCashOut, executeCashOut, cancelCashOut
ProposeTx(events) ==
  { <<Proposed(m, Cardinality(EventsOf(events, "CashOutProposed", m)) + 1)>> :
      m \in { x \in Deployed(events) :
                Cardinality(EventsOf(events, "CashOutProposed", x)) < MaxRequests } }

RequestTx(events) ==
  LET open == { q \in Deployed(events) \X (1..MaxRequests) :
                  /\ Proposed(q[1], q[2]) \in ToSet(events)
                  /\ ~Settled(events, q[1], q[2]) }
  IN  UNION { {<<Executed(q[1], q[2])>>, <<Canceled(q[1], q[2])>>}
              \cup { <<Approved(q[1], q[2], a)>> :
                       a \in { x \in Account : Approved(q[1], q[2], x) \notin ToSet(events) } } :
                q \in open }

\* setBoardMember: only an account without the role is added, but a removal is
\* announced whoever the account is.
BoardTx(events) ==
  { <<BoardMemberUpdated(c[1], c[2], c[3])>> :
      c \in { x \in Deployed(events) \X Account \X BOOLEAN :
              ~(x[3] /\ MemberOnChain(events, x[1], x[2])) } }

\* Every transaction that can come next; an empty block is always possible.
Allowed(events) ==
  {<<>>} \cup RegisterTx(events) \cup VoteTx(events) \cup VerifyTx(events) \cup StatusTx(events)
  \cup VerifierTx(events) \cup DonateTx(events) \cup ProposeTx(events) \cup RequestTx(events)
  \cup BoardTx(events)

\* A chain the contracts can have written.
Lawful(chain) == \A b \in 1..Len(chain) : chain[b] \in Allowed(Events(chain, b - 1))

\* The transactions this instance of the model sends.
Transactions(events) ==
  {<<>>}
  \cup (IF "register" \in TxKind THEN RegisterTx(events) ELSE {})
  \cup (IF "vote" \in TxKind THEN VoteTx(events) ELSE {})
  \cup (IF "verify" \in TxKind THEN VerifyTx(events) ELSE {})
  \cup (IF "status" \in TxKind THEN StatusTx(events) ELSE {})
  \cup (IF "verifier" \in TxKind THEN VerifierTx(events) ELSE {})
  \cup (IF "donate" \in TxKind THEN DonateTx(events) ELSE {})
  \cup (IF "request" \in TxKind THEN ProposeTx(events) \cup RequestTx(events) ELSE {})
  \cup (IF "board" \in TxKind THEN BoardTx(events) ELSE {})
=============================================================================
