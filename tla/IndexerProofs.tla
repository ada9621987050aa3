---------------------------- MODULE IndexerProofs ----------------------------
(***************************************************************************)
(* What the indexer keeps, proved for any chain, any chunk size and any    *)
(* number of blocks, faults and reorganisations: its types, that its       *)
(* tables never hold a row for something that has not happened, and that   *)
(* the verifiers, the mosques' rows, the votes and what every instance     *)
(* took in and spent are those of the chain once the pass over their       *)
(* events has caught up.                                                   *)
(*                                                                         *)
(* What FlattenSeq does with the logs of a chunk is module FoldProofs.     *)
(***************************************************************************)
EXTENDS Indexer, FoldProofs

----------------------------------------------------------------------------
(* Events *)

\* An event of each kind has the fields of its kind.
LEMMA EventFields ==
  ASSUME NEW e \in Event
  PROVE  /\ e.kind \in UNION {Topics[s] : s \in Stream}
         /\ e.kind = "MasjidRegistered" => e.masjidId \in Mosque /\ e = Registered(e.masjidId)
         /\ e.kind = "MasjidAttested" =>
              /\ e.masjidId \in Mosque /\ e.verifier \in Account /\ e.support \in BOOLEAN
              /\ e.yesCount \in Nat /\ e.noCount \in Nat
         /\ e.kind = "MasjidRejected" => e.masjidId \in Mosque
         /\ e.kind = "MasjidVerified" => e.masjidId \in Mosque /\ e = Verified(e.masjidId)
         /\ e.kind = "MasjidStatusUpdated" =>
              e.masjidId \in Mosque /\ e.status \in {"verified", "flagged", "revoked"}
         /\ e.kind = "VerifierAdded" => e.address \in Account /\ e = VerifierAdded(e.address)
         /\ e.kind = "VerifierRemoved" => e.address \in Account
         /\ e.kind = "CashIn" => e.instance \in Mosque /\ e = Donated(e.instance)
         /\ e.kind \in {"CashOutProposed", "CashOutApproved", "CashOutExecuted",
                        "CashOutCanceled"} =>
              e.instance \in Mosque /\ e.requestId \in 1..MaxRequests
         /\ e.kind = "CashOutProposed" => e = Proposed(e.instance, e.requestId)
         /\ e.kind = "CashOutApproved" =>
              e.approver \in Account /\ e = Approved(e.instance, e.requestId, e.approver)
         /\ e.kind = "CashOutExecuted" => e = Executed(e.instance, e.requestId)
         /\ e.kind = "CashOutCanceled" => e = Canceled(e.instance, e.requestId)
         /\ e.kind = "BoardMemberUpdated" =>
              e.instance \in Mosque /\ e.member \in Account /\ e.allowed \in BOOLEAN
<1>1. Topics.MasjidProtocol = Topics["MasjidProtocol"]
  OBVIOUS
<1>. QED
  BY DEF Event, Topics, Stream, Registered, Verified, VerifierAdded, Donated, Proposed, Approved,
         Executed, Canceled

\* The events of the first blocks of a chain are a sequence of events, those of its blocks.
LEMMA EventsOfBlocks ==
  ASSUME NEW c \in Seq(Seq(Event)), NEW n \in 0..Len(c)
  PROVE  /\ Events(c, n) \in Seq(Event)
         /\ ToSet(Events(c, n)) = UNION {ToSet(c[b]) : b \in 1..n}
<1>1. SubSeq(c, 1, n) \in Seq(Seq(Event)) /\ Len(SubSeq(c, 1, n)) = n
  OBVIOUS
<1>2. \A b \in 1..n : SubSeq(c, 1, n)[b] = c[b]
  OBVIOUS
<1>3. /\ Events(c, n) \in Seq(Event)
      /\ ToSet(Events(c, n)) = UNION {ToSet(SubSeq(c, 1, n)[b]) : b \in 1..Len(SubSeq(c, 1, n))}
  BY <1>1, Flattened DEF Events
<1>. QED  BY <1>1, <1>2, <1>3

\* The last event of the first blocks of a chain.
LEMMA LastOfBlocks ==
  ASSUME NEW c \in Seq(Seq(Event)), NEW n \in 0..Len(c), NEW P, NEW x
  PROVE  LastIs(Events(c, n), P, x)
           <=> \E b \in 1..n : /\ LastIs(c[b], P, x)
                               /\ \A k \in 1..n : k > b => ToSet(c[k]) \cap P = {}
<1>. DEFINE s == SubSeq(c, 1, n)
<1>1. s \in Seq(Seq(Event)) /\ Len(s) = n /\ \A b \in 1..n : s[b] = c[b]
  OBVIOUS
<1>. HIDE DEF s
<1>2. LastIs(FlattenSeq(s), P, x)
        <=> \E b \in 1..Len(s) : /\ LastIs(s[b], P, x)
                                 /\ \A k \in 1..Len(s) : k > b => ToSet(s[k]) \cap P = {}
  BY <1>1, FlattenedLast
<1>. QED  BY <1>1, <1>2 DEF Events, s

\* Votes and requests are counted by natural numbers.
LEMMA Counted ==
  ASSUME NEW events \in Seq(Event), NEW m
  PROVE  /\ \A supports : Cardinality(VotesOnChain(events, m, supports)) \in Nat
         /\ Cardinality(EventsOf(events, "CashOutProposed", m)) \in Nat
<1>1. IsFiniteSet(ToSet(events))
  BY FiniteToSet
<1>2. ASSUME NEW supports
      PROVE  Cardinality(VotesOnChain(events, m, supports)) \in Nat
  <2>1. VotesOnChain(events, m, supports) \subseteq ToSet(events)
    BY DEF VotesOnChain
  <2>. QED  BY <1>1, <2>1, FS_Subset, FS_CardinalityType
<1>3. EventsOf(events, "CashOutProposed", m) \subseteq ToSet(events)
  BY DEF EventsOf
<1>4. Cardinality(EventsOf(events, "CashOutProposed", m)) \in Nat
  BY <1>1, <1>3, FS_Subset, FS_CardinalityType
<1>. QED  BY <1>2, <1>4

\* One, two or three events are a transaction's events.
LEMMA Tuples ==
  ASSUME NEW x \in Event, NEW y \in Event, NEW z \in Event
  PROVE  <<>> \in Seq(Event) /\ <<x>> \in Seq(Event) /\ <<x, y>> \in Seq(Event)
         /\ <<x, y, z>> \in Seq(Event)
OBVIOUS

\* What a transaction emits is a sequence of events, whatever came before it.
LEMMA AllowedEmitEvents ==
  ASSUME NEW events \in Seq(Event)
  PROVE  Allowed(events) \subseteq Seq(Event)
<1>1. Founder \in Account /\ MaxRequests \in Nat
  BY IndexerAssumption DEF IndexerAssumption
<1>2. RegisterTx(events) \subseteq Seq(Event)
  <2>1. \A m \in Mosque : Registered(m) \in Event
    BY DEF Event, Registered
  <2>2. \A m \in Mosque : <<Registered(m)>> \in Seq(Event)
    BY <2>1, Tuples
  <2>. QED  BY <2>2 DEF RegisterTx
<1>3. ASSUME NEW c \in Ballots(events)
      PROVE  /\ YesVote(events, c[1], c[2]) \in Event /\ NoVote(events, c[1], c[2]) \in Event
             /\ Rejected(c[1]) \in Event /\ Verified(c[1]) \in Event
             /\ BoardMemberUpdated(c[1], Founder, TRUE) \in Event
  <2>1. c[1] \in Mosque /\ c[2] \in Account
    BY DEF Ballots
  <2>. DEFINE yes == Cardinality(VotesOnChain(events, c[1], {TRUE}))
              no == Cardinality(VotesOnChain(events, c[1], {FALSE}))
  <2>2. yes \in Nat /\ no \in Nat
    BY Counted
  <2>. HIDE DEF yes, no
  <2>3. /\ Attested(c[1], c[2], TRUE, yes + 1, no) \in Event
        /\ Attested(c[1], c[2], FALSE, yes, no + 1) \in Event
    BY <2>1, <2>2 DEF Event, Attested
  <2>4. YesVote(events, c[1], c[2]) \in Event /\ NoVote(events, c[1], c[2]) \in Event
    BY <2>3 DEF YesVote, NoVote, yes, no
  <2>5. /\ Rejected(c[1]) \in Event /\ Verified(c[1]) \in Event
        /\ BoardMemberUpdated(c[1], Founder, TRUE) \in Event
    BY <1>1, <2>1 DEF Event, Rejected, Verified, BoardMemberUpdated
  <2>. QED  BY <2>4, <2>5
<1>4. VoteTx(events) \subseteq Seq(Event)
  <2>1. ASSUME NEW c \in Ballots(events)
        PROVE  /\ <<YesVote(events, c[1], c[2])>> \in Seq(Event)
               /\ <<NoVote(events, c[1], c[2])>> \in Seq(Event)
               /\ <<NoVote(events, c[1], c[2]), Rejected(c[1])>> \in Seq(Event)
    BY <1>3, Tuples
  <2>2. ASSUME NEW tx \in VoteTx(events)
        PROVE  tx \in Seq(Event)
    <3>1. PICK c \in Ballots(events) :
            tx \in { <<YesVote(events, c[1], c[2])>>, <<NoVote(events, c[1], c[2])>>,
                     <<NoVote(events, c[1], c[2]), Rejected(c[1])>> }
      BY <2>2, Zenon DEF VoteTx
    <3>. QED  BY <2>1, <3>1
  <2>. QED  BY <2>2
<1>5. VerifyTx(events) \subseteq Seq(Event)
  <2>1. \A c \in Ballots(events) :
          <<YesVote(events, c[1], c[2]), BoardMemberUpdated(c[1], Founder, TRUE), Verified(c[1])>>
            \in Seq(Event)
    BY <1>3, Tuples
  <2>. QED  BY <2>1 DEF VerifyTx
<1>6. StatusTx(events) \subseteq Seq(Event)
  <2>1. \A m \in Mosque, s \in {"verified", "flagged", "revoked"} : StatusUpdated(m, s) \in Event
    BY DEF Event, StatusUpdated
  <2>2. \A m \in Mosque, s \in {"verified", "flagged", "revoked"} :
          <<StatusUpdated(m, s)>> \in Seq(Event)
    BY <2>1, Tuples
  <2>. DEFINE next == [ verified |-> {"flagged", "revoked"}, flagged |-> {"verified", "revoked"} ]
  <2>3. ASSUME NEW tx \in StatusTx(events)
        PROVE  tx \in Seq(Event)
    <3>1. PICK m \in Mosque : /\ StatusOnChain(events, m) \in DOMAIN next
                             /\ tx \in { <<StatusUpdated(m, s)>> :
                                         s \in next[StatusOnChain(events, m)] }
      BY <2>3, Zenon DEF StatusTx
    <3>2. \A t \in DOMAIN next : next[t] \subseteq {"verified", "flagged", "revoked"}
      OBVIOUS
    <3>. HIDE DEF next
    <3>3. PICK s \in next[StatusOnChain(events, m)] : tx = <<StatusUpdated(m, s)>>
      BY <3>1
    <3>4. s \in {"verified", "flagged", "revoked"}
      BY <3>1, <3>2, <3>3
    <3>. QED  BY <2>2, <3>3, <3>4
  <2>. QED  BY <2>3
<1>7. VerifierTx(events) \subseteq Seq(Event)
  <2>1. \A a \in Account : VerifierAdded(a) \in Event /\ VerifierRemoved(a) \in Event
    BY DEF Event, VerifierAdded, VerifierRemoved
  <2>2. \A a \in Account :
          <<VerifierAdded(a)>> \in Seq(Event) /\ <<VerifierRemoved(a)>> \in Seq(Event)
    BY <2>1, Tuples
  <2>. QED  BY <2>2 DEF VerifierTx
<1>8. Deployed(events) \subseteq Mosque
  BY DEF Deployed
<1>9. DonateTx(events) \subseteq Seq(Event)
  <2>1. \A m \in Mosque : Donated(m) \in Event
    BY DEF Event, Donated
  <2>2. \A m \in Mosque : <<Donated(m)>> \in Seq(Event)
    BY <2>1, Tuples
  <2>. QED  BY <1>8, <2>2 DEF DonateTx
<1>10. ProposeTx(events) \subseteq Seq(Event)
  <2>1. ASSUME NEW m \in Mosque,
               Cardinality(EventsOf(events, "CashOutProposed", m)) < MaxRequests
        PROVE  <<Proposed(m, Cardinality(EventsOf(events, "CashOutProposed", m)) + 1)>>
                 \in Seq(Event)
    <3>. DEFINE o == Cardinality(EventsOf(events, "CashOutProposed", m))
    <3>1. o \in Nat /\ o < MaxRequests
      BY <2>1, Counted
    <3>. HIDE DEF o
    <3>2. o + 1 \in 1..MaxRequests
      BY <1>1, <3>1
    <3>3. Proposed(m, o + 1) \in Event
      BY <3>2 DEF Event, Proposed
    <3>4. <<Proposed(m, o + 1)>> \in Seq(Event)
      BY <3>3, Tuples
    <3>. QED  BY <3>4 DEF o
  <2>. QED  BY <1>8, <2>1 DEF ProposeTx
<1>11. RequestTx(events) \subseteq Seq(Event)
  <2>1. ASSUME NEW m \in Mosque, NEW r \in 1..MaxRequests
        PROVE  /\ <<Executed(m, r)>> \in Seq(Event) /\ <<Canceled(m, r)>> \in Seq(Event)
               /\ \A a \in Account : <<Approved(m, r, a)>> \in Seq(Event)
    <3>1. /\ Executed(m, r) \in Event /\ Canceled(m, r) \in Event
          /\ \A a \in Account : Approved(m, r, a) \in Event
      BY DEF Event, Executed, Canceled, Approved
    <3>. QED  BY <3>1, Tuples
  <2>2. ASSUME NEW tx \in RequestTx(events)
        PROVE  tx \in Seq(Event)
    <3>1. PICK q \in Deployed(events) \X (1..MaxRequests) :
            tx \in {<<Executed(q[1], q[2])>>, <<Canceled(q[1], q[2])>>}
                  \cup { <<Approved(q[1], q[2], a)>> :
                           a \in { x \in Account : Approved(q[1], q[2], x) \notin ToSet(events) } }
      BY <2>2, Zenon DEF RequestTx
    <3>2. q[1] \in Mosque /\ q[2] \in 1..MaxRequests
      BY <1>8
    <3>. QED  BY <2>1, <3>1, <3>2
  <2>. QED  BY <2>2
<1>12. BoardTx(events) \subseteq Seq(Event)
  <2>1. \A m \in Mosque, a \in Account, s \in BOOLEAN : BoardMemberUpdated(m, a, s) \in Event
    BY DEF Event, BoardMemberUpdated
  <2>2. \A m \in Mosque, a \in Account, s \in BOOLEAN :
          <<BoardMemberUpdated(m, a, s)>> \in Seq(Event)
    BY <2>1, Tuples
  <2>3. ASSUME NEW tx \in BoardTx(events)
        PROVE  tx \in Seq(Event)
    <3>1. PICK c \in Deployed(events) \X Account \X BOOLEAN :
            tx = <<BoardMemberUpdated(c[1], c[2], c[3])>>
      BY <2>3, Zenon DEF BoardTx
    <3>2. c[1] \in Mosque /\ c[2] \in Account /\ c[3] \in BOOLEAN
      BY <1>8
    <3>. QED  BY <2>2, <3>1, <3>2
  <2>. QED  BY <2>3
<1>13. <<>> \in Seq(Event)
  OBVIOUS
<1>14. ASSUME NEW tx \in Allowed(events)
       PROVE  \/ tx = <<>> \/ tx \in RegisterTx(events) \/ tx \in VoteTx(events)
              \/ tx \in VerifyTx(events) \/ tx \in StatusTx(events) \/ tx \in VerifierTx(events)
              \/ tx \in DonateTx(events) \/ tx \in ProposeTx(events) \/ tx \in RequestTx(events)
              \/ tx \in BoardTx(events)
  BY <1>14, Zenon DEF Allowed
<1>. QED  BY <1>2, <1>4, <1>5, <1>6, <1>7, <1>9, <1>10, <1>11, <1>12, <1>13, <1>14

\* Those this instance sends are among them.
LEMMA TransactionsAllowed ==
  ASSUME NEW events
  PROVE  Transactions(events) \subseteq Allowed(events)
<1>1. ASSUME NEW tx \in Transactions(events)
      PROVE  \/ tx = <<>> \/ tx \in RegisterTx(events) \/ tx \in VoteTx(events)
             \/ tx \in VerifyTx(events) \/ tx \in StatusTx(events) \/ tx \in VerifierTx(events)
             \/ tx \in DonateTx(events) \/ tx \in ProposeTx(events) \/ tx \in RequestTx(events)
             \/ tx \in BoardTx(events)
  BY <1>1, Zenon DEF Transactions
<1>2. ASSUME NEW tx \in Transactions(events)
      PROVE  tx \in Allowed(events)
  BY <1>1, Zenon DEF Allowed
<1>. QED  BY <1>2
----------------------------------------------------------------------------
(***************************************************************************)
(* What the contracts' rules make of a chain, whichever transactions it    *)
(* holds: a mosque is registered once and before anything else is said of  *)
(* it, an account votes once, and a vote carries the counts so far.        *)
(***************************************************************************)
Protocol == "MasjidProtocol"

Decisive == {"MasjidRegistered", "MasjidRejected", "MasjidVerified", "MasjidStatusUpdated"}

\* The events that decide a mosque's status.
Deciding(m) == { e \in Event : e.kind \in Decisive /\ e.masjidId = m }

LEMMA ProtocolKinds ==
  /\ Topics.MasjidProtocol = Decisive \cup {"MasjidAttested"} /\ "MasjidAttested" \notin Decisive
  /\ Topics[Protocol] = Topics.MasjidProtocol /\ Protocol \in Stream
BY DEF Topics, Decisive, Protocol, Stream

LEMMA SetsOfTuples ==
  /\ ToSet(<<>>) = {}
  /\ \A x : ToSet(<<x>>) = {x}
  /\ \A x, y : ToSet(<<x, y>>) = {x, y}
  /\ \A x, y, z : ToSet(<<x, y, z>>) = {x, y, z}
<1>1. ToSet(<<>>) = {}
  BY DEF ToSet
<1>2. \A x : ToSet(<<x>>) = {x}
  BY DEF ToSet
<1>3. \A x, y : ToSet(<<x, y>>) = {x, y}
  <2>1. SUFFICES ASSUME NEW x, NEW y PROVE ToSet(<<x, y>>) = {x, y}
    OBVIOUS
  <2>2. DOMAIN <<x, y>> = {1, 2}
    OBVIOUS
  <2>. QED  BY <2>2 DEF ToSet
<1>4. \A x, y, z : ToSet(<<x, y, z>>) = {x, y, z}
  <2>1. SUFFICES ASSUME NEW x, NEW y, NEW z PROVE ToSet(<<x, y, z>>) = {x, y, z}
    OBVIOUS
  <2>2. DOMAIN <<x, y, z>> = {1, 2, 3}
    OBVIOUS
  <2>. QED  BY <2>2 DEF ToSet
<1>. QED  BY <1>1, <1>2, <1>3, <1>4, Zenon

\* The last such event decides.
LEMMA StatusLast ==
  ASSUME NEW events \in Seq(Event), NEW m \in Mosque
  PROVE  \/ StatusOnChain(events, m) = "absent" /\ ToSet(events) \cap Deciding(m) = {}
         \/ \E e \in Deciding(m) : /\ LastIs(events, Deciding(m), e)
                                   /\ StatusOnChain(events, m) = StatusAfter(e)
<1>. DEFINE I == {i \in 1..Len(events) : /\ events[i].kind \in Topics.MasjidProtocol \ {"MasjidAttested"}
                                         /\ events[i].masjidId = m}
            last == IF I # {} THEN Max(I) ELSE 0
<1>1. StatusOnChain(events, m) = IF last = 0 THEN "absent" ELSE StatusAfter(events[last])
  BY DEF StatusOnChain, SelectLastInSeq
<1>2. /\ Len(events) \in Nat /\ DOMAIN events = 1..Len(events)
      /\ \A i \in 1..Len(events) : events[i] \in Event
  OBVIOUS
<1>3. I = {i \in 1..Len(events) : events[i] \in Deciding(m)}
  BY <1>2, ProtocolKinds DEF Deciding
<1>4. CASE I = {}
  <2>1. StatusOnChain(events, m) = "absent"
    BY <1>1, <1>4
  <2>2. \A i \in 1..Len(events) : events[i] \notin Deciding(m)
    BY <1>3, <1>4
  <2>. HIDE DEF I
  <2>3. ToSet(events) \cap Deciding(m) = {}
    BY <1>2, <2>2 DEF ToSet
  <2>. QED  BY <2>1, <2>3
<1>5. CASE I # {}
  <2>1. I \in SUBSET (1..Len(events))
    OBVIOUS
  <2>. HIDE DEF I
  <2>2. \E n \in I : \A k \in I : n >= k
    BY <1>2, <1>5, <2>1, GreatestIn
  <2>3. PICK n \in I : n = Max(I) /\ \A k \in I : n >= k
    BY <2>2 DEF Max
  <2>4. n \in 1..Len(events) /\ events[n] \in Deciding(m) /\ n # 0
    BY <1>2, <1>3, <2>3
  <2>5. ASSUME NEW j \in DOMAIN events, j > n
        PROVE  events[j] \notin Deciding(m)
    <3>1. j \in Nat /\ n \in Nat /\ j \in 1..Len(events)
      BY <1>2, <2>4
    <3>2. j \notin I
      BY <2>3, <2>5, <3>1
    <3>. QED  BY <1>3, <3>1, <3>2
  <2>6. LastIs(events, Deciding(m), events[n])
    BY <1>2, <2>4, <2>5 DEF LastIs
  <2>7. StatusOnChain(events, m) = StatusAfter(events[n])
    BY <1>1, <1>5, <2>3, <2>4
  <2>. QED  BY <2>4, <2>6, <2>7
<1>. QED  BY <1>4, <1>5

\* Only a registration makes a mosque pending, and no event makes it absent.
LEMMA StatusOfEvent ==
  ASSUME NEW m, NEW e \in Deciding(m)
  PROVE  /\ StatusAfter(e) # "absent"
         /\ StatusAfter(e) = "pending" <=> e.kind = "MasjidRegistered"
<1>1. e \in Event /\ e.kind \in Decisive
  BY DEF Deciding
<1>2. e.kind = "MasjidStatusUpdated" => e.status \in {"verified", "flagged", "revoked"}
  BY <1>1, EventFields
<1>. QED  BY <1>1, <1>2 DEF Decisive, StatusAfter

\* A mosque that has a status has an event that decided it.
LEMMA DecidedBefore ==
  ASSUME NEW events \in Seq(Event), NEW m \in Mosque
  PROVE  /\ StatusOnChain(events, m) # "absent" => ToSet(events) \cap Deciding(m) # {}
         /\ StatusOnChain(events, m) = "absent" => ToSet(events) \cap Deciding(m) = {}
         /\ StatusOnChain(events, m) = "pending" => Registered(m) \in ToSet(events)
<1>1. CASE StatusOnChain(events, m) = "absent" /\ ToSet(events) \cap Deciding(m) = {}
  BY <1>1
<1>2. CASE \E e \in Deciding(m) : /\ LastIs(events, Deciding(m), e)
                                  /\ StatusOnChain(events, m) = StatusAfter(e)
  <2>1. PICK e \in Deciding(m) : /\ LastIs(events, Deciding(m), e)
                                 /\ StatusOnChain(events, m) = StatusAfter(e)
    BY <1>2
  <2>2. e \in ToSet(events)
    BY <2>1 DEF LastIs, ToSet
  <2>3. e.kind = "MasjidRegistered" => e = Registered(m)
    BY EventFields DEF Deciding
  <2>. QED  BY <2>1, <2>2, <2>3, StatusOfEvent
<1>. QED  BY <1>1, <1>2, StatusLast

\* What a transaction says of a mosque it may say.
LEMMA SaidWhen ==
  ASSUME NEW events \in Seq(Event), NEW tx \in Allowed(events), NEW e \in ToSet(tx), e \in Event,
         e.kind \in Topics[Protocol]
  PROVE  LET m == e.masjidId IN
         \/ /\ e = Registered(m) /\ ToSet(tx) = {Registered(m)}
            /\ StatusOnChain(events, m) = "absent"
         \/ /\ e.kind = "MasjidAttested" /\ StatusOnChain(events, m) = "pending"
            /\ \A x \in VotesOnChain(events, m, BOOLEAN) : x.verifier # e.verifier
            /\ e \in {YesVote(events, m, e.verifier), NoVote(events, m, e.verifier)}
            /\ \A x \in ToSet(tx) : x.kind = "MasjidAttested" => x = e
         \/ e.kind \in {"MasjidRejected", "MasjidVerified"} /\ StatusOnChain(events, m) = "pending"
         \/ e.kind = "MasjidStatusUpdated" /\ StatusOnChain(events, m) \in {"verified", "flagged"}
<1>. DEFINE m == e.masjidId
<1>1. e.kind \in Decisive \cup {"MasjidAttested"}
  BY ProtocolKinds
<1>2. \/ tx = <<>> \/ tx \in RegisterTx(events) \/ tx \in VoteTx(events)
      \/ tx \in VerifyTx(events) \/ tx \in StatusTx(events) \/ tx \in VerifierTx(events)
      \/ tx \in DonateTx(events) \/ tx \in ProposeTx(events) \/ tx \in RequestTx(events)
      \/ tx \in BoardTx(events)
  BY Zenon DEF Allowed
<1>3. ASSUME tx \in RegisterTx(events)
      PROVE  /\ e = Registered(m) /\ ToSet(tx) = {Registered(m)}
             /\ StatusOnChain(events, m) = "absent"
  <2>1. PICK x \in Mosque : StatusOnChain(events, x) = "absent" /\ tx = <<Registered(x)>>
    BY <1>3 DEF RegisterTx
  <2>2. ToSet(tx) = {Registered(x)} /\ Registered(x).masjidId = x
    BY <2>1, SetsOfTuples DEF Registered
  <2>. QED  BY <2>1, <2>2
<1>4. ASSUME NEW c \in Ballots(events), NEW vote, vote \in {YesVote(events, c[1], c[2]),
                                                           NoVote(events, c[1], c[2])},
             \/ tx = <<vote>>
             \/ tx = <<vote, Rejected(c[1])>>
             \/ tx = <<vote, BoardMemberUpdated(c[1], Founder, TRUE), Verified(c[1])>>
      PROVE  \/ /\ e.kind = "MasjidAttested" /\ StatusOnChain(events, m) = "pending"
                /\ \A x \in VotesOnChain(events, m, BOOLEAN) : x.verifier # e.verifier
                /\ e \in {YesVote(events, m, e.verifier), NoVote(events, m, e.verifier)}
                /\ \A x \in ToSet(tx) : x.kind = "MasjidAttested" => x = e
             \/ /\ e.kind \in {"MasjidRejected", "MasjidVerified"}
                /\ StatusOnChain(events, m) = "pending"
  <2>1. /\ StatusOnChain(events, c[1]) = "pending"
        /\ \A x \in VotesOnChain(events, c[1], BOOLEAN) : x.verifier # c[2]
    BY DEF Ballots
  <2>2. /\ vote.kind = "MasjidAttested" /\ vote.masjidId = c[1] /\ vote.verifier = c[2]
    BY <1>4 DEF YesVote, NoVote, Attested
  <2>3. /\ Rejected(c[1]).kind = "MasjidRejected" /\ Rejected(c[1]).masjidId = c[1]
        /\ Verified(c[1]).kind = "MasjidVerified" /\ Verified(c[1]).masjidId = c[1]
        /\ BoardMemberUpdated(c[1], Founder, TRUE).kind = "BoardMemberUpdated"
    BY DEF Rejected, Verified, BoardMemberUpdated
  <2>4. ToSet(tx) \subseteq {vote, Rejected(c[1]), BoardMemberUpdated(c[1], Founder, TRUE),
                             Verified(c[1])}
    <3>. DEFINE r == Rejected(c[1])
                u == BoardMemberUpdated(c[1], Founder, TRUE)
                z == Verified(c[1])
                one == <<vote>>
                two == <<vote, r>>
                three == <<vote, u, z>>
    <3>1. tx = one \/ tx = two \/ tx = three
      BY <1>4
    <3>. HIDE DEF r, u, z
    <3>2. ToSet(one) = {vote} /\ ToSet(two) = {vote, r} /\ ToSet(three) = {vote, u, z}
      BY SetsOfTuples
    <3>. HIDE DEF one, two, three
    <3>3. ToSet(tx) \subseteq {vote, r, u, z}
      BY <3>1, <3>2
    <3>. QED  BY <3>3 DEF r, u, z
  <2>5. e \in {vote, Rejected(c[1]), Verified(c[1])}
    BY <1>1, <2>3, <2>4 DEF Decisive
  <2>6. \A x \in ToSet(tx) : x.kind = "MasjidAttested" => x = vote
    BY <2>3, <2>4
  <2>7. CASE e = vote
    BY <1>4, <2>1, <2>2, <2>6, <2>7
  <2>8. CASE e \in {Rejected(c[1]), Verified(c[1])}
    BY <2>1, <2>3, <2>8
  <2>. QED  BY <2>5, <2>7, <2>8
<1>5. ASSUME tx \in VoteTx(events)
      PROVE  \E c \in Ballots(events) :
               \E vote \in {YesVote(events, c[1], c[2]), NoVote(events, c[1], c[2])} :
                 tx = <<vote>> \/ tx = <<vote, Rejected(c[1])>>
  <2>1. PICK c \in Ballots(events) :
          tx \in { <<YesVote(events, c[1], c[2])>>, <<NoVote(events, c[1], c[2])>>,
                   <<NoVote(events, c[1], c[2]), Rejected(c[1])>> }
    BY <1>5, Zenon DEF VoteTx
  <2>. QED  BY <2>1, Zenon
<1>6. ASSUME tx \in VerifyTx(events)
      PROVE  \E c \in Ballots(events) :
               tx = <<YesVote(events, c[1], c[2]), BoardMemberUpdated(c[1], Founder, TRUE),
                      Verified(c[1])>>
  BY <1>6, Zenon DEF VerifyTx
<1>7. ASSUME tx \in StatusTx(events)
      PROVE  /\ e.kind = "MasjidStatusUpdated"
             /\ StatusOnChain(events, m) \in {"verified", "flagged"}
  <2>. DEFINE next == [ verified |-> {"flagged", "revoked"}, flagged |-> {"verified", "revoked"} ]
  <2>1. PICK x \in Mosque : /\ StatusOnChain(events, x) \in DOMAIN next
                            /\ tx \in { <<StatusUpdated(x, s)>> :
                                        s \in next[StatusOnChain(events, x)] }
    BY <1>7, Zenon DEF StatusTx
  <2>2. DOMAIN next = {"verified", "flagged"}
    OBVIOUS
  <2>. HIDE DEF next
  <2>3. PICK s : tx = <<StatusUpdated(x, s)>>
    BY <2>1
  <2>4. /\ ToSet(tx) = {StatusUpdated(x, s)} /\ StatusUpdated(x, s).masjidId = x
        /\ StatusUpdated(x, s).kind = "MasjidStatusUpdated"
    BY <2>3, SetsOfTuples DEF StatusUpdated
  <2>. QED  BY <2>1, <2>2, <2>4
<1>8. ASSUME \/ tx = <<>> \/ tx \in VerifierTx(events)
             \/ tx \in DonateTx(events) \/ tx \in ProposeTx(events) \/ tx \in RequestTx(events)
             \/ tx \in BoardTx(events)
      PROVE  FALSE
  <2>1. ASSUME NEW x, tx = <<x>>, x.kind \notin Decisive \cup {"MasjidAttested"}
        PROVE  FALSE
    <3>1. e = x
      BY <2>1, SetsOfTuples
    <3>. QED  BY <1>1, <2>1, <3>1
  <2>2. CASE tx = <<>>
    BY <2>2, SetsOfTuples
  <2>3. CASE tx \in VerifierTx(events)
    <3>1. PICK a : tx = <<VerifierAdded(a)>> \/ tx = <<VerifierRemoved(a)>>
      BY <2>3 DEF VerifierTx
    <3>2. /\ VerifierAdded(a).kind = "VerifierAdded" /\ VerifierRemoved(a).kind = "VerifierRemoved"
      BY DEF VerifierAdded, VerifierRemoved
    <3>. QED  BY <2>1, <3>1, <3>2 DEF Decisive
  <2>4. CASE tx \in DonateTx(events)
    <3>1. PICK a : tx = <<Donated(a)>>
      BY <2>4 DEF DonateTx
    <3>2. Donated(a).kind = "CashIn"
      BY DEF Donated
    <3>. QED  BY <2>1, <3>1, <3>2 DEF Decisive
  <2>5. CASE tx \in ProposeTx(events)
    <3>1. \E x \in Mosque : \E r : tx = <<Proposed(x, r)>>
      BY <2>5 DEF ProposeTx, Deployed
    <3>2. PICK x, r : tx = <<Proposed(x, r)>>
      BY <3>1
    <3>3. Proposed(x, r).kind = "CashOutProposed"
      BY DEF Proposed
    <3>. QED  BY <2>1, <3>2, <3>3 DEF Decisive
  <2>6. CASE tx \in RequestTx(events)
    <3>1. PICK q \in Deployed(events) \X (1..MaxRequests) :
            tx \in {<<Executed(q[1], q[2])>>, <<Canceled(q[1], q[2])>>}
                  \cup { <<Approved(q[1], q[2], a)>> :
                           a \in { x \in Account : Approved(q[1], q[2], x) \notin ToSet(events) } }
      BY <2>6, Zenon DEF RequestTx
    <3>2. \/ tx = <<Executed(q[1], q[2])>> \/ tx = <<Canceled(q[1], q[2])>>
          \/ \E a \in Account : tx = <<Approved(q[1], q[2], a)>>
      BY <3>1
    <3>3. /\ Executed(q[1], q[2]).kind = "CashOutExecuted"
          /\ Canceled(q[1], q[2]).kind = "CashOutCanceled"
          /\ \A a : Approved(q[1], q[2], a).kind = "CashOutApproved"
      BY DEF Executed, Canceled, Approved
    <3>. QED  BY <2>1, <3>2, <3>3 DEF Decisive
  <2>7. CASE tx \in BoardTx(events)
    <3>1. PICK c \in Deployed(events) \X Account \X BOOLEAN :
            tx = <<BoardMemberUpdated(c[1], c[2], c[3])>>
      BY <2>7, Zenon DEF BoardTx
    <3>2. BoardMemberUpdated(c[1], c[2], c[3]).kind = "BoardMemberUpdated"
      BY DEF BoardMemberUpdated
    <3>. QED  BY <2>1, <3>1, <3>2 DEF Decisive
  <2>. QED  BY <1>8, <2>2, <2>3, <2>4, <2>5, <2>6, <2>7
<1>9. CASE tx \in RegisterTx(events)
  BY <1>3, <1>9
<1>10. CASE tx \in VoteTx(events)
  BY <1>4, <1>5, <1>10
<1>11. CASE tx \in VerifyTx(events)
  BY <1>4, <1>6, <1>11
<1>12. CASE tx \in StatusTx(events)
  BY <1>7, <1>12
<1>. QED  BY <1>2, <1>8, <1>9, <1>10, <1>11, <1>12

\* The events of the blocks before one.
LEMMA Before ==
  ASSUME NEW c \in Seq(Seq(Event)), NEW k \in 1..Len(c)
  PROVE  /\ k - 1 \in 0..Len(c) /\ Events(c, k - 1) \in Seq(Event) /\ c[k] \in Seq(Event)
         /\ ToSet(c[k]) \subseteq Event
         /\ \A e : e \in ToSet(Events(c, k - 1)) <=> \E b \in 1..Len(c) : b < k /\ e \in ToSet(c[b])
<1>1. k - 1 \in 0..Len(c) /\ c[k] \in Seq(Event)
  OBVIOUS
<1>2. /\ Events(c, k - 1) \in Seq(Event)
      /\ ToSet(Events(c, k - 1)) = UNION {ToSet(c[b]) : b \in 1..(k - 1)}
  BY <1>1, EventsOfBlocks
<1>3. \A b : b \in 1..(k - 1) <=> b \in 1..Len(c) /\ b < k
  OBVIOUS
<1>4. ToSet(c[k]) \subseteq Event
  BY <1>1, FiniteToSet
<1>. QED  BY <1>1, <1>2, <1>3, <1>4

\* The mosque of an event of the protocol.
LEMMA OfMosque ==
  ASSUME NEW e \in Event, e.kind \in Topics[Protocol]
  PROVE  e.masjidId \in Mosque
BY EventFields, ProtocolKinds DEF Decisive

\* Nothing is said of a mosque before its registration.
LEMMA RegisteredBefore ==
  ASSUME NEW c \in Seq(Seq(Event)), Lawful(c), NEW k \in 1..Len(c), NEW e \in ToSet(c[k]),
         e.kind \in Topics[Protocol], e.kind # "MasjidRegistered"
  PROVE  \E b \in 1..Len(c) : b < k /\ Registered(e.masjidId) \in ToSet(c[b])
<1>. DEFINE m == e.masjidId
            First(j) == \E b \in 1..Len(c) : b < j /\ Registered(m) \in ToSet(c[b])
            late == {j \in 1..Len(c) : /\ ~First(j)
                                       /\ \E x \in ToSet(c[j]) : /\ x.kind \in Topics[Protocol]
                                                                 /\ x.kind # "MasjidRegistered"
                                                                 /\ x.masjidId = m}
<1>1. SUFFICES ASSUME late # {} PROVE FALSE
  OBVIOUS
<1>2. late \subseteq Nat
  OBVIOUS
<1>. HIDE DEF late
<1>3. PICK j \in late : \A i \in late : j <= i
  BY <1>1, <1>2, LeastNat
<1>. USE DEF late
<1>4. PICK x \in ToSet(c[j]) : /\ x.kind \in Topics[Protocol] /\ x.kind # "MasjidRegistered"
                               /\ x.masjidId = m
  BY <1>3
<1>5. j \in 1..Len(c) /\ ~First(j)
  BY <1>3
<1>. HIDE DEF late
<1>6. /\ Events(c, j - 1) \in Seq(Event) /\ x \in Event /\ m \in Mosque
      /\ \A y : y \in ToSet(Events(c, j - 1)) <=> \E b \in 1..Len(c) : b < j /\ y \in ToSet(c[b])
  BY <1>4, <1>5, Before, OfMosque
<1>7. c[j] \in Allowed(Events(c, j - 1))
  BY <1>5 DEF Lawful
<1>8. StatusOnChain(Events(c, j - 1), m) # "absent"
  <2>. HIDE DEF m
  <2>1. x # Registered(m)
    BY <1>4 DEF Registered
  <2>. QED  BY <1>4, <1>6, <1>7, <2>1, SaidWhen
<1>9. PICK y \in Deciding(m) : y \in ToSet(Events(c, j - 1))
  BY <1>6, <1>8, DecidedBefore
<1>10. PICK b \in 1..Len(c) : b < j /\ y \in ToSet(c[b])
  BY <1>6, <1>9
<1>11. y \in Event /\ y.kind \in Topics[Protocol] /\ y.masjidId = m
  BY <1>9, ProtocolKinds DEF Deciding
<1>12. CASE y.kind = "MasjidRegistered"
  <2>1. y = Registered(m)
    BY <1>11, <1>12, EventFields
  <2>. QED  BY <1>5, <1>10, <2>1
<1>13. CASE y.kind # "MasjidRegistered"
  <2>1. b \notin late
    BY <1>3, <1>5, <1>10
  <2>2. First(b)
    BY <1>10, <1>11, <1>13, <2>1 DEF late
  <2>3. First(j)
    BY <1>5, <1>10, <2>2
  <2>. QED  BY <1>5, <2>3
<1>. QED  BY <1>12, <1>13

\* It is registered once, alone in its block, and everything else said of it comes later.
LEMMA RegisteredFirst ==
  ASSUME NEW c \in Seq(Seq(Event)), Lawful(c), NEW m \in Mosque, NEW b \in 1..Len(c),
         Registered(m) \in ToSet(c[b]), NEW k \in 1..Len(c), NEW e \in ToSet(c[k]),
         e.kind \in Topics[Protocol], e.masjidId = m
  PROVE  b <= k /\ (e # Registered(m) => b < k) /\ (e = Registered(m) => b = k)
<1>1. ASSUME NEW i \in 1..Len(c), NEW j \in 1..Len(c), Registered(m) \in ToSet(c[i]),
             NEW x \in ToSet(c[j]), x.kind \in Topics[Protocol], x.masjidId = m
      PROVE  ~(j < i) /\ (j = i => x = Registered(m))
  <2>1. /\ Events(c, i - 1) \in Seq(Event) /\ Registered(m) \in Event
        /\ \A y : y \in ToSet(Events(c, i - 1)) <=> \E l \in 1..Len(c) : l < i /\ y \in ToSet(c[l])
        /\ c[i] \in Allowed(Events(c, i - 1))
    BY <1>1, Before DEF Lawful
  <2>2. /\ Registered(m).kind = "MasjidRegistered" /\ Registered(m).masjidId = m
        /\ "MasjidRegistered" \in Topics[Protocol]
    BY ProtocolKinds DEF Registered, Decisive
  <2>3. ToSet(c[i]) = {Registered(m)} /\ StatusOnChain(Events(c, i - 1), m) = "absent"
    <3>1. \/ ToSet(c[i]) = {Registered(m)} /\ StatusOnChain(Events(c, i - 1), m) = "absent"
          \/ Registered(m).kind \in {"MasjidAttested", "MasjidRejected", "MasjidVerified",
                                     "MasjidStatusUpdated"}
      BY <1>1, <2>1, <2>2, SaidWhen
    <3>. QED  BY <2>2, <3>1
  <2>4. ASSUME NEW l \in 1..Len(c), l < i, NEW y \in ToSet(c[l]), y \in Deciding(m)
        PROVE  FALSE
    BY <2>1, <2>3, <2>4, DecidedBefore
  <2>5. ASSUME j < i
        PROVE  FALSE
    <3>1. x \in Event
      BY Before
    <3>2. CASE x.kind \in Decisive
      BY <1>1, <2>4, <2>5, <3>1, <3>2 DEF Deciding
    <3>3. CASE x.kind \notin Decisive
      <4>1. PICK l \in 1..Len(c) : l < j /\ Registered(m) \in ToSet(c[l])
        BY <1>1, <3>3, RegisteredBefore DEF Decisive
      <4>2. l < i
        BY <2>5, <4>1
      <4>3. Registered(m) \in Deciding(m)
        BY <2>1, <2>2 DEF Deciding, Decisive
      <4>. QED  BY <2>4, <4>1, <4>2, <4>3
    <3>. QED  BY <3>2, <3>3
  <2>. QED  BY <2>3, <2>5
<1>2. ~(k < b) /\ (k = b => e = Registered(m))
  BY <1>1
<1>3. e = Registered(m) => ~(b < k)
  <2>1. "MasjidRegistered" \in Topics[Protocol]
    BY ProtocolKinds DEF Decisive
  <2>. QED  BY <1>1, <2>1 DEF Registered
<1>. QED  BY <1>2, <1>3

\* A vote of an account that has not voted, with the counts it makes.
LEMMA VoteWhen ==
  ASSUME NEW events \in Seq(Event), NEW tx \in Allowed(events), NEW e \in ToSet(tx), e \in Event,
         e.kind = "MasjidAttested"
  PROVE  /\ \A x \in VotesOnChain(events, e.masjidId, BOOLEAN) : x.verifier # e.verifier
         /\ e \in {YesVote(events, e.masjidId, e.verifier), NoVote(events, e.masjidId, e.verifier)}
         /\ \A x \in ToSet(tx) : x.kind = "MasjidAttested" => x = e
<1>. DEFINE m == e.masjidId
<1>1. e.kind \in Topics[Protocol]
  BY ProtocolKinds
<1>2. Registered(m).kind = "MasjidRegistered"
  BY DEF Registered
<1>3. e # Registered(m)
  BY <1>2
<1>. QED  BY <1>1, <1>3, SaidWhen

\* An account votes once on a mosque.
LEMMA VotesOnce ==
  ASSUME NEW c \in Seq(Seq(Event)), Lawful(c), NEW i \in 1..Len(c), NEW x \in ToSet(c[i]),
         NEW k \in 1..Len(c), NEW y \in ToSet(c[k]), x.kind = "MasjidAttested",
         y.kind = "MasjidAttested", x.masjidId = y.masjidId, x.verifier = y.verifier
  PROVE  x = y /\ i = k
<1>1. ASSUME NEW j \in 1..Len(c), NEW l \in 1..Len(c), NEW u \in ToSet(c[j]),
             NEW v \in ToSet(c[l]), u.kind = "MasjidAttested", v.kind = "MasjidAttested",
             u.masjidId = v.masjidId, u.verifier = v.verifier
      PROVE  ~(j < l) /\ (j = l => u = v)
  <2>1. /\ Events(c, l - 1) \in Seq(Event) /\ v \in Event /\ u \in Event
        /\ \A z : z \in ToSet(Events(c, l - 1)) <=> \E b \in 1..Len(c) : b < l /\ z \in ToSet(c[b])
        /\ c[l] \in Allowed(Events(c, l - 1)) /\ v.kind \in Topics[Protocol]
    BY <1>1, Before, ProtocolKinds DEF Lawful
  <2>2. /\ \A z \in VotesOnChain(Events(c, l - 1), v.masjidId, BOOLEAN) : z.verifier # v.verifier
        /\ \A z \in ToSet(c[l]) : z.kind = "MasjidAttested" => z = v
    BY <1>1, <2>1, VoteWhen
  <2>3. u.support \in BOOLEAN
    BY <1>1, <2>1, EventFields
  <2>4. j < l => u \in VotesOnChain(Events(c, l - 1), v.masjidId, BOOLEAN)
    BY <1>1, <2>1, <2>3 DEF VotesOnChain
  <2>. QED  BY <1>1, <2>2, <2>4
<1>2. ~(i < k) /\ ~(k < i) /\ (i = k => x = y)
  BY <1>1
<1>. QED  BY <1>2

\* The last vote carries the counts of all the votes there are.
LEMMA CountsOfLast ==
  ASSUME NEW c \in Seq(Seq(Event)), Lawful(c), NEW n \in 0..Len(c), NEW m \in Mosque, NEW P,
         { e \in Event : e.kind = "MasjidAttested" /\ e.masjidId = m } \subseteq P,
         NEW x, x.kind = "MasjidAttested", x.masjidId = m, LastIs(Events(c, n), P, x)
  PROVE  /\ x.yesCount = Cardinality(VotesOnChain(Events(c, n), m, {TRUE}))
         /\ x.noCount = Cardinality(VotesOnChain(Events(c, n), m, {FALSE}))
<1>1. PICK b \in 1..n : /\ LastIs(c[b], P, x)
                        /\ \A k \in 1..n : k > b => ToSet(c[k]) \cap P = {}
  BY LastOfBlocks
<1>2. b \in 1..Len(c) /\ \A k \in 1..n : k \in 1..Len(c) /\ (k < b \/ k = b \/ k > b)
  OBVIOUS
<1>3. x \in ToSet(c[b])
  BY <1>1 DEF LastIs, ToSet
<1>. DEFINE before == Events(c, b - 1)
            v == x.verifier
<1>4. /\ before \in Seq(Event) /\ x \in Event /\ c[b] \in Allowed(before)
      /\ \A y : y \in ToSet(before) <=> \E k \in 1..Len(c) : k < b /\ y \in ToSet(c[k])
      /\ x.kind \in Topics[Protocol]
  BY <1>2, <1>3, Before, ProtocolKinds DEF Lawful
<1>. HIDE DEF before, v
<1>5. /\ \A y \in VotesOnChain(before, m, BOOLEAN) : y.verifier # v
      /\ x \in {YesVote(before, m, v), NoVote(before, m, v)}
      /\ \A y \in ToSet(c[b]) : y.kind = "MasjidAttested" => y = x
  BY <1>3, <1>4, VoteWhen DEF v
<1>6. Events(c, n) \in Seq(Event) /\ ToSet(Events(c, n)) = UNION {ToSet(c[k]) : k \in 1..n}
  BY EventsOfBlocks
<1>7. ASSUME NEW s \in BOOLEAN
      PROVE  VotesOnChain(Events(c, n), m, {s})
               = VotesOnChain(before, m, {s}) \cup (IF x.support = s THEN {x} ELSE {})
  <2>1. ASSUME NEW y \in VotesOnChain(Events(c, n), m, {s})
        PROVE  y \in VotesOnChain(before, m, {s}) \cup (IF x.support = s THEN {x} ELSE {})
    <3>1. PICK k \in 1..n : y \in ToSet(c[k])
      BY <1>6 DEF VotesOnChain
    <3>2. y.kind = "MasjidAttested" /\ y.masjidId = m /\ y.support = s /\ y \in Event
      BY <1>2, <3>1, Before DEF VotesOnChain
    <3>3. y \in P
      BY <3>2
    <3>4. k < b \/ k = b
      BY <1>1, <1>2, <3>1, <3>3
    <3>5. CASE k < b
      <4>1. y \in ToSet(before)
        BY <1>2, <1>4, <3>1, <3>5
      <4>. QED  BY <3>2, <4>1 DEF VotesOnChain
    <3>6. CASE k = b
      BY <1>5, <3>1, <3>2, <3>6
    <3>. QED  BY <3>4, <3>5, <3>6
  <2>2. ASSUME NEW y \in VotesOnChain(before, m, {s})
        PROVE  y \in VotesOnChain(Events(c, n), m, {s})
    <3>1. PICK k \in 1..Len(c) : k < b /\ y \in ToSet(c[k])
      BY <1>4, <2>2 DEF VotesOnChain
    <3>2. k \in 1..n
      BY <1>2, <3>1
    <3>. QED  BY <1>6, <2>2, <3>1, <3>2 DEF VotesOnChain
  <2>3. x.support = s => x \in VotesOnChain(Events(c, n), m, {s})
    BY <1>3, <1>6 DEF VotesOnChain
  <2>. QED  BY <2>1, <2>2, <2>3
<1>8. ASSUME NEW s \in BOOLEAN
      PROVE  /\ IsFiniteSet(VotesOnChain(before, m, {s})) /\ x \notin VotesOnChain(before, m, {s})
             /\ Cardinality(VotesOnChain(before, m, {s}) \cup {x})
                  = Cardinality(VotesOnChain(before, m, {s})) + 1
  <2>1. IsFiniteSet(ToSet(before)) /\ VotesOnChain(before, m, {s}) \subseteq ToSet(before)
    BY <1>4, FiniteToSet DEF VotesOnChain
  <2>2. IsFiniteSet(VotesOnChain(before, m, {s}))
    BY <2>1, FS_Subset
  <2>3. x \notin VotesOnChain(before, m, {s})
    BY <1>5 DEF VotesOnChain, v
  <2>. QED  BY <2>2, <2>3, FS_AddElement
<1>9. CASE x = YesVote(before, m, v)
  <2>1. /\ x.support = TRUE /\ x.yesCount = Cardinality(VotesOnChain(before, m, {TRUE})) + 1
        /\ x.noCount = Cardinality(VotesOnChain(before, m, {FALSE}))
    BY <1>9 DEF YesVote, Attested
  <2>2. /\ VotesOnChain(Events(c, n), m, {TRUE}) = VotesOnChain(before, m, {TRUE}) \cup {x}
        /\ VotesOnChain(Events(c, n), m, {FALSE}) = VotesOnChain(before, m, {FALSE})
    BY <1>7, <2>1
  <2>. QED  BY <1>8, <2>1, <2>2
<1>10. CASE x = NoVote(before, m, v)
  <2>1. /\ x.support = FALSE /\ x.yesCount = Cardinality(VotesOnChain(before, m, {TRUE}))
        /\ x.noCount = Cardinality(VotesOnChain(before, m, {FALSE})) + 1
    BY <1>10 DEF NoVote, Attested
  <2>2. /\ VotesOnChain(Events(c, n), m, {TRUE}) = VotesOnChain(before, m, {TRUE})
        /\ VotesOnChain(Events(c, n), m, {FALSE}) = VotesOnChain(before, m, {FALSE}) \cup {x}
    BY <1>7, <2>1
  <2>. QED  BY <1>8, <2>1, <2>2
<1>. QED  BY <1>5, <1>9, <1>10

\* Chains that agree on their first blocks have the same events in them.
LEMMA SameEvents ==
  ASSUME NEW c \in Seq(Seq(Event)), NEW n \in 0..Len(c), NEW d \in Seq(Seq(Event)),
         n <= Len(d), \A b \in 1..n : d[b] = c[b]
  PROVE  Events(d, n) = Events(c, n)
<1>1. SubSeq(d, 1, n) = SubSeq(c, 1, n)
  OBVIOUS
<1>. QED  BY <1>1 DEF Events

\* Blocks are added and replaced as the contracts allow.
LEMMA StaysLawful ==
  ASSUME NEW c \in Seq(Seq(Event)), Lawful(c), NEW d \in Seq(Seq(Event)), NEW n \in 0..Len(c),
         Len(d) = n + 1, \A b \in 1..n : d[b] = c[b], d[n + 1] \in Allowed(Events(c, n))
  PROVE  Lawful(d)
<1>1. ASSUME NEW b \in 1..Len(d)
      PROVE  d[b] \in Allowed(Events(d, b - 1))
  <2>1. b - 1 \in 0..n /\ b - 1 \in 0..Len(c) /\ b - 1 <= Len(d) /\ 1..(b - 1) \subseteq 1..n
    OBVIOUS
  <2>2. Events(d, b - 1) = Events(c, b - 1)
    BY <2>1, SameEvents
  <2>3. CASE b \in 1..n
    <3>1. b \in 1..Len(c) /\ d[b] = c[b]
      BY <2>3
    <3>. QED  BY <2>2, <3>1 DEF Lawful
  <2>4. CASE b \notin 1..n
    <3>1. b = n + 1 /\ b - 1 = n
      BY <2>4
    <3>. QED  BY <2>2, <3>1
  <2>. QED  BY <2>3, <2>4
<1>. QED  BY <1>1 DEF Lawful
----------------------------------------------------------------------------
(***************************************************************************)
(* The handlers.  Logs is any set of logs that are on the chain for good;  *)
(* a table is real when each of its rows is about an event among them.     *)
(***************************************************************************)
Log == [event : Event, tx : Nat]

EventsIn(Logs) == { l.event : l \in Logs }

RealMasjids(masjids, Logs) ==
  \A m \in Mosque :
    /\ masjids[m].status # "absent" => Registered(m) \in EventsIn(Logs)
    /\ masjids[m].instanceAddr => Verified(m) \in EventsIn(Logs)

RealAttests(attests, Logs) ==
  \A r \in attests : \E e \in EventsIn(Logs) :
    /\ e.kind = "MasjidAttested" /\ e.masjidId = r.masjidId
    /\ e.support = r.support /\ e.verifier = r.verifier

RealVerifiers(verifiers, Logs) ==
  \A a \in Account : verifiers[a] # "absent" => VerifierAdded(a) \in EventsIn(Logs)

RealCashIns(cashIns, Logs) ==
  \A r \in cashIns : [event |-> Donated(r.instanceAddr), tx |-> r.tx] \in Logs

RealCashOuts(cashOuts, Logs) ==
  \A r \in cashOuts :
    /\ Proposed(r.instanceAddr, r.requestId) \in EventsIn(Logs)
    /\ r.executed => Executed(r.instanceAddr, r.requestId) \in EventsIn(Logs)
    /\ r.canceled => Canceled(r.instanceAddr, r.requestId) \in EventsIn(Logs)

RealVotes(votes, Logs) ==
  \A r \in votes : Approved(r.instanceAddr, r.requestId, r.approver) \in EventsIn(Logs)

Real(d, Logs) ==
  /\ RealMasjids(d.masjids, Logs) /\ RealAttests(d.attests, Logs)
  /\ RealVerifiers(d.verifiers, Logs) /\ RealCashIns(d.cashIns, Logs)
  /\ RealCashOuts(d.cashOuts, Logs) /\ RealVotes(d.cashOutVotes, Logs)

\* A table stays real when the chain goes on.
LEMMA RealGrows ==
  ASSUME NEW d, NEW Logs, NEW More, Logs \subseteq More, Real(d, Logs)
  PROVE  Real(d, More)
<1>1. EventsIn(Logs) \subseteq EventsIn(More)
  BY DEF EventsIn
<1>2. RealMasjids(d.masjids, More)
  BY <1>1 DEF Real, RealMasjids
<1>3. RealAttests(d.attests, More)
  BY <1>1 DEF Real, RealAttests
<1>4. RealVerifiers(d.verifiers, More)
  BY <1>1 DEF Real, RealVerifiers
<1>5. RealCashIns(d.cashIns, More)
  BY DEF Real, RealCashIns
<1>6. RealCashOuts(d.cashOuts, More)
  BY <1>1 DEF Real, RealCashOuts
<1>7. RealVotes(d.cashOutVotes, More)
  BY <1>1 DEF Real, RealVotes
<1>. QED  BY <1>2, <1>3, <1>4, <1>5, <1>6, <1>7 DEF Real

\* Setting the role of a user touches no other table.
LEMMA UsersOnly ==
  ASSUME NEW Logs, NEW d \in Tables, Real(d, Logs), NEW a \in Account, NEW role \in Role
  PROVE  /\ UpsertUser(d, a, role) \in Tables /\ Real(UpsertUser(d, a, role), Logs)
         /\ UpdateRole(d, a, role) \in Tables /\ Real(UpdateRole(d, a, role), Logs)
<1>1. UpsertUser(d, a, role) \in Tables /\ Real(UpsertUser(d, a, role), Logs)
  BY DEF UpsertUser, Tables, Real
<1>2. UpdateRole(d, a, role) \in {d, UpsertUser(d, a, role)}
  BY DEF UpdateRole, UpsertUser
<1>. QED  BY <1>1, <1>2

\* What a row of masjids can be.
MasjidRows ==
  [status : {"absent", "pending", "verified", "rejected", "flagged", "revoked"},
   masjidAdmin : Account, instanceAddr : BOOLEAN, attestYes : Nat, attestNo : Nat]

\* A statement that writes one mosque's row touches no other table.
LEMMA MasjidsOnly ==
  ASSUME NEW Logs, NEW d \in Tables, Real(d, Logs), NEW m \in Mosque,
         NEW row \in MasjidRows,
         Registered(m) \in EventsIn(Logs),
         row.instanceAddr => Verified(m) \in EventsIn(Logs)
  PROVE  /\ [d EXCEPT !.masjids[m] = row] \in Tables
         /\ Real([d EXCEPT !.masjids[m] = row], Logs)
<1>. DEFINE new == [d EXCEPT !.masjids[m] = row]
<1>1. /\ new.masjids = [d.masjids EXCEPT ![m] = row]
      /\ new.attests = d.attests /\ new.verifiers = d.verifiers /\ new.cashIns = d.cashIns
      /\ new.cashOuts = d.cashOuts /\ new.cashOutVotes = d.cashOutVotes
  BY DEF Tables
<1>2. new \in Tables
  BY DEF Tables, MasjidRows
<1>. HIDE DEF new
<1>3. RealMasjids(new.masjids, Logs)
  <2>1. \A x \in Mosque : new.masjids[x] = IF x = m THEN row ELSE d.masjids[x]
    BY <1>1 DEF Tables
  <2>. QED  BY <2>1 DEF Real, RealMasjids
<1>4. Real(new, Logs)
  BY <1>1, <1>3 DEF Real
<1>. QED  BY <1>2, <1>4 DEF new

\* A row of masjids is one of its type, and a row that is there is registered.
LEMMA MasjidRow ==
  ASSUME NEW Logs, NEW d \in Tables, Real(d, Logs), NEW m \in Mosque
  PROVE  /\ d.masjids[m] \in MasjidRows
         /\ d.masjids[m].status # "absent" => Registered(m) \in EventsIn(Logs)
         /\ d.masjids[m].instanceAddr => Verified(m) \in EventsIn(Logs)
BY DEF Tables, MasjidRows, Real, RealMasjids

\* A registration, a status and a decision leave every table real.
LEMMA RegisteredReal ==
  ASSUME NEW Logs, NEW d \in Tables, Real(d, Logs), NEW e \in Event, e \in EventsIn(Logs),
         e.kind = "MasjidRegistered"
  PROVE  HandleMasjidRegistered(d, e) \in Tables /\ Real(HandleMasjidRegistered(d, e), Logs)
<1>1. e.masjidId \in Mosque /\ e = Registered(e.masjidId)
  BY EventFields
<1>2. e.proposer = Founder /\ Founder \in Account
  BY <1>1, IndexerAssumption DEF Registered, IndexerAssumption
<1>. DEFINE row == [NoRow EXCEPT !.status = "pending", !.masjidAdmin = e.proposer]
<1>3. /\ row \in MasjidRows
      /\ ~row.instanceAddr
  BY <1>2 DEF NoRow, MasjidRows
<1>4. HandleMasjidRegistered(d, e) = [d EXCEPT !.masjids[e.masjidId] = row]
  BY DEF HandleMasjidRegistered
<1>. HIDE DEF row
<1>. QED  BY <1>1, <1>3, <1>4, MasjidsOnly

LEMMA StatusReal ==
  ASSUME NEW Logs, NEW d \in Tables, Real(d, Logs), NEW m \in Mosque,
         NEW status \in {"verified", "rejected", "flagged", "revoked"}
  PROVE  UpdateStatus(d, m, status) \in Tables /\ Real(UpdateStatus(d, m, status), Logs)
<1>1. CASE ~FindByID(d, m)
  BY <1>1 DEF UpdateStatus
<1>2. CASE FindByID(d, m)
  <2>. DEFINE row == [d.masjids[m] EXCEPT !.status = status]
  <2>1. d.masjids[m].status # "absent"
    BY <1>2 DEF FindByID
  <2>2. /\ row \in MasjidRows
        /\ row.instanceAddr => Verified(m) \in EventsIn(Logs)
        /\ Registered(m) \in EventsIn(Logs)
    BY <2>1, MasjidRow DEF MasjidRows
  <2>3. UpdateStatus(d, m, status) = [d EXCEPT !.masjids[m] = row]
    BY <1>2 DEF UpdateStatus
  <2>. HIDE DEF row
  <2>. QED  BY <2>2, <2>3, MasjidsOnly
<1>. QED  BY <1>1, <1>2

LEMMA VerifiedReal ==
  ASSUME NEW Logs, NEW d \in Tables, Real(d, Logs), NEW e \in Event, e \in EventsIn(Logs),
         e.kind = "MasjidVerified", NEW k \in 1..2
  PROVE  HandleMasjidVerified(d, e, k) \in Tables /\ Real(HandleMasjidVerified(d, e, k), Logs)
<1>. DEFINE m == e.masjidId
            row == [d.masjids[m] EXCEPT !.instanceAddr = TRUE, !.status = "verified"]
<1>1. m \in Mosque /\ Verified(m) \in EventsIn(Logs)
  BY EventFields
<1>. HIDE DEF m
<1>2. CASE ~FindByID(d, m)
  BY <1>2 DEF HandleMasjidVerified, UpdateVerified, m
<1>3. CASE FindByID(d, m) /\ k = 1
  <2>1. d.masjids[m].status # "absent"
    BY <1>3 DEF FindByID
  <2>2. /\ row \in MasjidRows
        /\ Registered(m) \in EventsIn(Logs)
    BY <1>1, <2>1, MasjidRow DEF MasjidRows
  <2>3. HandleMasjidVerified(d, e, k) = [d EXCEPT !.masjids[m] = row]
    BY <1>3 DEF HandleMasjidVerified, UpdateVerified, m
  <2>. HIDE DEF row
  <2>. QED  BY <1>1, <2>2, <2>3, MasjidsOnly
<1>4. CASE FindByID(d, m) /\ k = 2
  <2>1. d.masjids[m].masjidAdmin \in Account
    BY <1>1, MasjidRow DEF MasjidRows
  <2>2. HandleMasjidVerified(d, e, k) = UpsertUser(d, d.masjids[m].masjidAdmin, "board")
    BY <1>4 DEF HandleMasjidVerified, m
  <2>. QED  BY <2>1, <2>2, UsersOnly DEF Role
<1>. QED  BY <1>2, <1>3, <1>4

\* A vote is written for a mosque that is there, and its counts into the same row.
LEMMA AttestedReal ==
  ASSUME NEW Logs, NEW d \in Tables, Real(d, Logs), NEW e \in Event, e \in EventsIn(Logs),
         e.kind = "MasjidAttested", NEW k \in 1..2
  PROVE  HandleMasjidAttested(d, e, k) \in Tables /\ Real(HandleMasjidAttested(d, e, k), Logs)
<1>1. /\ e.masjidId \in Mosque /\ e.verifier \in Account /\ e.support \in BOOLEAN
      /\ e.yesCount \in Nat /\ e.noCount \in Nat
  BY EventFields
<1>2. CASE ~FindByID(d, e.masjidId)
  BY <1>2 DEF HandleMasjidAttested
<1>3. CASE FindByID(d, e.masjidId) /\ k = 1
  <2>. DEFINE vote == [masjidId |-> e.masjidId, verifier |-> e.verifier, support |-> e.support]
              kept == { r \in d.attests : ~(r.masjidId = e.masjidId /\ r.verifier = e.verifier) }
  <2>1. vote \in [masjidId : Mosque, verifier : Account, support : BOOLEAN]
    BY <1>1
  <2>2. HandleMasjidAttested(d, e, k) = [d EXCEPT !.attests = kept \cup {vote}]
    BY <1>3 DEF HandleMasjidAttested, UpsertAttest
  <2>3. RealAttests(kept \cup {vote}, Logs)
    <3>1. RealAttests(kept, Logs)
      BY DEF Real, RealAttests
    <3>2. RealAttests({vote}, Logs)
      BY <1>1 DEF RealAttests
    <3>. QED  BY <3>1, <3>2, Zenon DEF RealAttests
  <2>4. kept \cup {vote} \subseteq [masjidId : Mosque, verifier : Account, support : BOOLEAN]
    BY <2>1 DEF Tables
  <2>. HIDE DEF kept, vote
  <2>. QED  BY <2>2, <2>3, <2>4 DEF Tables, Real
<1>4. CASE FindByID(d, e.masjidId) /\ k = 2
  <2>. DEFINE before == d.masjids[e.masjidId]
              row == [before EXCEPT !.attestYes = e.yesCount, !.attestNo = e.noCount]
  <2>1. /\ before \in MasjidRows /\ Registered(e.masjidId) \in EventsIn(Logs)
        /\ before.instanceAddr => Verified(e.masjidId) \in EventsIn(Logs)
    BY <1>1, <1>4, MasjidRow DEF FindByID
  <2>. HIDE DEF before
  <2>2. row \in MasjidRows /\ row.instanceAddr = before.instanceAddr
    BY <1>1, <2>1 DEF MasjidRows
  <2>3. HandleMasjidAttested(d, e, k) = [d EXCEPT !.masjids[e.masjidId] = row]
    BY <1>4 DEF HandleMasjidAttested, UpdateAttestCounts, before
  <2>. HIDE DEF row
  <2>. QED  BY <1>1, <2>1, <2>2, <2>3, MasjidsOnly
<1>. QED  BY <1>2, <1>3, <1>4

\* Verifiers come and go, but only those the registry announced have a row.
LEMMA RegistryReal ==
  ASSUME NEW Logs, NEW d \in Tables, Real(d, Logs), NEW e \in Event, e \in EventsIn(Logs),
         NEW k \in 1..2
  PROVE  /\ e.kind = "VerifierAdded" =>
              HandleVerifierAdded(d, e, k) \in Tables /\ Real(HandleVerifierAdded(d, e, k), Logs)
         /\ e.kind = "VerifierRemoved" =>
              /\ HandleVerifierRemoved(d, e, k) \in Tables
              /\ Real(HandleVerifierRemoved(d, e, k), Logs)
<1>1. ASSUME NEW a \in Account, NEW status \in {"active", "inactive"},
             VerifierAdded(a) \in EventsIn(Logs)
      PROVE  /\ [d EXCEPT !.verifiers[a] = status] \in Tables
             /\ Real([d EXCEPT !.verifiers[a] = status], Logs)
  <2>. DEFINE new == [d EXCEPT !.verifiers[a] = status]
  <2>1. /\ new.verifiers = [d.verifiers EXCEPT ![a] = status]
        /\ new.masjids = d.masjids /\ new.attests = d.attests /\ new.cashIns = d.cashIns
        /\ new.cashOuts = d.cashOuts /\ new.cashOutVotes = d.cashOutVotes
    BY DEF Tables
  <2>2. new \in Tables
    BY DEF Tables
  <2>. HIDE DEF new
  <2>3. RealVerifiers(new.verifiers, Logs)
    <3>1. \A x \in Account : new.verifiers[x] = IF x = a THEN status ELSE d.verifiers[x]
      BY <2>1 DEF Tables
    <3>. QED  BY <1>1, <3>1 DEF Real, RealVerifiers
  <2>. QED  BY <2>1, <2>2, <2>3 DEF Real, new
<1>2. ASSUME e.kind = "VerifierAdded"
      PROVE  HandleVerifierAdded(d, e, k) \in Tables /\ Real(HandleVerifierAdded(d, e, k), Logs)
  <2>1. e.address \in Account /\ VerifierAdded(e.address) \in EventsIn(Logs)
    BY <1>2, EventFields
  <2>2. CASE k = 1
    BY <1>1, <2>1, <2>2 DEF HandleVerifierAdded, UpsertVerifier
  <2>3. CASE k = 2
    BY <2>1, <2>3, UsersOnly DEF HandleVerifierAdded, Role
  <2>. QED  BY <2>2, <2>3
<1>3. ASSUME e.kind = "VerifierRemoved"
      PROVE  HandleVerifierRemoved(d, e, k) \in Tables /\ Real(HandleVerifierRemoved(d, e, k), Logs)
  <2>1. e.address \in Account
    BY <1>3, EventFields
  <2>2. CASE k = 1
    <3>1. CASE d.verifiers[e.address] = "absent"
      BY <2>2, <3>1 DEF HandleVerifierRemoved, Deactivate
    <3>2. CASE d.verifiers[e.address] # "absent"
      <4>1. VerifierAdded(e.address) \in EventsIn(Logs)
        BY <2>1, <3>2 DEF Real, RealVerifiers
      <4>. QED  BY <1>1, <2>1, <2>2, <3>2, <4>1 DEF HandleVerifierRemoved, Deactivate
    <3>. QED  BY <3>1, <3>2
  <2>3. CASE k = 2
    BY <2>1, <2>3, UsersOnly DEF HandleVerifierRemoved, Role
  <2>. QED  BY <2>2, <2>3
<1>. QED  BY <1>2, <1>3

\* Donations: one row per transaction, that of the event.
LEMMA DonationReal ==
  ASSUME NEW Logs, NEW d \in Tables, Real(d, Logs), NEW e \in Event, NEW tx \in Nat,
         [event |-> e, tx |-> tx] \in Logs, e.kind = "CashIn"
  PROVE  HandleCashIn(d, e, tx) \in Tables /\ Real(HandleCashIn(d, e, tx), Logs)
<1>1. e.instance \in Mosque /\ e = Donated(e.instance)
  BY EventFields
<1>. DEFINE row == [tx |-> tx, instanceAddr |-> e.instance,
                    linked |-> FindByInstance(d, e.instance)]
            kept == { r \in d.cashIns : r.tx # tx }
<1>2. FindByInstance(d, e.instance) \in BOOLEAN
  BY <1>1, MasjidRow DEF FindByInstance, MasjidRows
<1>3. HandleCashIn(d, e, tx) = [d EXCEPT !.cashIns = kept \cup {row}]
  BY DEF HandleCashIn
<1>4. kept \cup {row} \subseteq [tx : Nat, instanceAddr : Mosque, linked : BOOLEAN]
  BY <1>1, <1>2 DEF Tables
<1>5. RealCashIns(kept, Logs) /\ RealCashIns({row}, Logs)
  BY <1>1 DEF Real, RealCashIns
<1>. HIDE DEF kept, row
<1>6. RealCashIns(kept \cup {row}, Logs)
  BY <1>5, Zenon DEF RealCashIns
<1>. QED  BY <1>3, <1>4, <1>6 DEF Tables, Real

\* Requests of an instance, their approvals and what became of them.
LEMMA RequestReal ==
  ASSUME NEW Logs, NEW d \in Tables, Real(d, Logs), NEW e \in Event, e \in EventsIn(Logs)
  PROVE  /\ e.kind = "CashOutProposed" =>
              HandleCashOutProposed(d, e) \in Tables /\ Real(HandleCashOutProposed(d, e), Logs)
         /\ e.kind = "CashOutApproved" =>
              HandleCashOutApproved(d, e) \in Tables /\ Real(HandleCashOutApproved(d, e), Logs)
         /\ e.kind = "CashOutExecuted" =>
              HandleCashOutExecuted(d, e) \in Tables /\ Real(HandleCashOutExecuted(d, e), Logs)
         /\ e.kind = "CashOutCanceled" =>
              HandleCashOutCanceled(d, e) \in Tables /\ Real(HandleCashOutCanceled(d, e), Logs)
<1>. DEFINE Rows == [instanceAddr : Mosque, requestId : 1..MaxRequests, linked : BOOLEAN,
                     executed : BOOLEAN, canceled : BOOLEAN]
            kept == d.cashOuts \ Requests(d, e)
<1>1. d.cashOuts \subseteq Rows /\ RealCashOuts(d.cashOuts, Logs)
  BY DEF Tables, Real
<1>2. kept \subseteq Rows /\ RealCashOuts(kept, Logs)
  BY <1>1 DEF RealCashOuts
<1>3. \A r \in Requests(d, e) :
        /\ r \in Rows /\ r.instanceAddr = e.instance /\ r.requestId = e.requestId
        /\ Proposed(r.instanceAddr, r.requestId) \in EventsIn(Logs)
        /\ r.executed => Executed(r.instanceAddr, r.requestId) \in EventsIn(Logs)
        /\ r.canceled => Canceled(r.instanceAddr, r.requestId) \in EventsIn(Logs)
  BY <1>1 DEF Requests, RealCashOuts
<1>4. ASSUME NEW new, new \subseteq Rows, RealCashOuts(new, Logs)
      PROVE  /\ [d EXCEPT !.cashOuts = kept \cup new] \in Tables
             /\ Real([d EXCEPT !.cashOuts = kept \cup new], Logs)
  <2>1. kept \cup new \subseteq Rows /\ RealCashOuts(kept \cup new, Logs)
    BY <1>2, <1>4, Zenon DEF RealCashOuts
  <2>. HIDE DEF kept
  <2>. QED  BY <2>1 DEF Tables, Real
<1>5. ASSUME e.kind = "CashOutProposed"
      PROVE  HandleCashOutProposed(d, e) \in Tables /\ Real(HandleCashOutProposed(d, e), Logs)
  <2>. DEFINE row == [instanceAddr |-> e.instance, requestId |-> e.requestId,
                      linked |-> FindByInstance(d, e.instance), executed |-> FALSE,
                      canceled |-> FALSE]
  <2>1. /\ e.instance \in Mosque /\ e.requestId \in 1..MaxRequests
        /\ e = Proposed(e.instance, e.requestId)
    BY <1>5, EventFields
  <2>2. FindByInstance(d, e.instance) \in BOOLEAN
    BY <2>1, MasjidRow DEF FindByInstance, MasjidRows
  <2>3. {row} \subseteq Rows /\ RealCashOuts({row}, Logs)
    BY <2>1, <2>2 DEF RealCashOuts
  <2>4. HandleCashOutProposed(d, e) = [d EXCEPT !.cashOuts = kept \cup {row}]
    BY DEF HandleCashOutProposed
  <2>. HIDE DEF row, kept
  <2>. QED  BY <1>4, <2>3, <2>4
<1>6. ASSUME e.kind = "CashOutExecuted"
      PROVE  HandleCashOutExecuted(d, e) \in Tables /\ Real(HandleCashOutExecuted(d, e), Logs)
  <2>. DEFINE new == { [r EXCEPT !.executed = TRUE] : r \in Requests(d, e) }
  <2>1. e = Executed(e.instance, e.requestId)
    BY <1>6, EventFields
  <2>2. new \subseteq Rows
    BY <1>3
  <2>3. RealCashOuts(new, Logs)
    <3>1. \A r \in Requests(d, e) :
            /\ [r EXCEPT !.executed = TRUE].instanceAddr = r.instanceAddr
            /\ [r EXCEPT !.executed = TRUE].requestId = r.requestId
            /\ [r EXCEPT !.executed = TRUE].canceled = r.canceled
      BY <1>3
    <3>. QED  BY <1>3, <2>1, <3>1 DEF RealCashOuts
  <2>4. HandleCashOutExecuted(d, e) = [d EXCEPT !.cashOuts = kept \cup new]
    BY DEF HandleCashOutExecuted
  <2>. HIDE DEF new, kept
  <2>. QED  BY <1>4, <2>2, <2>3, <2>4
<1>7. ASSUME e.kind = "CashOutCanceled"
      PROVE  HandleCashOutCanceled(d, e) \in Tables /\ Real(HandleCashOutCanceled(d, e), Logs)
  <2>. DEFINE new == { [r EXCEPT !.canceled = TRUE] : r \in Requests(d, e) }
  <2>1. e = Canceled(e.instance, e.requestId)
    BY <1>7, EventFields
  <2>2. new \subseteq Rows
    BY <1>3
  <2>3. RealCashOuts(new, Logs)
    <3>1. \A r \in Requests(d, e) :
            /\ [r EXCEPT !.canceled = TRUE].instanceAddr = r.instanceAddr
            /\ [r EXCEPT !.canceled = TRUE].requestId = r.requestId
            /\ [r EXCEPT !.canceled = TRUE].executed = r.executed
      BY <1>3
    <3>. QED  BY <1>3, <2>1, <3>1 DEF RealCashOuts
  <2>4. HandleCashOutCanceled(d, e) = [d EXCEPT !.cashOuts = kept \cup new]
    BY DEF HandleCashOutCanceled
  <2>. HIDE DEF new, kept
  <2>. QED  BY <1>4, <2>2, <2>3, <2>4
<1>8. ASSUME e.kind = "CashOutApproved"
      PROVE  HandleCashOutApproved(d, e) \in Tables /\ Real(HandleCashOutApproved(d, e), Logs)
  <2>. DEFINE row == [instanceAddr |-> e.instance, requestId |-> e.requestId,
                      approver |-> e.approver]
  <2>1. /\ e.instance \in Mosque /\ e.requestId \in 1..MaxRequests /\ e.approver \in Account
        /\ e = Approved(e.instance, e.requestId, e.approver)
    BY <1>8, EventFields
  <2>2. row \in [instanceAddr : Mosque, requestId : 1..MaxRequests, approver : Account]
    BY <2>1
  <2>3. RealVotes({row}, Logs) /\ RealVotes(d.cashOutVotes, Logs)
    BY <2>1 DEF Real, RealVotes
  <2>. HIDE DEF row
  <2>4. RealVotes(d.cashOutVotes \cup {row}, Logs)
    BY <2>3, Zenon DEF RealVotes
  <2>5. /\ [d EXCEPT !.cashOutVotes = d.cashOutVotes \cup {row}] \in Tables
        /\ Real([d EXCEPT !.cashOutVotes = d.cashOutVotes \cup {row}], Logs)
    BY <2>2, <2>4 DEF Tables, Real
  <2>6. HandleCashOutApproved(d, e) \in {d, [d EXCEPT !.cashOutVotes = d.cashOutVotes \cup {row}]}
    BY DEF HandleCashOutApproved, row
  <2>. QED  BY <2>5, <2>6
<1>. QED  BY <1>5, <1>6, <1>7, <1>8

\* Board members have rows of the table's type; no other table is touched.
LEMMA BoardReal ==
  ASSUME NEW Logs, NEW d \in Tables, Real(d, Logs), NEW e \in Event,
         e.kind = "BoardMemberUpdated", NEW k \in 1..2
  PROVE  /\ HandleBoardMemberUpdated(d, e, k) \in Tables
         /\ Real(HandleBoardMemberUpdated(d, e, k), Logs)
<1>1. e.instance \in Mosque /\ e.member \in Account
  BY EventFields
<1>2. CASE k = 1
  <2>. DEFINE row == [memberAddr |-> e.member, instanceAddr |-> e.instance, isActive |-> TRUE]
              kept == { r \in d.boardMembers :
                          ~(r.memberAddr = e.member /\ r.instanceAddr = e.instance) }
  <2>1. /\ kept \subseteq d.boardMembers
        /\ d.boardMembers \subseteq
             [memberAddr : Account, instanceAddr : Mosque, isActive : BOOLEAN]
        /\ row \in [memberAddr : Account, instanceAddr : Mosque, isActive : BOOLEAN]
    BY <1>1 DEF Tables
  <2>2. HandleBoardMemberUpdated(d, e, k) = [d EXCEPT !.boardMembers = kept \cup {row}]
    BY <1>2 DEF HandleBoardMemberUpdated, UpsertBoardMember, IsActiveWritten
  <2>. HIDE DEF row, kept
  <2>. QED  BY <2>1, <2>2 DEF Tables, Real
<1>3. CASE k = 2
  <2>1. PICK role \in Role : HandleBoardMemberUpdated(d, e, k) = UpsertUser(d, e.member, role)
    BY <1>3 DEF HandleBoardMemberUpdated, Role
  <2>. QED  BY <1>1, <2>1, UsersOnly
<1>. QED  BY <1>2, <1>3

\* Whatever a handler does with a log of the chain, the tables keep their types and stay real.
LEMMA HandlersReal ==
  ASSUME NEW Logs, NEW d \in Tables, Real(d, Logs), NEW e \in Event, NEW tx \in Nat,
         [event |-> e, tx |-> tx] \in Logs, NEW k \in 1..2
  PROVE  Handle(d, e, k, tx) \in Tables /\ Real(Handle(d, e, k, tx), Logs)
<1>1. e \in EventsIn(Logs)
  BY DEF EventsIn
<1>2. CASE e.kind = "MasjidRegistered"
  BY <1>1, <1>2, RegisteredReal DEF Handle
<1>3. CASE e.kind = "MasjidAttested"
  BY <1>1, <1>3, AttestedReal DEF Handle
<1>4. CASE e.kind = "MasjidRejected"
  <2>1. e.masjidId \in Mosque
    BY <1>4, EventFields
  <2>. QED  BY <1>4, <2>1, StatusReal DEF Handle, HandleMasjidRejected
<1>5. CASE e.kind = "MasjidVerified"
  BY <1>1, <1>5, VerifiedReal DEF Handle
<1>6. CASE e.kind = "MasjidStatusUpdated"
  <2>1. e.masjidId \in Mosque /\ e.status \in {"verified", "flagged", "revoked"}
    BY <1>6, EventFields
  <2>. QED  BY <1>6, <2>1, StatusReal DEF Handle, HandleStatus
<1>7. CASE e.kind = "VerifierAdded"
  BY <1>1, <1>7, RegistryReal DEF Handle
<1>8. CASE e.kind = "VerifierRemoved"
  BY <1>1, <1>8, RegistryReal DEF Handle
<1>9. CASE e.kind = "CashIn"
  BY <1>9, DonationReal DEF Handle
<1>10. CASE e.kind = "CashOutProposed"
  BY <1>1, <1>10, RequestReal DEF Handle
<1>11. CASE e.kind = "CashOutApproved"
  BY <1>1, <1>11, RequestReal DEF Handle
<1>12. CASE e.kind = "CashOutExecuted"
  BY <1>1, <1>12, RequestReal DEF Handle
<1>13. CASE e.kind = "CashOutCanceled"
  BY <1>1, <1>13, RequestReal DEF Handle
<1>14. CASE e.kind = "BoardMemberUpdated"
  BY <1>14, BoardReal DEF Handle
<1>15. \/ e.kind \in {"MasjidRegistered", "MasjidAttested", "MasjidRejected", "MasjidVerified",
                      "MasjidStatusUpdated", "VerifierAdded", "VerifierRemoved"}
       \/ e.kind \in {"CashIn", "CashOutProposed", "CashOutApproved", "CashOutExecuted",
                      "CashOutCanceled", "BoardMemberUpdated"}
  BY DEF Event
<1>. QED
  BY <1>2, <1>3, <1>4, <1>5, <1>6, <1>7, <1>8, <1>9, <1>10, <1>11, <1>12, <1>13, <1>14, <1>15
----------------------------------------------------------------------------
(* The logs of the chain that a tick may handle *)

\* The logs of the first n blocks of a chain, and those that can no longer be replaced.
LogsIn(c, n) == UNION { { [event |-> e, tx |-> b] : e \in ToSet(c[b]) } : b \in 1..n }

FinalLogs == LogsIn(chain, SafeHead)

\* Every event of such a block has its log.
LEMMA LogOfBlock ==
  ASSUME NEW c, NEW n, NEW b \in 1..n, NEW e \in ToSet(c[b])
  PROVE  [event |-> e, tx |-> b] \in LogsIn(c, n)
<1>. DEFINE Of(x) == { [event |-> y, tx |-> x] : y \in ToSet(c[x]) }
<1>1. [event |-> e, tx |-> b] \in Of(b)
  OBVIOUS
<1>2. LogsIn(c, n) = UNION { Of(x) : x \in 1..n }
  BY DEF LogsIn
<1>. HIDE DEF Of
<1>. QED  BY <1>1, <1>2

\* They are the events of those blocks, each with its block.
LEMMA LogsAreEvents ==
  ASSUME NEW c \in Seq(Seq(Event)), NEW n \in 0..Len(c)
  PROVE  /\ LogsIn(c, n) \subseteq Log
         /\ EventsIn(LogsIn(c, n)) = ToSet(Events(c, n))
         /\ \A l \in LogsIn(c, n) : l.tx \in 1..n /\ l.event \in ToSet(c[l.tx])
<1>1. \A b \in 1..n : c[b] \in Seq(Event) /\ ToSet(c[b]) \subseteq Event
  <2>1. \A b \in 1..n : c[b] \in Seq(Event)
    OBVIOUS
  <2>. QED  BY <2>1, FiniteToSet
<1>2. LogsIn(c, n) \subseteq Log
  BY <1>1 DEF LogsIn, Log
<1>3. \A l \in LogsIn(c, n) : l.tx \in 1..n /\ l.event \in ToSet(c[l.tx])
  BY DEF LogsIn
<1>4. EventsIn(LogsIn(c, n)) = UNION {ToSet(c[b]) : b \in 1..n}
  <2>1. EventsIn(LogsIn(c, n)) \subseteq UNION {ToSet(c[b]) : b \in 1..n}
    BY <1>3 DEF EventsIn
  <2>2. ASSUME NEW b \in 1..n, NEW e \in ToSet(c[b])
        PROVE  e \in EventsIn(LogsIn(c, n))
    <3>1. [event |-> e, tx |-> b] \in LogsIn(c, n)
      BY LogOfBlock
    <3>. QED  BY <3>1 DEF EventsIn
  <2>. QED  BY <2>1, <2>2
<1>. QED  BY <1>2, <1>3, <1>4, EventsOfBlocks

\* The head that is not final is the last block.
LEMMA SafeHeadType ==
  ASSUME chain \in Seq(Seq(Event))
  PROVE  /\ SafeHead \in 0..Len(chain) /\ SafeHead \in Nat /\ Len(chain) \in Nat
         /\ Len(chain) >= 1 => SafeHead = Len(chain) - 1
<1>. DEFINE o == Len(chain)
<1>1. o \in Nat
  OBVIOUS
<1>2. SafeHead = IF o < 2 THEN 0 ELSE o - 1
  BY DEF SafeHead
<1>. HIDE DEF o
<1>3. SafeHead \in 0..o /\ SafeHead \in Nat /\ (o >= 1 => SafeHead = o - 1)
  BY <1>1, <1>2
<1>. QED  BY <1>1, <1>3 DEF o

\* A row that is about a final log is no phantom.
LEMMA RealIsNoPhantom ==
  ASSUME chain \in Seq(Seq(Event)), db \in Tables, Real(db, FinalLogs)
  PROVE  NoPhantomRows
<1>1. SafeHead \in 0..Len(chain)
  BY SafeHeadType
<1>2. /\ EventsIn(FinalLogs) = ToSet(Final)
      /\ \A l \in FinalLogs : l.tx \in 1..SafeHead /\ l.event \in ToSet(chain[l.tx])
  BY <1>1, LogsAreEvents DEF FinalLogs, Final
<1>3. ASSUME NEW r \in db.cashIns
      PROVE  r.tx <= SafeHead /\ Donated(r.instanceAddr) \in ToSet(chain[r.tx])
  <2>1. [event |-> Donated(r.instanceAddr), tx |-> r.tx] \in FinalLogs
    BY DEF Real, RealCashIns
  <2>2. r.tx \in 1..SafeHead /\ Donated(r.instanceAddr) \in ToSet(chain[r.tx])
    BY <1>2, <2>1
  <2>. QED  BY <1>1, <2>2
<1>4. ASSUME NEW r \in db.attests
      PROVE  \E e \in VotesOnChain(Final, r.masjidId, {r.support}) : e.verifier = r.verifier
  BY <1>2 DEF Real, RealAttests, VotesOnChain
<1>5. \A m \in Mosque :
        /\ db.masjids[m].status # "absent" => Registered(m) \in ToSet(Final)
        /\ db.masjids[m].instanceAddr => Verified(m) \in ToSet(Final)
  BY <1>2 DEF Real, RealMasjids
<1>6. \A a \in Account : db.verifiers[a] # "absent" => VerifierAdded(a) \in ToSet(Final)
  BY <1>2 DEF Real, RealVerifiers
<1>7. \A r \in db.cashOuts :
        /\ Proposed(r.instanceAddr, r.requestId) \in ToSet(Final)
        /\ r.executed => Executed(r.instanceAddr, r.requestId) \in ToSet(Final)
        /\ r.canceled => Canceled(r.instanceAddr, r.requestId) \in ToSet(Final)
  BY <1>2 DEF Real, RealCashOuts
<1>8. \A r \in db.cashOutVotes : Approved(r.instanceAddr, r.requestId, r.approver) \in ToSet(Final)
  BY <1>2 DEF Real, RealVotes
<1>. QED  BY <1>3, <1>4, <1>5, <1>6, <1>7, <1>8, Zenon DEF NoPhantomRows

\* eth_getLogs up to the last final block returns final logs.
LEMMA GetLogsFinal ==
  ASSUME chain \in Seq(Seq(Event)), NEW first \in Nat \ {0}, NEW last \in Nat,
         first <= last, last <= SafeHead
  PROVE  GetLogs(first, last) \in Seq(FinalLogs)
<1>1. SafeHead \in Nat /\ SafeHead \in 0..Len(chain)
  BY SafeHeadType
<1>2. ASSUME NEW b \in 1..SafeHead
      PROVE  LogsOf(b) \in Seq(FinalLogs)
  <2>. DEFINE At(i) == [event |-> chain[b][i], tx |-> b]
              Found(i) == IF Watched(chain[b][i]) THEN <<At(i)>> ELSE <<>>
  <2>1. chain[b] \in Seq(Event)
    BY <1>1
  <2>2. ASSUME NEW i \in DOMAIN chain[b]
        PROVE  Found(i) \in Seq(FinalLogs)
    <3>1. chain[b][i] \in ToSet(chain[b])
      BY DEF ToSet
    <3>2. At(i) \in FinalLogs
      BY <3>1, LogOfBlock DEF FinalLogs
    <3>3. <<At(i)>> \in Seq(FinalLogs) /\ <<>> \in Seq(FinalLogs)
      BY <3>2
    <3>. QED  BY <3>3
  <2>3. DOMAIN chain[b] = 1..Len(chain[b]) /\ Len(chain[b]) \in Nat
    BY <2>1
  <2>. HIDE DEF Found
  <2>4. [i \in DOMAIN chain[b] |-> Found(i)] \in Seq(Seq(FinalLogs))
    BY <2>2, <2>3
  <2>5. FlattenSeq([i \in DOMAIN chain[b] |-> Found(i)]) \in Seq(FinalLogs)
    BY <2>4, Flattened
  <2>. QED  BY <2>5, Zenon DEF LogsOf, Found
<1>. DEFINE n == last - first + 1
<1>3. n \in Nat /\ \A i \in 1..n : first + i - 1 \in 1..SafeHead
  BY <1>1
<1>4. \A i \in 1..n : LogsOf(first + i - 1) \in Seq(FinalLogs)
  BY <1>2, <1>3
<1>. HIDE DEF n
<1>5. [i \in 1..n |-> LogsOf(first + i - 1)] \in Seq(Seq(FinalLogs))
  BY <1>3, <1>4
<1>6. FlattenSeq([i \in 1..n |-> LogsOf(first + i - 1)]) \in Seq(FinalLogs)
  BY <1>5, Flattened
<1>. QED  BY <1>6 DEF GetLogs, n
----------------------------------------------------------------------------
(***************************************************************************)
(* The inductive invariant.  NoPhantomRows is not inductive: a handler     *)
(* writes what its log says, so the logs a pass still holds must be final  *)
(* too, and for that the chunk it reads must start at a block, and the     *)
(* process must hold a log when it handles one.                            *)
(***************************************************************************)
PassAndStep ==
  /\ pass = "idle" <=> step = "none"
  /\ step = "fetch" => from # 0
  /\ step = "handle" => logs # <<>>

IInv ==
  /\ TypeOK
  /\ PassAndStep
  /\ logs \in Seq(FinalLogs)
  /\ Real(db, FinalLogs)

LEMMA InitHolds ==
  ASSUME Init
  PROVE  IInv
<1>. USE DEF Init
<1>1. /\ chain \in Seq(Seq(Event)) /\ Len(chain) \in 0..MaxBlocks
      /\ Founder \in Account /\ MaxFaults \in Nat
  BY IndexerAssumption DEF IndexerAssumption
<1>2. SafeHead \in Nat
  BY <1>1, SafeHeadType
<1>3. db \in Tables
  BY <1>1 DEF EmptyTables, NoRow, Tables
<1>4. checkpoint \in [Stream -> 0..SafeHead]
  BY <1>2
<1>5. TypeOK
  BY <1>1, <1>2, <1>3, <1>4 DEF TypeOK
<1>6. PassAndStep
  BY DEF PassAndStep
<1>7. Real(db, FinalLogs)
  BY DEF EmptyTables, NoRow, Real, RealMasjids, RealAttests, RealVerifiers, RealCashIns,
         RealCashOuts, RealVotes
<1>. QED  BY <1>5, <1>6, <1>7 DEF IInv

\* What a chain keeps that goes on without replacing a final block.
LEMMA ChainGoesOn ==
  ASSUME IInv, chain' \in Seq(Seq(Event)), Len(chain') \in 0..MaxBlocks, SafeHead <= SafeHead',
         \A b \in 1..SafeHead : chain'[b] = chain[b],
         UNCHANGED <<storedVars, processVars, faultVars>>
  PROVE  IInv'
<1>. USE DEF storedVars, processVars, faultVars
<1>1. chain \in Seq(Seq(Event))
  BY DEF IInv, TypeOK
<1>. DEFINE old == SafeHead
            new == SafeHead'
<1>2. old \in Nat
  BY <1>1, SafeHeadType
<1>3. new \in Nat
  <2>1. \/ new = 0
        \/ new = Len(chain') - 1 /\ ~(Len(chain') < 2)
    BY DEF SafeHead
  <2>2. Len(chain') \in Nat
    OBVIOUS
  <2>. HIDE DEF new
  <2>. QED  BY <2>1, <2>2
<1>4. old <= new
  OBVIOUS
<1>5. \A b \in 1..old : chain'[b] = chain[b]
  OBVIOUS
<1>. HIDE DEF old, new
<1>6. 0..old \subseteq 0..new /\ 1..old \subseteq 1..new
  BY <1>2, <1>3, <1>4
<1>7. FinalLogs \subseteq FinalLogs'
  <2>1. FinalLogs = LogsIn(chain, old)
    BY DEF FinalLogs, old
  <2>2. FinalLogs' = LogsIn(chain', new)
    BY DEF FinalLogs, new
  <2>3. ASSUME NEW l \in LogsIn(chain, old)
        PROVE  l \in LogsIn(chain', new)
    <3>1. PICK b \in 1..old : \E e \in ToSet(chain[b]) : l = [event |-> e, tx |-> b]
      BY <2>3 DEF LogsIn
    <3>2. PICK e \in ToSet(chain[b]) : l = [event |-> e, tx |-> b]
      BY <3>1
    <3>3. b \in 1..new /\ e \in ToSet(chain'[b])
      BY <1>5, <1>6
    <3>. QED  BY <3>2, <3>3, LogOfBlock
  <2>. QED  BY <2>1, <2>2, <2>3
<1>8. logs' \in Seq(FinalLogs')
  BY <1>7 DEF IInv
<1>9. Real(db', FinalLogs')
  <2>1. Real(db, FinalLogs)
    BY DEF IInv
  <2>2. Real(db, FinalLogs')
    BY <1>7, <2>1, RealGrows
  <2>. QED  BY <2>2
<1>10. checkpoint' \in [Stream -> 0..new] /\ safeHead' \in 0..new
  BY <1>6 DEF IInv, TypeOK, old
<1>11. TypeOK'
  BY <1>10 DEF IInv, TypeOK, new
<1>12. PassAndStep'
  BY DEF IInv, PassAndStep
<1>. QED  BY <1>8, <1>9, <1>11, <1>12 DEF IInv

\* A new block, or another block in place of the head.
LEMMA ChainSteps ==
  ASSUME IInv, ChainStep \/ ReorgStep
  PROVE  /\ chain' \in Seq(Seq(Event)) /\ Len(chain') \in 0..MaxBlocks /\ SafeHead <= SafeHead'
         /\ \A b \in 1..SafeHead : chain'[b] = chain[b]
         /\ UNCHANGED <<storedVars, processVars, faultVars>>
<1>. DEFINE Goal == /\ chain' \in Seq(Seq(Event)) /\ Len(chain') \in 0..MaxBlocks
                    /\ SafeHead <= SafeHead' /\ \A b \in 1..SafeHead : chain'[b] = chain[b]
                    /\ UNCHANGED <<storedVars, processVars, faultVars>>
<1>1. /\ chain \in Seq(Seq(Event)) /\ Len(chain) \in 0..MaxBlocks /\ Len(Genesis) \in Nat
      /\ SafeHead \in 0..Len(chain) /\ SafeHead \in Nat
  BY IndexerAssumption, SafeHeadType DEF IInv, TypeOK, IndexerAssumption
<1>2. ASSUME NEW tx \in Transactions(Events(chain, Len(chain))), Grow(tx)
      PROVE  Goal
  <2>1. Events(chain, Len(chain)) \in Seq(Event)
    BY <1>1, EventsOfBlocks
  <2>2. tx \in Seq(Event)
    BY <2>1, AllowedEmitEvents, TransactionsAllowed
  <2>3. /\ Len(chain) < MaxBlocks /\ chain' = Append(chain, tx)
        /\ UNCHANGED <<storedVars, processVars, faultVars>>
    BY <1>2 DEF Grow
  <2>4. /\ chain' \in Seq(Seq(Event)) /\ Len(chain') = Len(chain) + 1
        /\ \A b \in 1..Len(chain) : chain'[b] = chain[b]
    BY <1>1, <2>2, <2>3
  <2>. DEFINE n == Len(chain)
              new == SafeHead'
  <2>5. n \in Nat /\ n + 1 \in 0..MaxBlocks
    BY <1>1, <2>3, IndexerAssumption DEF IndexerAssumption
  <2>6. new = IF n + 1 < 2 THEN 0 ELSE (n + 1) - 1
    BY <2>4 DEF SafeHead
  <2>7. SafeHead = IF n < 2 THEN 0 ELSE n - 1
    BY DEF SafeHead
  <2>. HIDE DEF n, new
  <2>8. SafeHead <= new /\ 1..SafeHead \subseteq 1..n
    BY <2>5, <2>6, <2>7
  <2>9. Len(chain') \in 0..MaxBlocks
    BY <2>4, <2>5 DEF n
  <2>10. SafeHead <= SafeHead' /\ \A b \in 1..SafeHead : chain'[b] = chain[b]
    BY <2>4, <2>8 DEF n, new
  <2>. QED  BY <2>3, <2>4, <2>9, <2>10
<1>3. ASSUME NEW tx \in Transactions(Events(chain, Len(chain) - 1)), Reorg(tx)
      PROVE  Goal
  <2>1. /\ Len(chain) > Len(Genesis) /\ chain' = [chain EXCEPT ![Len(chain)] = tx]
        /\ UNCHANGED <<storedVars, processVars, faultVars>>
    BY <1>3 DEF Reorg
  <2>2. Len(chain) \in Nat /\ Len(chain) >= 1 /\ Len(chain) - 1 \in 0..Len(chain)
    BY <1>1, <2>1
  <2>3. Events(chain, Len(chain) - 1) \in Seq(Event)
    BY <1>1, <2>2, EventsOfBlocks
  <2>4. tx \in Seq(Event)
    BY <2>3, AllowedEmitEvents, TransactionsAllowed
  <2>5. /\ chain' \in Seq(Seq(Event)) /\ Len(chain') = Len(chain)
        /\ \A b \in 1..Len(chain) : b # Len(chain) => chain'[b] = chain[b]
    BY <1>1, <2>1, <2>4
  <2>6. SafeHead' = SafeHead
    BY <2>5 DEF SafeHead
  <2>7. SafeHead = Len(chain) - 1
    BY <1>1, <2>2, SafeHeadType
  <2>8. \A b \in 1..SafeHead : b \in 1..Len(chain) /\ b # Len(chain)
    BY <2>2, <2>7
  <2>9. \A b \in 1..SafeHead : chain'[b] = chain[b]
    BY <2>5, <2>8
  <2>10. SafeHead <= SafeHead'
    BY <1>1, <2>6
  <2>. QED  BY <1>1, <2>1, <2>5, <2>9, <2>10
<1>. QED  BY <1>2, <1>3 DEF ChainStep, ReorgStep

LEMMA ChainKeeps ==
  ASSUME IInv, ChainStep \/ ReorgStep
  PROVE  IInv'
BY ChainSteps, ChainGoesOn

\* What a step of the process must establish while the chain stands still.
LEMMA ProcessGoesOn ==
  ASSUME IInv, UNCHANGED chainVars, db' \in Tables, Real(db', FinalLogs),
         checkpoint' \in [Stream -> 0..SafeHead], pass' \in Stream \cup {"idle"},
         step' \in {"none", "enter", "fetch", "handle", "save", "waiting"},
         safeHead' \in 0..SafeHead, from' \in 0..safeHead', to' \in 0..safeHead',
         logs' \in Seq(FinalLogs), statement' \in 1..2, instances' \subseteq Mosque,
         failed' \subseteq Fault, faults' \in 0..MaxFaults, PassAndStep'
  PROVE  IInv'
<1>1. chain' = chain
  BY DEF chainVars
<1>2. SafeHead' = SafeHead /\ FinalLogs' = FinalLogs
  BY <1>1 DEF SafeHead, FinalLogs
<1>3. chain \in Seq(Seq(Event)) /\ Len(chain) \in 0..MaxBlocks
  BY DEF IInv, TypeOK
<1>4. TypeOK'
  BY <1>1, <1>2, <1>3 DEF TypeOK
<1>. QED  BY <1>2, <1>4 DEF IInv

\* One fault more.
LEMMA FaultsTyped ==
  ASSUME IInv, NEW kind, Fails(kind) \/ UNCHANGED faultVars
  PROVE  failed' \subseteq Fault /\ faults' \in 0..MaxFaults
<1>1. failed \subseteq Fault /\ faults \in 0..MaxFaults /\ MaxFaults \in Nat
  BY IndexerAssumption DEF IInv, TypeOK, IndexerAssumption
<1>2. CASE Fails(kind)
  <2>1. /\ kind \in Fault /\ faults < MaxFaults
        /\ failed' = failed \cup {kind} /\ faults' = faults + 1
    BY <1>2 DEF Fails
  <2>2. failed' \subseteq Fault
    BY <1>1, <2>1
  <2>3. faults' \in 0..MaxFaults
    BY <1>1, <2>1
  <2>. QED  BY <2>2, <2>3
<1>3. CASE UNCHANGED faultVars
  BY <1>1, <1>3 DEF faultVars
<1>. QED  BY <1>2, <1>3

\* The end of a pass leads to the next one, or out of the tick.
LEMMA EndPassTyped ==
  ASSUME IInv, EndPass, pass # "idle"
  PROVE  /\ pass' \in Stream \cup {"idle"} /\ step' \in {"none", "enter"}
         /\ pass' = "idle" <=> step' = "none"
         /\ safeHead' \in 0..SafeHead /\ from' \in 0..safeHead' /\ to' \in 0..safeHead'
         /\ instances' \subseteq Mosque
<1>1. Stream = {"MasjidProtocol", "VerifierRegistry", "MasjidInstance"}
  BY DEF Stream, Topics
<1>2. pass \in Stream /\ SafeHead \in Nat /\ safeHead \in 0..SafeHead
  BY SafeHeadType DEF IInv, TypeOK
<1>3. /\ pass' = PassAfter[pass] /\ step' = IF pass = "MasjidInstance" THEN "none" ELSE "enter"
      /\ safeHead' = IF pass = "MasjidInstance" THEN 0 ELSE safeHead
      /\ from' = 0 /\ to' = 0 /\ instances' = {}
  BY DEF EndPass
<1>4. /\ pass' \in Stream \cup {"idle"} /\ step' \in {"none", "enter"}
      /\ pass' = "idle" <=> step' = "none"
  BY <1>1, <1>2, <1>3 DEF PassAfter
<1>5. safeHead' \in 0..SafeHead /\ safeHead' \in Nat
  BY <1>2, <1>3
<1>6. from' \in 0..safeHead' /\ to' \in 0..safeHead'
  BY <1>3, <1>5
<1>. QED  BY <1>3, <1>4, <1>5, <1>6

\* What holds in every state, for the steps of the process.
LEMMA StateOf ==
  ASSUME IInv
  PROVE  /\ db \in Tables /\ Real(db, FinalLogs) /\ logs \in Seq(FinalLogs)
         /\ checkpoint \in [Stream -> 0..SafeHead] /\ pass \in Stream \cup {"idle"}
         /\ step \in {"none", "enter", "fetch", "handle", "save", "waiting"}
         /\ SafeHead \in Nat /\ safeHead \in 0..SafeHead /\ safeHead \in Nat
         /\ from \in 0..safeHead /\ to \in 0..safeHead /\ statement \in 1..2
         /\ instances \subseteq Mosque /\ failed \subseteq Fault /\ faults \in 0..MaxFaults
         /\ pass = "idle" <=> step = "none"
         /\ step = "fetch" => from # 0
         /\ step = "handle" => logs # <<>>
<1>1. SafeHead \in Nat
  BY SafeHeadType DEF IInv, TypeOK
<1>. QED  BY <1>1 DEF IInv, TypeOK, PassAndStep

LEMMA BeginTickKeeps ==
  ASSUME IInv, BeginTick
  PROVE  IInv'
<1>1. /\ pass' = "MasjidProtocol" /\ step' = "enter" /\ safeHead' = SafeHead
      /\ UNCHANGED <<chainVars, storedVars, from, to, logs, statement, instances, faultVars>>
  BY DEF BeginTick
<1>2. "MasjidProtocol" \in Stream
  BY DEF Stream, Topics
<1>3. safeHead' \in 0..SafeHead /\ from' \in 0..safeHead' /\ to' \in 0..safeHead'
  BY <1>1, StateOf
<1>4. PassAndStep'
  BY <1>1 DEF PassAndStep
<1>. QED  BY <1>1, <1>2, <1>3, <1>4, StateOf, ProcessGoesOn DEF storedVars, faultVars

\* A pass starts at a block, or is over.
LEMMA StartAtTyped ==
  ASSUME IInv, NEW block \in Nat \ {0}, StartAt(block), pass # "idle"
  PROVE  /\ pass' \in Stream \cup {"idle"} /\ step' \in {"none", "enter", "fetch"}
         /\ pass' = "idle" <=> step' = "none"
         /\ step' = "fetch" => from' # 0
         /\ safeHead' \in 0..SafeHead /\ from' \in 0..safeHead' /\ to' \in 0..safeHead'
         /\ instances' \subseteq Mosque
<1>1. CASE EndPass
  BY <1>1, EndPassTyped
<1>2. CASE ~EndPass
  <2>1. /\ block <= safeHead /\ step' = "fetch" /\ from' = block
        /\ instances' \in {ListInstanceAddresses(db), {}}
        /\ UNCHANGED <<pass, safeHead, to>>
    BY <1>2 DEF StartAt
  <2>2. ListInstanceAddresses(db) \subseteq Mosque
    BY DEF ListInstanceAddresses
  <2>3. from' \in 0..safeHead' /\ from' # 0
    BY <2>1, StateOf
  <2>. QED  BY <2>1, <2>2, <2>3, StateOf
<1>. QED  BY <1>1, <1>2

LEMMA EnterPassKeeps ==
  ASSUME IInv, EnterPass
  PROVE  IInv'
<1>1. step = "enter" /\ UNCHANGED <<chainVars, storedVars, logs, statement>>
  BY DEF EnterPass
<1>2. pass \in Stream
  BY <1>1, StateOf
<1>3. checkpoint[pass] \in Nat
  BY <1>2, StateOf
<1>4. /\ EndPass \/ StartAt(checkpoint[pass] + 1) \/ StartAt(1)
      /\ Fails("checkpointRead") \/ UNCHANGED faultVars
  BY DEF EnterPass
<1>5. checkpoint[pass] + 1 \in Nat \ {0} /\ 1 \in Nat \ {0} /\ pass # "idle"
  BY <1>1, <1>3, StateOf
<1>6. /\ pass' \in Stream \cup {"idle"} /\ step' \in {"none", "enter", "fetch"}
      /\ pass' = "idle" <=> step' = "none"
      /\ step' = "fetch" => from' # 0
      /\ safeHead' \in 0..SafeHead /\ from' \in 0..safeHead' /\ to' \in 0..safeHead'
      /\ instances' \subseteq Mosque
  BY <1>4, <1>5, EndPassTyped, StartAtTyped
<1>7. failed' \subseteq Fault /\ faults' \in 0..MaxFaults
  BY <1>4, FaultsTyped
<1>8. PassAndStep'
  BY <1>6 DEF PassAndStep
<1>. QED  BY <1>1, <1>6, <1>7, <1>8, StateOf, ProcessGoesOn DEF storedVars

LEMMA FetchKeeps ==
  ASSUME IInv, Fetch
  PROVE  IInv'
<1>1. step = "fetch" /\ UNCHANGED <<chainVars, storedVars, statement>>
  BY DEF Fetch
<1>2. pass # "idle" /\ from \in Nat \ {0} /\ from <= safeHead
  BY <1>1, StateOf
<1>. DEFINE last == ChunkEnd(from)
<1>3. CASE /\ to' = last /\ logs' = GetLogs(from, last)
           /\ step' = IF logs' = <<>> THEN "save" ELSE "handle"
           /\ UNCHANGED <<pass, safeHead, from, instances, faultVars>>
  <2>1. last \in Nat /\ from <= last /\ last <= safeHead
    BY <1>2, StateOf, IndexerAssumption DEF ChunkEnd, IndexerAssumption
  <2>. HIDE DEF last
  <2>2. last <= SafeHead
    BY <2>1, StateOf
  <2>3. GetLogs(from, last) \in Seq(FinalLogs)
    BY <1>2, <2>1, <2>2, GetLogsFinal DEF IInv, TypeOK
  <2>4. to' \in 0..safeHead'
    BY <1>3, <2>1, StateOf
  <2>5. PassAndStep'
    BY <1>1, <1>2, <1>3 DEF PassAndStep
  <2>. QED  BY <1>1, <1>3, <2>3, <2>4, <2>5, StateOf, ProcessGoesOn DEF storedVars, faultVars
<1>4. CASE Fails(LogsFault[pass]) /\ EndPass /\ UNCHANGED logs
  <2>1. /\ pass' \in Stream \cup {"idle"} /\ step' \in {"none", "enter"}
        /\ pass' = "idle" <=> step' = "none"
        /\ safeHead' \in 0..SafeHead /\ from' \in 0..safeHead' /\ to' \in 0..safeHead'
        /\ instances' \subseteq Mosque
    BY <1>2, <1>4, EndPassTyped
  <2>2. failed' \subseteq Fault /\ faults' \in 0..MaxFaults
    BY <1>4, FaultsTyped
  <2>3. PassAndStep'
    BY <2>1 DEF PassAndStep
  <2>. QED  BY <1>1, <1>4, <2>1, <2>2, <2>3, StateOf, ProcessGoesOn DEF storedVars
<1>. QED  BY <1>3, <1>4 DEF Fetch

\* Taking the first log leaves final logs, and one of them to handle if there is any.
LEMMA NextLogTyped ==
  ASSUME IInv, step = "handle", NextLog
  PROVE  /\ logs' \in Seq(FinalLogs) /\ statement' \in 1..2 /\ step' \in {"save", "handle"}
         /\ step' = "handle" => logs' # <<>>
<1>1. logs \in Seq(FinalLogs) /\ logs # <<>>
  BY StateOf
<1>. DEFINE others == Tail(logs)
            one == Len(logs) = 1
<1>2. others \in Seq(FinalLogs) /\ (~one => others # <<>>)
  BY <1>1, TailOf
<1>3. logs' = others /\ statement' = 1 /\ step' = IF one THEN "save" ELSE "handle"
  BY DEF NextLog
<1>. HIDE DEF others, one
<1>. QED  BY <1>2, <1>3

LEMMA HandleLogKeeps ==
  ASSUME IInv, HandleLog
  PROVE  IInv'
<1>1. step = "handle" /\ UNCHANGED <<chainVars, checkpoint, pass, safeHead, from, to, instances>>
  BY DEF HandleLog
<1>2. logs \in Seq(FinalLogs) /\ logs # <<>>
  BY <1>1, StateOf
<1>3. Head(logs) \in FinalLogs
  BY <1>2
<1>. DEFINE e == Head(logs).event
            tx == Head(logs).tx
            after == Handle(db, e, statement, tx)
<1>4. FinalLogs \subseteq Log
  BY SafeHeadType, LogsAreEvents DEF FinalLogs, IInv, TypeOK
<1>5. e \in Event /\ tx \in Nat /\ [event |-> e, tx |-> tx] \in FinalLogs
  BY <1>3, <1>4 DEF Log
<1>. HIDE DEF e, tx
<1>6. after \in Tables /\ Real(after, FinalLogs)
  BY <1>5, StateOf, HandlersReal
<1>7. db' \in {db, after} /\ (Fails("handler") \/ UNCHANGED faultVars)
  BY DEF HandleLog, e, tx
<1>8. /\ logs' \in Seq(FinalLogs) /\ statement' \in 1..2 /\ step' \in {"save", "handle"}
      /\ step' = "handle" => logs' # <<>>
  <2>1. CASE NextLog
    BY <1>1, <2>1, NextLogTyped
  <2>2. CASE ~NextLog
    <3>1. statement < Statements(e) /\ statement' = statement + 1 /\ UNCHANGED <<logs, step>>
      BY <2>2 DEF HandleLog, e
    <3>2. Statements(e) \in 1..2
      BY DEF Statements
    <3>3. statement' \in 1..2
      BY <3>1, <3>2, StateOf
    <3>. QED  BY <1>1, <1>2, <3>1, <3>3
  <2>. QED  BY <2>1, <2>2
<1>. HIDE DEF after
<1>9. db' \in Tables /\ Real(db', FinalLogs)
  BY <1>6, <1>7, StateOf
<1>10. failed' \subseteq Fault /\ faults' \in 0..MaxFaults
  BY <1>7, FaultsTyped
<1>11. PassAndStep'
  BY <1>1, <1>8, StateOf DEF PassAndStep
<1>. QED  BY <1>1, <1>8, <1>9, <1>10, <1>11, StateOf, ProcessGoesOn

LEMMA SaveCheckpointKeeps ==
  ASSUME IInv, SaveCheckpoint
  PROVE  IInv'
<1>1. step = "save" /\ NextChunk /\ UNCHANGED <<chainVars, db, logs, statement>>
  BY DEF SaveCheckpoint
<1>2. pass # "idle" /\ to \in 0..SafeHead
  BY <1>1, StateOf
<1>3. /\ checkpoint' \in {checkpoint, [checkpoint EXCEPT ![pass] = to]}
      /\ Fails("checkpointWrite") \/ UNCHANGED faultVars
  BY DEF SaveCheckpoint
<1>4. checkpoint' \in [Stream -> 0..SafeHead]
  BY <1>2, <1>3, StateOf
<1>5. failed' \subseteq Fault /\ faults' \in 0..MaxFaults
  BY <1>3, FaultsTyped
<1>6. /\ pass' \in Stream \cup {"idle"} /\ step' \in {"none", "enter", "fetch"}
      /\ pass' = "idle" <=> step' = "none"
      /\ step' = "fetch" => from' # 0
      /\ safeHead' \in 0..SafeHead /\ from' \in 0..safeHead' /\ to' \in 0..safeHead'
      /\ instances' \subseteq Mosque
  <2>1. CASE EndPass
    BY <1>2, <2>1, EndPassTyped
  <2>2. CASE ~EndPass
    <3>1. /\ to + 1 <= safeHead /\ step' = "fetch" /\ from' = to + 1 /\ to' = 0
          /\ UNCHANGED <<pass, safeHead, instances>>
      BY <1>1, <2>2 DEF NextChunk
    <3>2. from' \in 0..safeHead' /\ from' # 0 /\ to' \in 0..safeHead'
      BY <3>1, StateOf
    <3>. QED  BY <1>2, <3>1, <3>2, StateOf
  <2>. QED  BY <2>1, <2>2
<1>7. PassAndStep'
  BY <1>6 DEF PassAndStep
<1>. QED  BY <1>1, <1>4, <1>5, <1>6, <1>7, StateOf, ProcessGoesOn

LEMMA HangKeeps ==
  ASSUME IInv, Hang
  PROVE  IInv'
<1>1. /\ step \in {"fetch", "handle"} /\ Fails("noAnswer") /\ step' = "waiting"
      /\ UNCHANGED <<chainVars, storedVars, pass, safeHead, from, to, logs, statement, instances>>
  BY DEF Hang
<1>2. failed' \subseteq Fault /\ faults' \in 0..MaxFaults
  BY <1>1, FaultsTyped
<1>3. PassAndStep'
  BY <1>1, StateOf DEF PassAndStep
<1>. QED  BY <1>1, <1>2, <1>3, StateOf, ProcessGoesOn DEF storedVars

LEMMA CrashKeeps ==
  ASSUME IInv, Crash
  PROVE  IInv'
<1>1. /\ Fails("crash") /\ pass' = "idle" /\ step' = "none"
      /\ safeHead' = 0 /\ from' = 0 /\ to' = 0
      /\ logs' = <<>> /\ statement' = 1 /\ instances' = {}
      /\ UNCHANGED <<chainVars, storedVars>>
  BY DEF Crash
<1>2. failed' \subseteq Fault /\ faults' \in 0..MaxFaults
  BY <1>1, FaultsTyped
<1>3. PassAndStep'
  BY <1>1 DEF PassAndStep
<1>4. safeHead' \in 0..SafeHead /\ from' \in 0..safeHead' /\ to' \in 0..safeHead'
  BY <1>1, StateOf
<1>. QED  BY <1>1, <1>2, <1>3, <1>4, StateOf, ProcessGoesOn DEF storedVars
----------------------------------------------------------------------------
\* Steps that change nothing change no part of the invariant.
LEMMA StutterKeeps ==
  ASSUME IInv, UNCHANGED vars
  PROVE  IInv'
<1>. USE DEF vars, chainVars, storedVars, processVars, faultVars
<1>1. PassAndStep'
  BY StateOf DEF PassAndStep
<1>. QED  BY <1>1, StateOf, ProcessGoesOn

(***************************************************************************)
(* The invariant holds whatever the chain does to its head, whenever it    *)
(* does it, and whatever fails (indexer.go 93-140).                        *)
(***************************************************************************)
THEOREM Invariant == Spec => []IInv
<1>1. Init => IInv
  BY InitHolds
<1>2. IInv /\ [Next]_vars => IInv'
  BY ChainKeeps, BeginTickKeeps, EnterPassKeeps, FetchKeeps, HandleLogKeeps, SaveCheckpointKeeps,
     HangKeeps, CrashKeeps, StutterKeeps DEF Next, IndexerStep
<1>. QED  BY <1>1, <1>2, PTL DEF Spec

(***************************************************************************)
(* The types; the process and the checkpoints name only blocks that can no *)
(* longer be replaced (indexer.go 93-140).                                 *)
(***************************************************************************)
THEOREM Typing == Spec => []TypeOK
<1>1. IInv => TypeOK
  BY DEF IInv
<1>. QED  BY <1>1, Invariant, PTL

(***************************************************************************)
(* Every row of the tables is about something that happened in a block     *)
(* that can no longer be replaced: in the middle of a replay, after any    *)
(* fault, for any chunk size and with blocks added and replaced at any     *)
(* moment of a tick, not only between ticks as the runs have it            *)
(* (indexer.go 93-140, event_service.go 24-229).                           *)
(***************************************************************************)
THEOREM RowsAreReal == Spec => []NoPhantomRows
<1>1. IInv => NoPhantomRows
  BY RealIsNoPhantom DEF IInv, TypeOK
<1>. QED  BY <1>1, Invariant, PTL
----------------------------------------------------------------------------
(***************************************************************************)
(* The columns.  Replays run over the past more than once, so in the       *)
(* middle of one the tables may be wrong; what holds is that each column   *)
(* of each row says already what the last event about it says, or that an  *)
(* event about it is still to be handled, both where the process is and    *)
(* where it would start again from the checkpoint.  The two differ: a      *)
(* checkpoint read as missing lets the process run behind its checkpoint,  *)
(* and a save that fails leaves the checkpoint behind the process.         *)
(*                                                                         *)
(* A cell is one thing the tables say: whether an account is an active     *)
(* verifier; that a mosque has a row, and its status, instance and counts; *)
(* the vote of an account on a mosque.  The stream of the instances has no *)
(* cells; its rows are followed log by log, below.                         *)
(***************************************************************************)
Registry == "VerifierRegistry"

RowColumn == {"row", "status", "instance", "counts"}

VerifierCell == [column : {"verifier"}, of : Account]
RowCell      == [column : RowColumn, of : Mosque]
VoteCell     == [column : {"vote"}, of : Mosque, by : Account]

Cells(s) ==
  { c \in VerifierCell : s = Registry } \cup { c \in RowCell \cup VoteCell : s = Protocol }

\* The events that write a cell, and their logs.
Kinds(column) ==
  CASE column = "verifier" -> {"VerifierAdded", "VerifierRemoved"}
    [] column = "row"      -> {"MasjidRegistered"}
    [] column = "status"   -> Decisive
    [] column = "instance" -> {"MasjidRegistered", "MasjidVerified"}
    [] column = "counts"   -> {"MasjidRegistered", "MasjidAttested"}
    [] column = "vote"     -> {"MasjidAttested"}

Writes(e, c) ==
  /\ e.kind \in Kinds(c.column)
  /\ c.column = "verifier" => e.address = c.of
  /\ c.column # "verifier" => e.masjidId = c.of
  /\ c.column = "vote" => e.verifier = c.by

Writers(c) == { e \in Event : Writes(e, c) }

LogsWriting(c) == [event : Writers(c), tx : Nat]

\* The statement of an event's handler that writes the cell.
StatementOf(c, e) == IF c.column = "counts" /\ e.kind = "MasjidAttested" THEN 2 ELSE 1

\* The cell says what the event says.
SaysRow(row, column, e) ==
  CASE column = "row"      -> row.status # "absent"
    [] column = "status"   -> row.status = StatusAfter(e)
    [] column = "instance" -> row.instanceAddr <=> e.kind = "MasjidVerified"
    [] column = "counts"   ->
         /\ e.kind = "MasjidAttested" => row.attestYes = e.yesCount /\ row.attestNo = e.noCount
         /\ e.kind # "MasjidAttested" => row.attestYes = 0 /\ row.attestNo = 0

Says(d, c, e) ==
  /\ c.column = "verifier" => (d.verifiers[c.of] = "active" <=> e.kind = "VerifierAdded")
  /\ c.column \in RowColumn => SaysRow(d.masjids[c.of], c.column, e)
  /\ c.column = "vote" =>
       [masjidId |-> c.of, verifier |-> c.by, support |-> e.support] \in d.attests

\* The events of blocks i to n of a chain.
Ahead(c, i, n) == UNION {ToSet(c[b]) : b \in i..n}

\* A cell says what its last event says, or one of the events E writes it again.
Right(d, events, c) == \A e : LastIs(events, Writers(c), e) => Says(d, c, e)

RightOrAwaited(s, d, events, E) ==
  \A c \in Cells(s) : Right(d, events, c) \/ Writers(c) \cap E # {}

\* A process that starts again goes on at the checkpoint.  While it replays the past after a
\* checkpoint that was read as missing, the tables may be behind that checkpoint; a crash or a
\* failed save would then lose what it had still to do, which is Lossy.
AtCheckpoint ==
  \A s \in Stream :
    (pass # s \/ step \in {"enter", "fetch"} \/ "checkpointRead" \notin failed) =>
      RightOrAwaited(s, db, Final, Ahead(chain, checkpoint[s] + 1, SafeHead))

AtPosition ==
  /\ step = "fetch" => RightOrAwaited(pass, db, Final, Ahead(chain, from, SafeHead))
  /\ step = "handle" =>
       RightOrAwaited(pass, db, Final, EventsIn(ToSet(logs)) \cup Ahead(chain, to + 1, SafeHead))
  /\ step = "save" => RightOrAwaited(pass, db, Final, Ahead(chain, to + 1, SafeHead))

\* A handler that is half done has written what its first statement writes.
HalfDone ==
  step = "handle" /\ statement = 2 =>
    \A c \in Cells(pass) :
      Head(logs).event \in Writers(c) /\ StatementOf(c, Head(logs).event) = 1 =>
        Says(db, c, Head(logs).event)

TablesFollow == ~Lossy => AtCheckpoint /\ AtPosition /\ HalfDone

\* The last of the logs that writes a cell holds its last event, if none comes later.
InOrder(ls, s, events, later) ==
  \A c \in Cells(s) : \A l \in ToSet(ls) :
    LastIs(ls, LogsWriting(c), l) /\ Writers(c) \cap later = {} =>
      LastIs(events, Writers(c), l.event)

\* The logs still to handle are in the chain's order, and end as the chain does.
LogsInOrder ==
  /\ \A l \in ToSet(logs) : l.tx \in from..to
  /\ Ordered(logs)
  /\ InOrder(logs, pass, Final, Ahead(chain, to + 1, SafeHead))

\* Where the process can be: past the checkpoint, unless that was read as missing.
Positions ==
  /\ step # "handle" => statement = 1
  /\ step = "handle" => \A l \in ToSet(logs) : l.event.kind \in Topics[pass]
  /\ step \in {"handle", "save"} => from # 0 /\ from <= to
  /\ step = "handle" => LogsInOrder
  /\ step \in {"fetch", "handle", "save"} /\ "checkpointRead" \notin failed =>
       checkpoint[pass] < from

\* A mosque without a row has nothing else either; the proposer stays the admin.
Complete(d) ==
  \A m \in Mosque : d.masjids[m].masjidAdmin = Founder /\ (~FindByID(d, m) => d.masjids[m] = NoRow)

SyncInv == Lawful(chain) /\ Complete(db) /\ Positions /\ TablesFollow

\* Cells of a stream are written by its events only.
LEMMA CellsOf ==
  ASSUME NEW s \in Stream, NEW c \in Cells(s)
  PROVE  /\ Writers(c) \subseteq Event
         /\ \A e \in Writers(c) : e.kind \in Topics[s] /\ s # "MasjidInstance"
         /\ \/ c \in VerifierCell /\ s = Registry
            \/ c \in RowCell /\ s = Protocol
            \/ c \in VoteCell /\ s = Protocol
<1>1. /\ Topics[Registry] = {"VerifierAdded", "VerifierRemoved"}
      /\ Topics[Protocol] = Decisive \cup {"MasjidAttested"}
      /\ Registry # "MasjidInstance" /\ Protocol # "MasjidInstance"
  BY ProtocolKinds DEF Topics, Registry, Protocol
<1>2. \/ c \in VerifierCell /\ s = Registry
      \/ c \in RowCell /\ s = Protocol
      \/ c \in VoteCell /\ s = Protocol
  BY DEF Cells
<1>3. ASSUME NEW e \in Writers(c)
      PROVE  e.kind \in Topics[s] /\ s # "MasjidInstance"
  <2>1. e.kind \in Kinds(c.column)
    BY DEF Writers, Writes
  <2>2. CASE c \in VerifierCell /\ s = Registry
    BY <1>1, <2>1, <2>2 DEF VerifierCell, Kinds
  <2>3. CASE c \in RowCell /\ s = Protocol
    BY <1>1, <2>1, <2>3 DEF RowCell, RowColumn, Kinds, Decisive
  <2>4. CASE c \in VoteCell /\ s = Protocol
    BY <1>1, <2>1, <2>4 DEF VoteCell, Kinds
  <2>. QED  BY <1>2, <2>2, <2>3, <2>4
<1>. QED  BY <1>2, <1>3 DEF Writers

\* Blocks without an event of the kind asked for do not change the last one.
LEMMA LastStays ==
  ASSUME NEW c \in Seq(Seq(Event)), NEW n \in 0..Len(c), NEW d \in Seq(Seq(Event)),
         NEW m \in 0..Len(d), n <= m, \A b \in 1..n : d[b] = c[b], NEW P, NEW x
  PROVE  (\A k \in (n + 1)..m : ToSet(d[k]) \cap P = {}) =>
           (LastIs(Events(d, m), P, x) <=> LastIs(Events(c, n), P, x))
<1>1. n \in Nat /\ m \in Nat /\ 1..m = (1..n) \cup ((n + 1)..m)
      /\ \A k \in (n + 1)..m : k \notin 1..n /\ \A b \in 1..n : k > b /\ ~(b > k)
  OBVIOUS
<1>2. ASSUME \A k \in (n + 1)..m : ToSet(d[k]) \cap P = {}
      PROVE  LastIs(Events(d, m), P, x) <=> LastIs(Events(c, n), P, x)
  <2>. DEFINE InD(b) == LastIs(d[b], P, x) /\ \A k \in 1..m : k > b => ToSet(d[k]) \cap P = {}
              InC(b) == LastIs(c[b], P, x) /\ \A k \in 1..n : k > b => ToSet(c[k]) \cap P = {}
  <2>1. \A b \in (n + 1)..m : ~LastIs(d[b], P, x)
    BY <1>2 DEF LastIs, ToSet
  <2>2. \A b \in 1..n : InD(b) <=> InC(b)
    BY <1>1, <1>2
  <2>3. (\E b \in 1..m : InD(b)) <=> (\E b \in 1..n : InC(b))
    <3>. HIDE DEF InC
    <3>. QED  BY <1>1, <2>1, <2>2
  <2>. QED  BY <2>3, LastOfBlocks
<1>. QED  BY <1>2

\* The logs of a block are its watched events, in their order.
LEMMA LogsOfBlock ==
  ASSUME chain \in Seq(Seq(Event)), NEW b \in 1..Len(chain)
  PROVE  /\ LogsOf(b) \in Seq(Log)
         /\ \A l : l \in ToSet(LogsOf(b)) <=>
                    \E e \in ToSet(chain[b]) : Watched(e) /\ l = [event |-> e, tx |-> b]
         /\ \A P, l : LastIs(LogsOf(b), [event : P, tx : Nat], l) /\ (\A e \in P : Watched(e)) =>
                        LastIs(chain[b], P, l.event)
<1>. DEFINE At(i) == [event |-> chain[b][i], tx |-> b]
            Part(i) == IF Watched(chain[b][i]) THEN <<At(i)>> ELSE <<>>
            s == [i \in DOMAIN chain[b] |-> Part(i)]
            n == Len(chain[b])
<1>1. chain[b] \in Seq(Event) /\ b \in Nat
  OBVIOUS
<1>2. n \in Nat /\ DOMAIN chain[b] = 1..n /\ \A i \in 1..n : chain[b][i] \in Event
  BY <1>1
<1>3. \A i \in 1..n : /\ At(i) \in Log /\ At(i).event = chain[b][i]
                      /\ Watched(chain[b][i]) => Part(i) = <<At(i)>>
                      /\ ~Watched(chain[b][i]) => Part(i) = <<>>
  BY <1>1, <1>2 DEF Log
<1>4. LogsOf(b) = FlattenSeq(s)
  BY Zenon DEF LogsOf
<1>. HIDE DEF At, Part, n
<1>5. ASSUME NEW i \in 1..n
      PROVE  Part(i) \in Seq(Log)
  <2>1. At(i) \in Log
    BY <1>3
  <2>2. <<At(i)>> \in Seq(Log) /\ <<>> \in Seq(Log)
    BY <2>1
  <2>. QED  BY <1>3, <2>2
<1>6. s \in Seq(Seq(Log)) /\ Len(s) = n /\ \A i \in 1..n : s[i] = Part(i)
  <2>1. s = [i \in 1..n |-> Part(i)]
    BY <1>2
  <2>. HIDE DEF s
  <2>. QED  BY <1>2, <1>5, <2>1
<1>. HIDE DEF s
<1>7. LogsOf(b) \in Seq(Log) /\ ToSet(LogsOf(b)) = UNION {ToSet(s[i]) : i \in 1..n}
  BY <1>4, <1>6, Flattened
<1>8. \A i \in 1..n : \A l : l \in ToSet(Part(i)) <=> Watched(chain[b][i]) /\ l = At(i)
  <2>1. ASSUME NEW x PROVE ToSet(<<x>>) = {x} /\ ToSet(<<>>) = {}
    BY DEF ToSet
  <2>. QED  BY <1>3, <2>1
<1>9. ASSUME NEW l
      PROVE  l \in ToSet(LogsOf(b)) <=>
               \E e \in ToSet(chain[b]) : Watched(e) /\ l = [event |-> e, tx |-> b]
  <2>1. l \in ToSet(LogsOf(b)) <=> \E i \in 1..n : Watched(chain[b][i]) /\ l = At(i)
    BY <1>6, <1>7, <1>8
  <2>2. ToSet(chain[b]) = {chain[b][i] : i \in 1..n}
    BY <1>2 DEF ToSet
  <2>. QED  BY <2>1, <2>2 DEF At
<1>10. ASSUME NEW P, NEW l, LastIs(LogsOf(b), [event : P, tx : Nat], l), \A e \in P : Watched(e)
       PROVE  LastIs(chain[b], P, l.event)
  <2>. DEFINE PL == [event : P, tx : Nat]
  <2>0. \A x : x \in PL => x.event \in P
    OBVIOUS
  <2>00. \A i \in 1..n : chain[b][i] \in P => At(i) \in PL
    BY <1>1 DEF At
  <2>. HIDE DEF PL
  <2>1. PICK i \in 1..n : /\ LastIs(Part(i), PL, l)
                          /\ \A j \in 1..n : j > i => ToSet(Part(j)) \cap PL = {}
    <3>1. LastIs(FlattenSeq(s), PL, l)
      BY <1>4, <1>10 DEF PL
    <3>2. PICK i \in 1..Len(s) : /\ LastIs(s[i], PL, l)
                                 /\ \A j \in 1..Len(s) : j > i => ToSet(s[j]) \cap PL = {}
      BY <1>6, <3>1, FlattenedLast
    <3>. QED  BY <1>6, <3>2
  <2>2. l \in PL /\ l \in ToSet(Part(i))
    BY <2>1 DEF LastIs, ToSet
  <2>3. l = At(i) /\ l.event = chain[b][i] /\ l.event \in P
    BY <1>3, <1>8, <2>0, <2>2
  <2>4. ASSUME NEW j \in 1..n, j > i
        PROVE  chain[b][j] \notin P
    <3>1. SUFFICES ASSUME chain[b][j] \in P PROVE FALSE
      OBVIOUS
    <3>2. At(j) \in PL /\ At(j) \in ToSet(Part(j))
      BY <1>8, <1>10, <2>00, <3>1
    <3>. QED  BY <2>1, <2>4, <3>2
  <2>. QED  BY <1>2, <2>3, <2>4 DEF LastIs
<1>. QED  BY <1>7, <1>9, <1>10

\* eth_getLogs returns the watched events of the blocks asked for, in the chain's order.
LEMMA GetLogsSet ==
  ASSUME chain \in Seq(Seq(Event)), NEW first \in Nat \ {0}, NEW last \in Nat,
         last <= Len(chain)
  PROVE  \A l : l \in ToSet(GetLogs(first, last)) <=>
                  \E b \in first..last : l \in ToSet(LogsOf(b))
<1>. DEFINE n == last - first + 1
            s == [i \in 1..n |-> LogsOf(first + i - 1)]
<1>1. CASE first <= last
  <2>1. n \in Nat /\ \A i \in 1..n : first + i - 1 \in first..last /\ first + i - 1 \in 1..Len(chain)
    BY <1>1
  <2>2. \A b \in first..last : b - first + 1 \in 1..n /\ first + (b - first + 1) - 1 = b
    BY <1>1
  <2>. HIDE DEF n
  <2>3. \A i \in 1..n : LogsOf(first + i - 1) \in Seq(Log)
    BY <2>1, LogsOfBlock
  <2>4. s \in Seq(Seq(Log)) /\ Len(s) = n /\ \A i \in 1..n : s[i] = LogsOf(first + i - 1)
    BY <2>1, <2>3
  <2>. HIDE DEF s
  <2>5. ToSet(FlattenSeq(s)) = UNION {ToSet(s[i]) : i \in 1..n}
    BY <2>4, Flattened
  <2>6. GetLogs(first, last) = FlattenSeq(s)
    BY DEF GetLogs, s, n
  <2>7. ASSUME NEW l
        PROVE  l \in ToSet(GetLogs(first, last)) <=> \E b \in first..last : l \in ToSet(LogsOf(b))
    <3>1. l \in ToSet(GetLogs(first, last)) <=> \E i \in 1..n : l \in ToSet(LogsOf(first + i - 1))
      BY <2>4, <2>5, <2>6
    <3>2. ASSUME NEW b \in first..last, l \in ToSet(LogsOf(b))
          PROVE  \E i \in 1..n : l \in ToSet(LogsOf(first + i - 1))
      BY <2>2, <3>2
    <3>. QED  BY <2>1, <3>1, <3>2
  <2>. QED  BY <2>7
<1>2. CASE ~(first <= last)
  <2>1. n <= 0 /\ n \in Int /\ 1..n = {} /\ first..last = {}
    BY <1>2
  <2>. HIDE DEF n
  <2>2. s = <<>>
    BY <2>1
  <2>3. GetLogs(first, last) = FlattenSeq(s)
    BY DEF GetLogs, n
  <2>4. FlattenSeq(<<>>) = <<>>
    BY DEF FlattenSeq
  <2>5. ToSet(<<>>) = {}
    BY DEF ToSet
  <2>. QED  BY <2>1, <2>2, <2>3, <2>4, <2>5
<1>. QED  BY <1>1, <1>2

LEMMA GetLogsLast ==
  ASSUME chain \in Seq(Seq(Event)), NEW first \in Nat \ {0}, NEW last \in Nat,
         first <= last, last <= SafeHead, NEW P, \A e \in P : Watched(e),
         P \cap Ahead(chain, last + 1, SafeHead) = {},
         NEW l, LastIs(GetLogs(first, last), [event : P, tx : Nat], l)
  PROVE  LastIs(Final, P, l.event)
<1>. DEFINE n == last - first + 1
            s == [i \in 1..n |-> LogsOf(first + i - 1)]
            PL == [event : P, tx : Nat]
<1>0. SafeHead \in 0..Len(chain) /\ SafeHead \in Nat
  BY SafeHeadType
<1>1. n \in Nat /\ \A i \in 1..n : first + i - 1 \in first..last /\ first + i - 1 \in 1..Len(chain)
  BY <1>0
<1>2. \A b \in first..last : /\ b - first + 1 \in 1..n /\ first + (b - first + 1) - 1 = b
                             /\ b \in 1..Len(chain)
  BY <1>0
<1>. HIDE DEF n
<1>3. \A i \in 1..n : LogsOf(first + i - 1) \in Seq(Log)
  BY <1>1, LogsOfBlock
<1>4. s \in Seq(Seq(Log)) /\ Len(s) = n /\ \A i \in 1..n : s[i] = LogsOf(first + i - 1)
  BY <1>1, <1>3
<1>. HIDE DEF s, PL
<1>5. LastIs(FlattenSeq(s), PL, l)
  BY DEF GetLogs, s, n, PL
<1>6. PICK i \in 1..n : /\ LastIs(LogsOf(first + i - 1), PL, l)
                        /\ \A j \in 1..n : j > i => ToSet(LogsOf(first + j - 1)) \cap PL = {}
  <2>1. PICK i \in 1..Len(s) : /\ LastIs(s[i], PL, l)
                               /\ \A j \in 1..Len(s) : j > i => ToSet(s[j]) \cap PL = {}
    BY <1>4, <1>5, FlattenedLast
  <2>. QED  BY <1>4, <2>1
<1>. DEFINE b == first + i - 1
<1>7. b \in first..last /\ b \in 1..Len(chain) /\ b \in 1..SafeHead
  <2>1. b \in first..last /\ b \in 1..Len(chain)
    BY <1>1
  <2>. HIDE DEF b
  <2>. QED  BY <1>0, <2>1
<1>8. LastIs(chain[b], P, l.event)
  BY <1>6, <1>7, LogsOfBlock DEF PL
<1>9. ASSUME NEW k \in 1..SafeHead, k > b
      PROVE  ToSet(chain[k]) \cap P = {}
  <2>1. CASE k > last
    <3>1. k \in (last + 1)..SafeHead
      BY <1>0, <2>1
    <3>2. ToSet(chain[k]) \subseteq Ahead(chain, last + 1, SafeHead)
      BY <3>1 DEF Ahead
    <3>. QED  BY <3>2
  <2>2. CASE ~(k > last)
    <3>. DEFINE j == k - first + 1
    <3>1. k \in first..last
      BY <1>0, <1>7, <1>9, <2>2
    <3>2. j \in 1..n /\ first + j - 1 = k /\ j > i /\ k \in 1..Len(chain) /\ k \in Nat
      BY <1>1, <1>2, <1>7, <1>9, <3>1
    <3>. HIDE DEF j
    <3>3. ToSet(LogsOf(k)) \cap PL = {}
      BY <1>6, <3>2
    <3>4. ASSUME NEW e \in ToSet(chain[k]), e \in P
          PROVE  FALSE
      <4>1. [event |-> e, tx |-> k] \in ToSet(LogsOf(k))
        BY <3>2, <3>4, LogsOfBlock
      <4>2. [event |-> e, tx |-> k] \in PL
        BY <3>2, <3>4 DEF PL
      <4>. QED  BY <3>3, <4>1, <4>2
    <3>. QED  BY <3>4
  <2>. QED  BY <2>1, <2>2
<1>. HIDE DEF b
<1>. QED  BY <1>0, <1>7, <1>8, <1>9, LastOfBlocks DEF Final

\* What lies further ahead is less, and what lies between is in either part.
LEMMA AheadOf ==
  ASSUME NEW c, NEW n \in Nat, NEW i \in Nat, NEW j \in Nat, i <= j
  PROVE  /\ Ahead(c, j, n) \subseteq Ahead(c, i, n)
         /\ \A x \in Ahead(c, i, n) :
              x \in Ahead(c, j, n) \/ \E b \in i..n : b < j /\ x \in ToSet(c[b])
<1>1. j..n \subseteq i..n /\ \A b \in i..n : b < j \/ b \in j..n
  OBVIOUS
<1>2. ASSUME NEW x \in Ahead(c, i, n)
      PROVE  x \in Ahead(c, j, n) \/ \E b \in i..n : b < j /\ x \in ToSet(c[b])
  <2>1. PICK b \in i..n : x \in ToSet(c[b])
    BY DEF Ahead
  <2>2. b \in j..n => x \in Ahead(c, j, n)
    BY <2>1 DEF Ahead
  <2>. QED  BY <1>1, <2>1, <2>2
<1>3. Ahead(c, j, n) \subseteq Ahead(c, i, n)
  BY <1>1 DEF Ahead
<1>. QED  BY <1>2, <1>3

\* The more is awaited, the weaker the claim.
LEMMA MoreAwaited ==
  ASSUME NEW s, NEW d, NEW events, NEW E, NEW F, RightOrAwaited(s, d, events, E),
         \A c \in Cells(s) : Writers(c) \cap E \subseteq F
  PROVE  RightOrAwaited(s, d, events, F)
BY DEF RightOrAwaited

\* When the chain goes on, the events ahead are joined by those of the new final blocks, and
\* a cell without a writer in those has the last one it had.
LEMMA AheadGrows ==
  ASSUME NEW c \in Seq(Seq(Event)), NEW n \in 0..Len(c), NEW d \in Seq(Seq(Event)),
         NEW m \in 0..Len(d), n <= m, \A b \in 1..n : d[b] = c[b]
  PROVE  /\ \A i \in 1..(n + 1) : Ahead(c, i, n) \cup Ahead(d, n + 1, m) \subseteq Ahead(d, i, m)
         /\ \A P, x : P \cap Ahead(d, n + 1, m) = {} =>
              (LastIs(Events(d, m), P, x) <=> LastIs(Events(c, n), P, x))
<1>1. ASSUME NEW i \in 1..(n + 1)
      PROVE  Ahead(c, i, n) \cup Ahead(d, n + 1, m) \subseteq Ahead(d, i, m)
  <2>1. i..n \subseteq 1..n /\ i..n \subseteq i..m /\ (n + 1)..m \subseteq i..m
    OBVIOUS
  <2>. QED  BY <2>1 DEF Ahead
<1>2. ASSUME NEW P, NEW x, P \cap Ahead(d, n + 1, m) = {}
      PROVE  LastIs(Events(d, m), P, x) <=> LastIs(Events(c, n), P, x)
  <2>1. \A k \in (n + 1)..m : ToSet(d[k]) \cap P = {}
    BY <1>2 DEF Ahead
  <2>. QED  BY <2>1, LastStays
<1>. QED  BY <1>1, <1>2

\* What the contracts allow is all that is added.
LEMMA ChainLawful ==
  ASSUME IInv, Lawful(chain), ChainStep \/ ReorgStep
  PROVE  Lawful(chain')
<1>1. /\ chain \in Seq(Seq(Event)) /\ chain' \in Seq(Seq(Event)) /\ Len(Genesis) \in Nat
  BY ChainSteps, IndexerAssumption DEF IInv, TypeOK, IndexerAssumption
<1>2. ASSUME NEW tx \in Transactions(Events(chain, Len(chain))), Grow(tx)
      PROVE  Lawful(chain')
  <2>1. tx \in Allowed(Events(chain, Len(chain)))
    BY TransactionsAllowed
  <2>2. chain' = Append(chain, tx)
    BY <1>2 DEF Grow
  <2>3. Len(chain') = Len(chain) + 1 /\ \A b \in 1..Len(chain) : chain'[b] = chain[b]
    BY <1>1, <2>2
  <2>4. chain'[Len(chain) + 1] = tx /\ Len(chain) \in 0..Len(chain)
    BY <1>1, <2>2
  <2>. QED  BY <1>1, <2>1, <2>3, <2>4, StaysLawful
<1>3. ASSUME NEW tx \in Transactions(Events(chain, Len(chain) - 1)), Reorg(tx)
      PROVE  Lawful(chain')
  <2>. DEFINE n == Len(chain) - 1
  <2>1. tx \in Allowed(Events(chain, n))
    BY TransactionsAllowed
  <2>2. chain' = [chain EXCEPT ![Len(chain)] = tx] /\ Len(chain) > Len(Genesis)
    BY <1>3 DEF Reorg
  <2>3. /\ n \in 0..Len(chain) /\ Len(chain') = n + 1 /\ chain'[n + 1] = tx
        /\ \A b \in 1..n : chain'[b] = chain[b]
    BY <1>1, <2>2
  <2>. HIDE DEF n
  <2>. QED  BY <1>1, <2>1, <2>3, StaysLawful
<1>. QED  BY <1>2, <1>3 DEF ChainStep, ReorgStep

LEMMA ChainSyncs ==
  ASSUME IInv, SyncInv, ChainStep \/ ReorgStep
  PROVE  SyncInv'
<1>1. /\ chain' \in Seq(Seq(Event)) /\ SafeHead <= SafeHead'
      /\ \A b \in 1..SafeHead : chain'[b] = chain[b]
      /\ UNCHANGED <<storedVars, processVars, faultVars>>
  BY ChainSteps
<1>2. UNCHANGED <<db, checkpoint, pass, step, safeHead, from, to, logs, statement, failed>>
  BY <1>1 DEF storedVars, processVars, faultVars
<1>. DEFINE n == SafeHead
            m == SafeHead'
            New == Ahead(chain', n + 1, m)
<1>3. chain \in Seq(Seq(Event)) /\ n \in 0..Len(chain) /\ n \in Nat
  BY SafeHeadType DEF IInv, TypeOK
<1>4. m \in 0..Len(chain')
  <2>1. Len(chain') \in Nat /\ (m = 0 \/ (m = Len(chain') - 1 /\ ~(Len(chain') < 2)))
    BY <1>1 DEF SafeHead
  <2>. HIDE DEF m
  <2>. QED  BY <2>1
<1>. HIDE DEF n, m
<1>5. \A i \in 1..(n + 1) : Ahead(chain, i, n) \cup New \subseteq Ahead(chain', i, m)
  BY <1>1, <1>3, <1>4, AheadGrows DEF n, m
<1>6. \A P, x : P \cap New = {} => (LastIs(Events(chain', m), P, x) <=> LastIs(Events(chain, n), P, x))
  BY <1>1, <1>3, <1>4, AheadGrows DEF n, m
<1>7. Final = Events(chain, n) /\ Final' = Events(chain', m)
  BY DEF Final, n, m
<1>. HIDE DEF New
<1>8. ASSUME NEW s, NEW E, NEW F, RightOrAwaited(s, db, Final, E), E \cup New \subseteq F
      PROVE  RightOrAwaited(s, db', Final', F)
  <2>1. SUFFICES ASSUME NEW c \in Cells(s), Writers(c) \cap F = {}
                 PROVE  Right(db, Final', c)
    BY <1>2 DEF RightOrAwaited
  <2>2. Writers(c) \cap New = {} /\ Writers(c) \cap E = {}
    BY <1>8, <2>1
  <2>3. Right(db, Final, c)
    BY <1>8, <2>2 DEF RightOrAwaited
  <2>. QED  BY <1>6, <1>7, <2>2, <2>3 DEF Right
<1>9. /\ checkpoint \in [Stream -> 0..n] /\ safeHead \in 0..n
      /\ from \in 0..safeHead /\ to \in 0..safeHead
      /\ step = "fetch" => from # 0
  BY StateOf DEF n
<1>10. /\ \A s \in Stream : checkpoint[s] + 1 \in 1..(n + 1)
       /\ to + 1 \in 1..(n + 1)
       /\ from # 0 => from \in 1..(n + 1)
  BY <1>3, <1>9
<1>11. ASSUME ~Lossy', ~Lossy => AtCheckpoint
       PROVE  AtCheckpoint'
  <2>1. Lossy' <=> Lossy
    BY <1>2 DEF Lossy
  <2>2. \A s \in Stream : Ahead(chain, checkpoint[s] + 1, n) \cup New
                            \subseteq Ahead(chain', checkpoint'[s] + 1, m)
    BY <1>2, <1>5, <1>10
  <2>. QED  BY <1>2, <1>8, <1>11, <2>1, <2>2 DEF AtCheckpoint, n, m
<1>12. ASSUME ~Lossy', ~Lossy => AtPosition /\ HalfDone
       PROVE  AtPosition' /\ HalfDone'
  <2>1. Lossy' <=> Lossy
    BY <1>2 DEF Lossy
  <2>2. /\ from # 0 => Ahead(chain, from, n) \cup New \subseteq Ahead(chain', from', m)
        /\ Ahead(chain, to + 1, n) \cup New \subseteq Ahead(chain', to' + 1, m)
    BY <1>2, <1>5, <1>10
  <2>3. EventsIn(ToSet(logs')) = EventsIn(ToSet(logs))
    BY <1>2
  <2>4. (EventsIn(ToSet(logs)) \cup Ahead(chain, to + 1, n)) \cup New
          \subseteq EventsIn(ToSet(logs')) \cup Ahead(chain', to' + 1, m)
    BY <2>2, <2>3
  <2>5. AtPosition'
    BY <1>2, <1>8, <1>9, <1>12, <2>1, <2>2, <2>4 DEF AtPosition, n, m
  <2>6. HalfDone'
    BY <1>2, <1>12, <2>1 DEF HalfDone
  <2>. QED  BY <2>5, <2>6
<1>13. TablesFollow'
  BY <1>11, <1>12 DEF SyncInv, TablesFollow
<1>14. ASSUME LogsInOrder, from # 0
       PROVE  LogsInOrder'
  <2>1. Ahead(chain, to + 1, n) \cup New \subseteq Ahead(chain', to' + 1, m)
    BY <1>2, <1>5, <1>10, <1>14
  <2>2. InOrder(logs', pass', Final', Ahead(chain', to' + 1, m))
    <3>1. InOrder(logs, pass, Final, Ahead(chain, to + 1, n))
      BY <1>14 DEF LogsInOrder, n
    <3>2. SUFFICES ASSUME NEW c \in Cells(pass), NEW l \in ToSet(logs),
                          LastIs(logs, LogsWriting(c), l),
                          Writers(c) \cap Ahead(chain', to' + 1, m) = {}
                   PROVE  LastIs(Final', Writers(c), l.event)
      BY <1>2 DEF InOrder
    <3>3. Writers(c) \cap Ahead(chain, to + 1, n) = {} /\ Writers(c) \cap New = {}
      BY <2>1, <3>2
    <3>4. LastIs(Final, Writers(c), l.event)
      BY <3>1, <3>2, <3>3 DEF InOrder
    <3>. QED  BY <1>6, <1>7, <3>3, <3>4
  <2>3. (\A l \in ToSet(logs') : l.tx \in from'..to') /\ Ordered(logs')
    BY <1>2, <1>14 DEF LogsInOrder
  <2>. QED  BY <2>2, <2>3 DEF LogsInOrder, m
<1>15. Positions'
  BY <1>2, <1>14 DEF SyncInv, Positions
<1>16. Lawful(chain') /\ Complete(db')
  BY <1>2, ChainLawful DEF SyncInv
<1>. QED  BY <1>13, <1>15, <1>16 DEF SyncInv

\* What the invariant says of a state, for the steps of the process.
LEMMA SyncOf ==
  ASSUME IInv, SyncInv
  PROVE  /\ \A s \in Stream : s # "idle" /\ checkpoint[s] \in Nat
         /\ step \notin {"none"} => pass \in Stream
         /\ SafeHead \in Nat /\ SafeHead \in 0..Len(chain) /\ chain \in Seq(Seq(Event))
         /\ Lawful(chain) /\ Complete(db)
         /\ step # "handle" => statement = 1
         /\ \A s \in Stream :
              /\ ~Lossy
              /\ pass # s \/ step \in {"enter", "fetch"} \/ "checkpointRead" \notin failed
              => RightOrAwaited(s, db, Final, Ahead(chain, checkpoint[s] + 1, SafeHead))
         /\ step = "handle" => \A l \in ToSet(logs) : l.event.kind \in Topics[pass]
<1>1. chain \in Seq(Seq(Event))
  BY DEF IInv, TypeOK
<1>2. "idle" \notin Stream
  BY DEF Stream, Topics
<1>3. \A s \in Stream : s # "idle" /\ checkpoint[s] \in Nat
  <2>1. checkpoint \in [Stream -> 0..SafeHead] /\ SafeHead \in Nat
    BY StateOf
  <2>. QED  BY <1>2, <2>1
<1>4. step # "none" => pass \in Stream
  BY StateOf
<1>. QED
  BY <1>1, <1>3, <1>4, SafeHeadType DEF SyncInv, Positions, TablesFollow, AtCheckpoint

\* A fault that has happened stays so; what may be lost is lost.
LEMMA LossyStays ==
  ASSUME failed \subseteq failed', ~Lossy'
  PROVE  ~Lossy /\ ("checkpointRead" \notin failed' => "checkpointRead" \notin failed)
BY DEF Lossy

LEMMA FaultsStay ==
  ASSUME NEW kind, Fails(kind) \/ UNCHANGED faultVars
  PROVE  failed \subseteq failed' /\ (Fails(kind) => failed' = failed \cup {kind})
         /\ (UNCHANGED faultVars => failed' = failed)
BY DEF Fails, faultVars

\* What the chain says stays what it was while it stands still.
LEMMA StandsStill ==
  ASSUME UNCHANGED chainVars
  PROVE  chain' = chain /\ SafeHead' = SafeHead /\ Final' = Final
<1>1. chain' = chain
  BY DEF chainVars
<1>2. SafeHead' = SafeHead
  BY <1>1 DEF SafeHead
<1>. QED  BY <1>1, <1>2 DEF Final

\* At a state that reads no logs only the checkpoints count.
LEMMA BetweenPasses ==
  ASSUME UNCHANGED chainVars, Lawful(chain), Complete(db'), statement' = 1,
         step' \in {"none", "enter", "waiting"},
         \A s \in Stream :
           ~Lossy' /\ (pass' # s \/ step' = "enter" \/ "checkpointRead" \notin failed') =>
             RightOrAwaited(s, db', Final, Ahead(chain, checkpoint'[s] + 1, SafeHead))
  PROVE  SyncInv'
<1>1. chain' = chain /\ SafeHead' = SafeHead /\ Final' = Final
  BY StandsStill
<1>2. TablesFollow'
  BY <1>1 DEF TablesFollow, AtCheckpoint, AtPosition, HalfDone
<1>3. Positions'
  BY DEF Positions
<1>4. Lawful(chain')
  BY <1>1
<1>. QED  BY <1>2, <1>3, <1>4 DEF SyncInv

LEMMA BeginTickSyncs ==
  ASSUME IInv, SyncInv, BeginTick
  PROVE  SyncInv'
<1>1. /\ pass = "idle" /\ pass' = "MasjidProtocol" /\ step' = "enter"
      /\ UNCHANGED <<chainVars, storedVars, from, to, logs, statement, instances, faultVars>>
  BY DEF BeginTick
<1>2. step # "handle" /\ \A s \in Stream : pass # s
  BY <1>1, StateOf, SyncOf
<1>3. UNCHANGED <<db, checkpoint, failed>> /\ statement' = 1
  BY <1>1, <1>2, SyncOf DEF storedVars, faultVars
<1>4. failed \subseteq failed'
  BY <1>3
<1>. QED  BY <1>1, <1>2, <1>3, <1>4, SyncOf, LossyStays, BetweenPasses

\* The pass is over: the next one starts at its own checkpoint.
LEMMA EndPassSyncs ==
  ASSUME IInv, EndPass, UNCHANGED chainVars, Lawful(chain), Complete(db'), statement' = 1,
         ~Lossy' => \A s \in Stream :
           RightOrAwaited(s, db', Final, Ahead(chain, checkpoint'[s] + 1, SafeHead))
  PROVE  SyncInv'
<1>1. step' \in {"none", "enter"}
  BY DEF EndPass
<1>. QED  BY <1>1, BetweenPasses

\* A pass reads from a block on.
LEMMA ReadsFrom ==
  ASSUME UNCHANGED chainVars, Lawful(chain), Complete(db'), statement' = 1, step' = "fetch",
         ~Lossy' => \A s \in Stream :
           RightOrAwaited(s, db', Final, Ahead(chain, checkpoint'[s] + 1, SafeHead)),
         ~Lossy' => RightOrAwaited(pass', db', Final, Ahead(chain, from', SafeHead)),
         "checkpointRead" \notin failed' => checkpoint'[pass'] < from'
  PROVE  SyncInv'
<1>1. chain' = chain /\ SafeHead' = SafeHead /\ Final' = Final
  BY StandsStill
<1>2. TablesFollow'
  BY <1>1 DEF TablesFollow, AtCheckpoint, AtPosition, HalfDone
<1>3. Positions'
  BY DEF Positions
<1>4. Lawful(chain')
  BY <1>1
<1>. QED  BY <1>2, <1>3, <1>4 DEF SyncInv

LEMMA EnterPassSyncs ==
  ASSUME IInv, SyncInv, EnterPass
  PROVE  SyncInv'
<1>1. step = "enter" /\ UNCHANGED <<chainVars, storedVars, logs, statement>>
  BY DEF EnterPass
<1>2. pass \in Stream /\ statement' = 1 /\ UNCHANGED <<db, checkpoint>>
  BY <1>1, SyncOf DEF storedVars
<1>3. Fails("checkpointRead") \/ UNCHANGED faultVars
  BY DEF EnterPass
<1>. DEFINE n == SafeHead
<1>4. ~Lossy' => \A s \in Stream : RightOrAwaited(s, db', Final, Ahead(chain, checkpoint'[s] + 1, n))
  BY <1>1, <1>2, <1>3, FaultsStay, LossyStays, SyncOf
<1>5. Lawful(chain) /\ Complete(db')
  BY <1>2, SyncOf
<1>6. CASE EndPass
  BY <1>1, <1>2, <1>4, <1>5, <1>6, EndPassSyncs
<1>7. CASE ~EndPass
  <2>. DEFINE C == checkpoint[pass]
  <2>1. PICK block \in {C + 1, 1} :
          /\ step' = "fetch" /\ from' = block /\ pass' = pass
          /\ block # C + 1 => Fails("checkpointRead")
    BY <1>7 DEF EnterPass, StartAt
  <2>2. C \in Nat /\ n \in Nat
    BY <1>2, SyncOf
  <2>3. ~Lossy' => RightOrAwaited(pass, db', Final, Ahead(chain, C + 1, n))
    BY <1>2, <1>4
  <2>4. checkpoint'[pass'] = C
    BY <1>2, <2>1
  <2>. HIDE DEF C, n
  <2>5. C + 1 \in Nat /\ 1 \in Nat /\ 1 <= C + 1 /\ C < C + 1
    BY <2>2
  <2>6. Ahead(chain, C + 1, n) \subseteq Ahead(chain, 1, n)
    BY <2>2, <2>5, AheadOf
  <2>7. ~Lossy' => RightOrAwaited(pass', db', Final, Ahead(chain, from', n))
    <3>1. CASE block = 1
      BY <2>1, <2>3, <2>6, <3>1, MoreAwaited
    <3>2. CASE block # 1
      BY <2>1, <2>3, <3>2
    <3>. QED  BY <3>1, <3>2
  <2>8. "checkpointRead" \notin failed' => C < from'
    <3>1. Fails("checkpointRead") => "checkpointRead" \in failed'
      BY DEF Fails
    <3>. QED  BY <2>1, <2>5, <3>1
  <2>. QED  BY <1>1, <1>2, <1>4, <1>5, <2>1, <2>4, <2>7, <2>8, ReadsFrom DEF n
<1>. QED  BY <1>6, <1>7

\* The chunk just read holds what lay ahead up to its end, as the chain has it.
LEMMA ChunkInOrder ==
  ASSUME chain \in Seq(Seq(Event)), NEW first \in Nat \ {0}, NEW last \in Nat,
         first <= last, last <= SafeHead, pass \in Stream
  PROVE  LET got == GetLogs(first, last) IN
         /\ \A l \in ToSet(got) : l.event.kind \in Topics[pass] /\ l.tx \in first..last
         /\ Ordered(got)
         /\ \A c \in Cells(pass) : Writers(c) \cap Ahead(chain, first, SafeHead)
              \subseteq EventsIn(ToSet(got)) \cup Ahead(chain, last + 1, SafeHead)
         /\ InOrder(got, pass, Final, Ahead(chain, last + 1, SafeHead))
<1>. DEFINE got == GetLogs(first, last)
            n == SafeHead
<1>1. n \in Nat /\ n \in 0..Len(chain)
  BY SafeHeadType
<1>. HIDE DEF n
<1>2. first..last \subseteq first..n /\ first..n \subseteq 1..Len(chain) /\ last <= Len(chain)
      /\ last + 1 \in Nat /\ first <= last + 1
      /\ \A b \in first..n : b < last + 1 => b \in first..last
  BY <1>1 DEF n
<1>3. \A l : l \in ToSet(got) <=>
        \E b \in first..last : \E e \in ToSet(chain[b]) :
          Watched(e) /\ l = [event |-> e, tx |-> b]
  <2>1. \A l : l \in ToSet(got) <=> \E b \in first..last : l \in ToSet(LogsOf(b))
    BY <1>2, GetLogsSet
  <2>2. \A b \in first..last : \A l : l \in ToSet(LogsOf(b)) <=>
          \E e \in ToSet(chain[b]) : Watched(e) /\ l = [event |-> e, tx |-> b]
    BY <1>2, LogsOfBlock
  <2>. HIDE DEF got
  <2>. QED  BY <2>1, <2>2
<1>4. Ordered(got)
  <2>. DEFINE k == last - first + 1
              s == [i \in 1..k |-> LogsOf(first + i - 1)]
  <2>1. k \in Nat /\ \A i \in 1..k : first + i - 1 \in 1..Len(chain)
    BY <1>2
  <2>2. \A i \in 1..k : LogsOf(first + i - 1) \in Seq(Log)
    BY <2>1, LogsOfBlock
  <2>3. got = FlattenSeq(s)
    BY DEF GetLogs
  <2>. HIDE DEF k, got
  <2>4. s \in Seq(Seq(Log)) /\ Len(s) = k /\ \A i \in 1..k : s[i] = LogsOf(first + i - 1)
    BY <2>1, <2>2
  <2>5. \A i \in 1..k : \A l \in ToSet(LogsOf(first + i - 1)) : l.tx = first + i - 1
    BY <2>1, LogsOfBlock
  <2>. HIDE DEF s
  <2>6. ASSUME NEW i \in 1..k, NEW j \in 1..k, i <= j, NEW x \in ToSet(s[i]), NEW y \in ToSet(s[j])
        PROVE  x.tx <= y.tx
    <3>1. x.tx = first + i - 1 /\ y.tx = first + j - 1
      BY <2>4, <2>5
    <3>. QED  BY <2>1, <2>6, <3>1
  <2>. QED  BY <2>3, <2>4, <2>6, FlattenedOrdered
<1>. HIDE DEF got
<1>5. ASSUME NEW l \in ToSet(got)
      PROVE  l.event.kind \in Topics[pass] /\ l.tx \in first..last
  <2>1. PICK b \in first..last :
          \E e \in ToSet(chain[b]) : Watched(e) /\ l = [event |-> e, tx |-> b]
    BY <1>3
  <2>2. PICK e \in ToSet(chain[b]) : Watched(e) /\ l = [event |-> e, tx |-> b]
    BY <2>1
  <2>. QED  BY <2>2 DEF Watched
<1>6. ASSUME NEW c \in Cells(pass)
      PROVE  \A e \in Writers(c) : Watched(e)
  BY <1>6, CellsOf DEF Watched
<1>7. ASSUME NEW c \in Cells(pass), NEW x \in Writers(c) \cap Ahead(chain, first, n)
      PROVE  x \in EventsIn(ToSet(got)) \cup Ahead(chain, last + 1, n)
  <2>1. CASE x \in Ahead(chain, last + 1, n)
    BY <2>1
  <2>2. CASE x \notin Ahead(chain, last + 1, n)
    <3>1. PICK b \in first..n : b < last + 1 /\ x \in ToSet(chain[b])
      BY <1>1, <1>2, <2>2, AheadOf
    <3>2. [event |-> x, tx |-> b] \in ToSet(got)
      BY <1>2, <1>3, <1>6, <1>7, <3>1
    <3>3. [event |-> x, tx |-> b].event \in EventsIn(ToSet(got))
      BY <3>2 DEF EventsIn
    <3>. QED  BY <3>3
  <2>. QED  BY <2>1, <2>2
<1>8. ASSUME NEW c \in Cells(pass), NEW l, LastIs(got, LogsWriting(c), l),
             Writers(c) \cap Ahead(chain, last + 1, n) = {}
      PROVE  LastIs(Final, Writers(c), l.event)
  BY <1>6, <1>8, GetLogsLast DEF n, got, LogsWriting
<1>9. InOrder(got, pass, Final, Ahead(chain, last + 1, n))
  BY <1>8 DEF InOrder
<1>. QED  BY <1>4, <1>5, <1>7, <1>9 DEF n, got

LEMMA FetchSyncs ==
  ASSUME IInv, SyncInv, Fetch
  PROVE  SyncInv'
<1>1. step = "fetch" /\ UNCHANGED <<chainVars, storedVars, statement>>
  BY DEF Fetch
<1>2. pass \in Stream /\ statement' = 1 /\ UNCHANGED <<db, checkpoint>>
      /\ from \in Nat \ {0} /\ from <= safeHead
  BY <1>1, StateOf, SyncOf DEF storedVars
<1>3. Lawful(chain) /\ Complete(db')
  BY <1>2, SyncOf
<1>. DEFINE last == ChunkEnd(from)
<1>4. CASE /\ to' = last /\ logs' = GetLogs(from, last)
           /\ step' = IF logs' = <<>> THEN "save" ELSE "handle"
           /\ UNCHANGED <<pass, safeHead, from, instances, faultVars>>
  <2>1. last \in Nat /\ from <= last /\ last <= safeHead
    BY <1>2, StateOf, IndexerAssumption DEF ChunkEnd, IndexerAssumption
  <2>. HIDE DEF last
  <2>2. last <= SafeHead
    BY <2>1, StateOf
  <2>. DEFINE n == SafeHead
              got == GetLogs(from, last)
  <2>3. /\ \A l \in ToSet(got) : l.event.kind \in Topics[pass] /\ l.tx \in from..last
        /\ Ordered(got)
        /\ \A c \in Cells(pass) : Writers(c) \cap Ahead(chain, from, n)
             \subseteq EventsIn(ToSet(got)) \cup Ahead(chain, last + 1, n)
        /\ InOrder(got, pass, Final, Ahead(chain, last + 1, n))
    BY <1>2, <2>1, <2>2, SyncOf, ChunkInOrder
  <2>. HIDE DEF got
  <2>4. /\ chain' = chain /\ SafeHead' = n /\ Final' = Final /\ failed' = failed
        /\ logs' = got /\ pass' = pass /\ from' = from /\ to' = last
        /\ step' \in {"save", "handle"} /\ (step' = "save" => got = <<>>)
    BY <1>1, <1>4, StandsStill DEF faultVars, got
  <2>5. ASSUME ~Lossy'
        PROVE  AtCheckpoint' /\ AtPosition' /\ HalfDone'
    <3>1. ~Lossy
      BY <2>4, <2>5 DEF Lossy
    <3>2. \A s \in Stream :
            RightOrAwaited(s, db', Final', Ahead(chain', checkpoint'[s] + 1, SafeHead'))
      BY <1>1, <1>2, <2>4, <3>1, SyncOf
    <3>3. RightOrAwaited(pass, db, Final, Ahead(chain, from, n))
      BY <1>1, <3>1 DEF SyncInv, TablesFollow, AtPosition
    <3>4. RightOrAwaited(pass, db, Final, EventsIn(ToSet(got)) \cup Ahead(chain, last + 1, n))
      BY <2>3, <3>3, MoreAwaited
    <3>5. step' = "save" => EventsIn(ToSet(got)) = {}
      BY <2>4 DEF EventsIn, ToSet
    <3>6. AtCheckpoint'
      BY <3>2 DEF AtCheckpoint
    <3>7. /\ step' = "handle" =>
               RightOrAwaited(pass', db', Final',
                              EventsIn(ToSet(logs')) \cup Ahead(chain', to' + 1, SafeHead'))
          /\ step' = "save" =>
               RightOrAwaited(pass', db', Final', Ahead(chain', to' + 1, SafeHead'))
      <4>. HIDE DEF n
      <4>1. step' = "save" =>
              EventsIn(ToSet(got)) \cup Ahead(chain, last + 1, n) = Ahead(chain, last + 1, n)
        BY <3>5
      <4>. QED  BY <1>2, <2>4, <3>4, <4>1
    <3>8. AtPosition'
      BY <2>4, <3>7 DEF AtPosition
    <3>9. HalfDone'
      BY <1>2 DEF HalfDone
    <3>. QED  BY <3>6, <3>8, <3>9
  <2>6. LogsInOrder'
    <3>. HIDE DEF n
    <3>. QED  BY <1>2, <2>3, <2>4 DEF LogsInOrder
  <2>7. "checkpointRead" \notin failed => checkpoint[pass] < from
    BY <1>1 DEF SyncInv, Positions
  <2>8. Positions'
    <3>. HIDE DEF n
    <3>. QED  BY <1>2, <2>1, <2>3, <2>4, <2>6, <2>7 DEF Positions
  <2>. QED  BY <1>3, <2>4, <2>5, <2>8 DEF SyncInv, TablesFollow
<1>5. CASE Fails(LogsFault[pass]) /\ EndPass /\ UNCHANGED logs
  <2>1. ~Lossy' => ~Lossy
    BY <1>5, FaultsStay, LossyStays
  <2>. QED  BY <1>1, <1>2, <1>3, <1>5, <2>1, SyncOf, EndPassSyncs
<1>. QED  BY <1>4, <1>5 DEF Fetch

LEMMA HangSyncs ==
  ASSUME IInv, SyncInv, Hang
  PROVE  SyncInv'
<1>1. /\ Fails("noAnswer") /\ step' = "waiting" /\ statement' = 1
      /\ UNCHANGED <<db, checkpoint, chainVars, pass>>
  BY SyncOf DEF Hang, storedVars
<1>2. failed \subseteq failed'
  BY <1>1, FaultsStay
<1>. QED  BY <1>1, <1>2, SyncOf, LossyStays, BetweenPasses

LEMMA CrashSyncs ==
  ASSUME IInv, SyncInv, Crash
  PROVE  SyncInv'
<1>1. /\ Fails("crash") /\ pass' = "idle" /\ step' = "none" /\ statement' = 1
      /\ UNCHANGED <<chainVars, db, checkpoint>>
  BY DEF Crash, storedVars
<1>2. failed' = failed \cup {"crash"}
  BY <1>1, FaultsStay
<1>3. ~Lossy' => ~Lossy /\ "checkpointRead" \notin failed
  BY <1>2 DEF Lossy
<1>. QED  BY <1>1, <1>3, SyncOf, BetweenPasses

LEMMA SaveCheckpointSyncs ==
  ASSUME IInv, SyncInv, SaveCheckpoint
  PROVE  SyncInv'
<1>1. step = "save" /\ NextChunk /\ UNCHANGED <<chainVars, db, logs, statement>>
  BY DEF SaveCheckpoint
<1>2. /\ pass \in Stream /\ to \in Nat /\ from \in Nat /\ statement' = 1
      /\ checkpoint \in [Stream -> 0..SafeHead] /\ Lawful(chain) /\ Complete(db')
  BY <1>1, StateOf, SyncOf
<1>3. \/ checkpoint' = [checkpoint EXCEPT ![pass] = to] /\ UNCHANGED faultVars
      \/ Fails("checkpointWrite") /\ UNCHANGED checkpoint
  BY DEF SaveCheckpoint
<1>. DEFINE n == SafeHead
<1>4. \/ checkpoint'[pass] = to /\ failed' = failed
      \/ checkpoint'[pass] = checkpoint[pass] /\ failed' = failed \cup {"checkpointWrite"}
  BY <1>2, <1>3, FaultsStay
<1>5. \A s \in Stream : s # pass => checkpoint'[s] = checkpoint[s]
  BY <1>2, <1>3
<1>6. from # 0 /\ from <= to /\ ("checkpointRead" \notin failed => checkpoint[pass] < from)
  BY <1>1 DEF SyncInv, Positions
<1>7. failed \subseteq failed' /\ (~Lossy' => ~Lossy)
  BY <1>4, LossyStays
<1>8. ~Lossy' => RightOrAwaited(pass, db', Final, Ahead(chain, to + 1, n))
  BY <1>1, <1>7 DEF SyncInv, TablesFollow, AtPosition
<1>9. ~Lossy' =>
        \A s \in Stream : RightOrAwaited(s, db', Final, Ahead(chain, checkpoint'[s] + 1, n))
  <2>1. SUFFICES ASSUME ~Lossy', NEW s \in Stream
                 PROVE  RightOrAwaited(s, db', Final, Ahead(chain, checkpoint'[s] + 1, n))
    OBVIOUS
  <2>2. s # pass \/ "checkpointRead" \notin failed =>
          RightOrAwaited(s, db', Final, Ahead(chain, checkpoint[s] + 1, n))
    BY <1>1, <1>7, <2>1, SyncOf
  <2>3. CASE s # pass
    BY <1>5, <2>2, <2>3
  <2>4. CASE s = pass /\ checkpoint'[pass] = to
    BY <1>8, <2>1, <2>4
  <2>5. CASE s = pass /\ checkpoint'[pass] = checkpoint[pass]
             /\ failed' = failed \cup {"checkpointWrite"}
    <3>1. "checkpointRead" \notin failed
      BY <2>1, <2>5 DEF Lossy
    <3>. QED  BY <2>2, <2>5, <3>1
  <2>. QED  BY <1>4, <2>3, <2>4, <2>5
<1>10. CASE EndPass
  BY <1>1, <1>2, <1>9, <1>10, EndPassSyncs
<1>11. CASE ~EndPass
  <2>1. step' = "fetch" /\ from' = to + 1 /\ pass' = pass
    BY <1>1, <1>11 DEF NextChunk
  <2>2. "checkpointRead" \notin failed' => checkpoint'[pass'] < from'
    <3>. DEFINE C == checkpoint[pass]
                D == checkpoint'[pass]
    <3>1. C \in Nat
      BY <1>2, SyncOf
    <3>2. D = to \/ (D = C /\ ("checkpointRead" \notin failed' => C < from))
      BY <1>4, <1>6, <1>7
    <3>. HIDE DEF C, D
    <3>3. "checkpointRead" \notin failed' => D < to + 1
      BY <1>2, <1>6, <3>1, <3>2
    <3>. QED  BY <2>1, <3>3 DEF D
  <2>. QED  BY <1>1, <1>2, <1>8, <1>9, <2>1, <2>2, ReadsFrom
<1>. QED  BY <1>10, <1>11
----------------------------------------------------------------------------
\* What the k-th statement of an event's handler does to the cells: those the event does not
\* write say what they said; those it writes say it once their statement has run.
Written(d, w, e, k) ==
  \A s \in Stream : \A c \in Cells(s) :
    /\ e \notin Writers(c) => \A x \in Writers(c) : Says(d, c, x) => Says(w, c, x)
    /\ e \in Writers(c) /\ (StatementOf(c, e) = k \/ Says(d, c, e)) => Says(w, c, e)

\* A statement that writes none of the cells' tables.
LEMMA Unwritten ==
  ASSUME NEW d, NEW w, NEW e, NEW k, w.masjids = d.masjids, w.attests = d.attests,
         w.verifiers = d.verifiers,
         \A s \in Stream : \A c \in Cells(s) : e \in Writers(c) => StatementOf(c, e) # k
  PROVE  Written(d, w, e, k) /\ (Complete(d) => Complete(w))
<1>1. ASSUME NEW c, NEW x
      PROVE  Says(w, c, x) <=> Says(d, c, x)
  BY Zenon DEF Says
<1>2. Complete(d) => Complete(w)
  BY DEF Complete, FindByID
<1>. QED  BY <1>1, <1>2 DEF Written

\* A statement that writes a mosque's row.
LEMMA RowWritten ==
  ASSUME NEW d \in Tables, NEW w, NEW m \in Mosque, NEW row, NEW e \in Event, NEW k \in 1..2,
         w = [d EXCEPT !.masjids[m] = row], e.kind \in Topics[Protocol], e.masjidId = m,
         e.kind = "MasjidAttested" => k = 2,
         \A column \in RowColumn : e.kind \notin Kinds(column) =>
           \A x : x.kind \in Kinds(column) /\ SaysRow(d.masjids[m], column, x) =>
                    SaysRow(row, column, x),
         \A column \in RowColumn : e.kind \in Kinds(column) => SaysRow(row, column, e),
         row.masjidAdmin = Founder, row.status # "absent"
  PROVE  Written(d, w, e, k) /\ (Complete(d) => Complete(w))
<1>1. /\ w.masjids = [d.masjids EXCEPT ![m] = row] /\ w.attests = d.attests
      /\ w.verifiers = d.verifiers
  BY DEF Tables
<1>2. \A x \in Mosque : w.masjids[x] = IF x = m THEN row ELSE d.masjids[x]
  BY <1>1 DEF Tables
<1>3. ASSUME NEW c \in VerifierCell \cup VoteCell, NEW x
      PROVE  Says(w, c, x) <=> Says(d, c, x)
  <2>1. c.column \notin RowColumn
    BY DEF VerifierCell, VoteCell, RowColumn
  <2>. QED  BY <1>1, <2>1, Zenon DEF Says
<1>4. ASSUME NEW c \in RowCell, NEW x
      PROVE  /\ c.of = m => (Says(w, c, x) <=> SaysRow(row, c.column, x))
             /\ c.of = m => (Says(d, c, x) <=> SaysRow(d.masjids[m], c.column, x))
             /\ c.of # m => (Says(w, c, x) <=> Says(d, c, x))
  <2>1. c.column \in RowColumn /\ c.column # "verifier" /\ c.column # "vote" /\ c.of \in Mosque
    BY DEF RowCell, RowColumn
  <2>2. /\ Says(w, c, x) <=> SaysRow(w.masjids[c.of], c.column, x)
        /\ Says(d, c, x) <=> SaysRow(d.masjids[c.of], c.column, x)
    BY <2>1, Zenon DEF Says
  <2>3. w.masjids[c.of] = IF c.of = m THEN row ELSE d.masjids[c.of]
    BY <1>2, <2>1
  <2>4. CASE c.of = m
    BY <2>2, <2>3, <2>4
  <2>5. CASE c.of # m
    <3>1. w.masjids[c.of] = d.masjids[c.of]
      BY <2>3, <2>5
    <3>. QED  BY <2>2, <2>5, <3>1
  <2>. QED  BY <2>4, <2>5
<1>5. ASSUME NEW c \in RowCell
      PROVE  /\ c.column \in RowColumn
             /\ \A x : x \in Writers(c) <=> x \in Event /\ x.kind \in Kinds(c.column) /\ x.masjidId = c.of
  <2>1. c.column \in RowColumn /\ c.column # "verifier" /\ c.column # "vote" /\ c.of \in Mosque
    BY DEF RowCell, RowColumn
  <2>. QED  BY <2>1 DEF Writers, Writes
<1>6. ASSUME NEW c \in VoteCell, e \in Writers(c)
      PROVE  StatementOf(c, e) # k
  <2>1. c.column = "vote" /\ e.kind = "MasjidAttested"
    BY <1>6 DEF VoteCell, Writers, Writes, Kinds
  <2>. QED  BY <2>1 DEF StatementOf
<1>7. ASSUME NEW c \in VerifierCell
      PROVE  e \notin Writers(c)
  <2>1. c.column = "verifier" /\ Kinds("verifier") = {"VerifierAdded", "VerifierRemoved"}
    BY DEF VerifierCell, Kinds
  <2>2. e.kind \notin {"VerifierAdded", "VerifierRemoved"}
    BY DEF Topics, Protocol
  <2>. QED  BY <2>1, <2>2 DEF Writers, Writes
<1>8. ASSUME NEW s \in Stream, NEW c \in Cells(s)
      PROVE  /\ e \notin Writers(c) => \A x \in Writers(c) : Says(d, c, x) => Says(w, c, x)
             /\ e \in Writers(c) /\ (StatementOf(c, e) = k \/ Says(d, c, e)) => Says(w, c, e)
  <2>1. CASE c \in RowCell
    <3>1. ASSUME e \notin Writers(c), NEW x \in Writers(c), Says(d, c, x)
          PROVE  Says(w, c, x)
      <4>1. CASE c.of # m
        BY <1>4, <2>1, <3>1, <4>1
      <4>2. CASE c.of = m
        <5>1. e.kind \notin Kinds(c.column) /\ x.kind \in Kinds(c.column) /\ c.column \in RowColumn
          BY <1>5, <2>1, <3>1, <4>2
        <5>2. SaysRow(d.masjids[m], c.column, x)
          BY <1>4, <2>1, <3>1, <4>2
        <5>3. SaysRow(row, c.column, x)
          BY <5>1, <5>2
        <5>. QED  BY <1>4, <2>1, <4>2, <5>3
      <4>. QED  BY <4>1, <4>2
    <3>2. ASSUME e \in Writers(c)
          PROVE  Says(w, c, e)
      <4>1. e.kind \in Kinds(c.column) /\ c.column \in RowColumn /\ c.of = m
        BY <1>5, <2>1, <3>2
      <4>. QED  BY <1>4, <2>1, <4>1
    <3>. QED  BY <3>1, <3>2
  <2>2. CASE c \in VoteCell
    BY <1>3, <1>6, <2>2
  <2>3. CASE c \in VerifierCell
    BY <1>3, <1>7, <2>3
  <2>. QED  BY <2>1, <2>2, <2>3, CellsOf
<1>9. Complete(d) => Complete(w)
  BY <1>2 DEF Complete, FindByID
<1>. QED  BY <1>8, <1>9 DEF Written

\* A registration, a decision and a change of status write the mosque's row.
LEMMA RegisteredWrites ==
  ASSUME NEW d \in Tables, NEW e \in Event, NEW tx, e.kind = "MasjidRegistered"
  PROVE  LET w == Handle(d, e, 1, tx) IN Written(d, w, e, 1) /\ (Complete(d) => Complete(w))
<1>. DEFINE row == [NoRow EXCEPT !.status = "pending", !.masjidAdmin = e.proposer]
            w == Handle(d, e, 1, tx)
            m == e.masjidId
<1>1. m \in Mosque /\ e.proposer = Founder /\ e.kind \in Topics[Protocol]
  BY EventFields, ProtocolKinds DEF Registered, Decisive
<1>2. w = [d EXCEPT !.masjids[m] = row]
  BY DEF Handle, HandleMasjidRegistered
<1>3. /\ row.status = "pending" /\ row.masjidAdmin = Founder /\ row.instanceAddr = FALSE
      /\ row.attestYes = 0 /\ row.attestNo = 0
  BY <1>1 DEF NoRow
<1>. HIDE DEF row, w
<1>4. \A column \in RowColumn : e.kind \in Kinds(column) /\ SaysRow(row, column, e)
  BY <1>3 DEF RowColumn, Kinds, Decisive, SaysRow, StatusAfter
<1>. QED  BY <1>1, <1>2, <1>3, <1>4, RowWritten DEF w

LEMMA StatusWrites ==
  ASSUME NEW d \in Tables, NEW e \in Event, NEW tx,
         e.kind \in {"MasjidRejected", "MasjidStatusUpdated"}, Complete(d)
  PROVE  LET w == Handle(d, e, 1, tx) IN
         /\ FindByID(d, e.masjidId) => Written(d, w, e, 1)
         /\ Complete(w)
<1>. DEFINE w == Handle(d, e, 1, tx)
            m == e.masjidId
            old == d.masjids[m]
            row == [old EXCEPT !.status = StatusAfter(e)]
<1>1. m \in Mosque /\ e.kind \in Topics[Protocol] /\ e.kind \in Decisive
  BY EventFields, ProtocolKinds DEF Decisive
<1>2. StatusAfter(e) # "absent"
  BY <1>1, StatusOfEvent DEF Deciding
<1>3. w = UpdateStatus(d, m, StatusAfter(e))
  BY DEF Handle, HandleMasjidRejected, HandleStatus, StatusAfter
<1>. HIDE DEF w
<1>4. CASE ~FindByID(d, m)
  BY <1>3, <1>4 DEF UpdateStatus, w
<1>5. CASE FindByID(d, m)
  <2>1. w = [d EXCEPT !.masjids[m] = row]
    BY <1>3, <1>5 DEF UpdateStatus
  <2>2. /\ old \in MasjidRows
        /\ old.masjidAdmin = Founder
    BY <1>1, <1>5 DEF Tables, MasjidRows, Complete
  <2>. HIDE DEF old
  <2>3. /\ row.status = StatusAfter(e) /\ row.masjidAdmin = Founder
        /\ row.instanceAddr = old.instanceAddr
        /\ row.attestYes = old.attestYes /\ row.attestNo = old.attestNo
    BY <2>2 DEF MasjidRows
  <2>. HIDE DEF row
  <2>4. ASSUME NEW column \in RowColumn
        PROVE  /\ e.kind \in Kinds(column) => SaysRow(row, column, e)
               /\ e.kind \notin Kinds(column) =>
                    \A x : SaysRow(old, column, x) => SaysRow(row, column, x)
    <3>1. CASE column = "row"
      BY <1>2, <2>3, <3>1 DEF SaysRow, Kinds
    <3>2. CASE column = "status"
      BY <1>1, <2>3, <3>2 DEF SaysRow, Kinds
    <3>3. CASE column = "instance"
      BY <2>3, <3>3 DEF SaysRow, Kinds
    <3>4. CASE column = "counts"
      BY <2>3, <3>4 DEF SaysRow, Kinds
    <3>. QED  BY <3>1, <3>2, <3>3, <3>4 DEF RowColumn
  <2>5. Written(d, w, e, 1) /\ (Complete(d) => Complete(w))
    BY <1>1, <1>2, <2>1, <2>3, <2>4, RowWritten DEF old
  <2>. QED  BY <2>5 DEF w
<1>. QED  BY <1>4, <1>5 DEF w

LEMMA VerifiedWrites ==
  ASSUME NEW d \in Tables, NEW e \in Event, NEW tx, NEW k \in 1..2, e.kind = "MasjidVerified",
         Complete(d)
  PROVE  LET w == Handle(d, e, k, tx) IN
         /\ FindByID(d, e.masjidId) => Written(d, w, e, k)
         /\ Complete(w)
<1>. DEFINE w == Handle(d, e, k, tx)
            m == e.masjidId
            old == d.masjids[m]
            row == [old EXCEPT !.instanceAddr = TRUE, !.status = "verified"]
<1>1. m \in Mosque /\ e.kind \in Topics[Protocol]
  BY EventFields, ProtocolKinds DEF Decisive
<1>2. w = HandleMasjidVerified(d, e, k)
  BY DEF Handle
<1>. HIDE DEF w
<1>3. CASE ~FindByID(d, m)
  BY <1>2, <1>3 DEF HandleMasjidVerified, UpdateVerified, w
<1>4. CASE FindByID(d, m) /\ k = 1
  <2>1. w = [d EXCEPT !.masjids[m] = row]
    BY <1>2, <1>4 DEF HandleMasjidVerified, UpdateVerified
  <2>2. /\ old \in MasjidRows
        /\ old.masjidAdmin = Founder
    BY <1>1 DEF Tables, MasjidRows, Complete
  <2>. HIDE DEF old
  <2>3. /\ row.status = "verified" /\ row.masjidAdmin = Founder /\ row.instanceAddr = TRUE
        /\ row.attestYes = old.attestYes /\ row.attestNo = old.attestNo
    BY <2>2 DEF MasjidRows
  <2>. HIDE DEF row
  <2>4. ASSUME NEW column \in RowColumn
        PROVE  /\ e.kind \in Kinds(column) => SaysRow(row, column, e)
               /\ e.kind \notin Kinds(column) =>
                    \A x : SaysRow(old, column, x) => SaysRow(row, column, x)
    <3>1. CASE column = "row"
      BY <2>3, <3>1 DEF SaysRow, Kinds
    <3>2. CASE column = "status"
      BY <2>3, <3>2 DEF SaysRow, Kinds, StatusAfter, Decisive
    <3>3. CASE column = "instance"
      BY <2>3, <3>3 DEF SaysRow, Kinds
    <3>4. CASE column = "counts"
      BY <2>3, <3>4 DEF SaysRow, Kinds
    <3>. QED  BY <3>1, <3>2, <3>3, <3>4 DEF RowColumn
  <2>5. Written(d, w, e, 1) /\ (Complete(d) => Complete(w))
    BY <1>1, <2>1, <2>3, <2>4, RowWritten DEF old
  <2>. QED  BY <1>4, <2>5 DEF w
<1>5. CASE FindByID(d, m) /\ k = 2
  <2>1. w = UpsertUser(d, d.masjids[m].masjidAdmin, "board")
    BY <1>2, <1>5 DEF HandleMasjidVerified
  <2>2. w.masjids = d.masjids /\ w.attests = d.attests /\ w.verifiers = d.verifiers
    BY <2>1 DEF UpsertUser, Tables
  <2>3. \A c : StatementOf(c, e) # k
    BY <1>5 DEF StatementOf
  <2>. QED  BY <2>2, <2>3, Unwritten DEF w
<1>. QED  BY <1>3, <1>4, <1>5 DEF w

\* A vote writes its row, then the counts.
LEMMA AttestedWrites ==
  ASSUME NEW d \in Tables, NEW e \in Event, NEW tx, NEW k \in 1..2, e.kind = "MasjidAttested",
         Complete(d)
  PROVE  LET w == Handle(d, e, k, tx) IN
         /\ FindByID(d, e.masjidId) => Written(d, w, e, k)
         /\ Complete(w)
<1>. DEFINE w == Handle(d, e, k, tx)
            m == e.masjidId
            old == d.masjids[m]
            row == [old EXCEPT !.attestYes = e.yesCount, !.attestNo = e.noCount]
<1>1. m \in Mosque /\ e.kind \in Topics[Protocol]
  BY EventFields, ProtocolKinds DEF Decisive
<1>2. w = HandleMasjidAttested(d, e, k)
  BY DEF Handle
<1>. HIDE DEF w
<1>3. CASE ~FindByID(d, m)
  BY <1>2, <1>3 DEF HandleMasjidAttested, w
<1>4. CASE FindByID(d, m) /\ k = 2
  <2>1. w = [d EXCEPT !.masjids[m] = row]
    BY <1>2, <1>4 DEF HandleMasjidAttested, UpdateAttestCounts
  <2>2. /\ old \in MasjidRows
        /\ old.masjidAdmin = Founder
        /\ old.status # "absent"
    BY <1>1, <1>4 DEF Tables, MasjidRows, Complete, FindByID
  <2>. HIDE DEF old
  <2>3. /\ row.status = old.status /\ row.masjidAdmin = Founder
        /\ row.instanceAddr = old.instanceAddr
        /\ row.attestYes = e.yesCount /\ row.attestNo = e.noCount
    BY <2>2 DEF MasjidRows
  <2>. HIDE DEF row
  <2>4. ASSUME NEW column \in RowColumn
        PROVE  /\ e.kind \in Kinds(column) => SaysRow(row, column, e)
               /\ e.kind \notin Kinds(column) =>
                    \A x : SaysRow(old, column, x) => SaysRow(row, column, x)
    <3>1. CASE column = "row"
      BY <2>3, <3>1 DEF SaysRow, Kinds
    <3>2. CASE column = "status"
      BY <2>3, <3>2 DEF SaysRow, Kinds, Decisive
    <3>3. CASE column = "instance"
      BY <2>3, <3>3 DEF SaysRow, Kinds
    <3>4. CASE column = "counts"
      BY <2>3, <3>4 DEF SaysRow, Kinds
    <3>. QED  BY <3>1, <3>2, <3>3, <3>4 DEF RowColumn
  <2>5. Written(d, w, e, 2) /\ (Complete(d) => Complete(w))
    BY <1>1, <2>1, <2>2, <2>3, <2>4, RowWritten DEF old
  <2>. QED  BY <1>4, <2>5 DEF w
<1>5. CASE FindByID(d, m) /\ k = 1
  <2>. DEFINE vote == [masjidId |-> m, verifier |-> e.verifier, support |-> e.support]
              kept == { r \in d.attests : ~(r.masjidId = m /\ r.verifier = e.verifier) }
  <2>1. w = [d EXCEPT !.attests = kept \cup {vote}]
    BY <1>2, <1>5 DEF HandleMasjidAttested, UpsertAttest
  <2>2. w.attests = kept \cup {vote} /\ w.masjids = d.masjids /\ w.verifiers = d.verifiers
    BY <2>1 DEF Tables
  <2>3. Complete(w)
    BY <2>2 DEF Complete, FindByID
  <2>4. ASSUME NEW c, c.column # "vote", NEW x
        PROVE  Says(w, c, x) <=> Says(d, c, x)
    BY <2>2, <2>4, Zenon DEF Says
  <2>5. ASSUME NEW c \in VoteCell, NEW x
        PROVE  LET r == [masjidId |-> c.of, verifier |-> c.by, support |-> x.support] IN
               (Says(w, c, x) <=> r \in w.attests) /\ (Says(d, c, x) <=> r \in d.attests)
    <3>1. c.column = "vote" /\ c.column # "verifier" /\ c.column \notin RowColumn
      BY DEF VoteCell, RowColumn
    <3>. QED  BY <3>1, Zenon DEF Says
  <2>6. ASSUME NEW c \in VoteCell
        PROVE  /\ e \in Writers(c) => Says(w, c, e)
               /\ e \notin Writers(c) => \A x : Says(d, c, x) => Says(w, c, x)
    <3>1. c.column = "vote" /\ Kinds("vote") = {"MasjidAttested"}
      BY DEF VoteCell, Kinds
    <3>2. e \in Writers(c) <=> m = c.of /\ e.verifier = c.by
      BY <3>1 DEF Writers, Writes
    <3>3. e \in Writers(c) => Says(w, c, e)
      BY <2>2, <2>5, <3>2
    <3>4. ASSUME e \notin Writers(c), NEW x, Says(d, c, x)
          PROVE  Says(w, c, x)
      <4>. DEFINE r == [masjidId |-> c.of, verifier |-> c.by, support |-> x.support]
      <4>1. r.masjidId = c.of /\ r.verifier = c.by /\ r \in d.attests
        BY <2>5, <3>4
      <4>2. r \in w.attests
        BY <2>2, <3>2, <3>4, <4>1
      <4>. QED  BY <2>5, <4>2
    <3>. QED  BY <3>3, <3>4
  <2>7. ASSUME NEW s \in Stream, NEW c \in Cells(s), c.column # "vote", e \in Writers(c)
        PROVE  StatementOf(c, e) = 2
    <3>1. CASE c \in VerifierCell
      BY <2>7, <3>1 DEF VerifierCell, Writers, Writes, Kinds
    <3>2. CASE c \in RowCell
      <4>1. c.column \in RowColumn /\ e.kind \in Kinds(c.column)
        BY <2>7, <3>2 DEF RowCell, Writers, Writes
      <4>2. c.column = "counts"
        BY <4>1 DEF RowColumn, Kinds, Decisive
      <4>. QED  BY <4>2 DEF StatementOf
    <3>. QED  BY <2>7, <3>1, <3>2, CellsOf DEF VoteCell
  <2>8. ASSUME NEW s \in Stream, NEW c \in Cells(s)
        PROVE  /\ e \notin Writers(c) => \A x \in Writers(c) : Says(d, c, x) => Says(w, c, x)
               /\ e \in Writers(c) /\ (StatementOf(c, e) = k \/ Says(d, c, e)) => Says(w, c, e)
    <3>1. CASE c \in VoteCell
      BY <2>6, <3>1
    <3>2. CASE c \notin VoteCell
      <4>1. c.column # "vote"
        BY <3>2, CellsOf DEF VerifierCell, RowCell, RowColumn
      <4>2. e \in Writers(c) => StatementOf(c, e) # k
        BY <1>5, <2>7, <4>1
      <4>. QED  BY <2>4, <4>1, <4>2
    <3>. QED  BY <3>1, <3>2
  <2>. QED  BY <2>3, <2>8 DEF Written, w
<1>. QED  BY <1>3, <1>4, <1>5 DEF w

\* The registry's events write a verifier, then a user.
LEMMA RegistryWrites ==
  ASSUME NEW d \in Tables, NEW e \in Event, NEW tx, NEW k \in 1..2,
         e.kind \in {"VerifierAdded", "VerifierRemoved"}
  PROVE  LET w == Handle(d, e, k, tx) IN Written(d, w, e, k) /\ (Complete(d) => Complete(w))
<1>. DEFINE w == Handle(d, e, k, tx)
            a == e.address
            added == e.kind = "VerifierAdded"
<1>1. a \in Account /\ d.verifiers \in [Account -> {"absent", "active", "inactive"}]
  BY EventFields DEF Tables
<1>2. \/ added /\ w = HandleVerifierAdded(d, e, k)
      \/ ~added /\ w = HandleVerifierRemoved(d, e, k)
  BY DEF Handle
<1>. HIDE DEF w
<1>3. w.masjids = d.masjids /\ w.attests = d.attests
  BY <1>2 DEF HandleVerifierAdded, HandleVerifierRemoved, UpsertVerifier, UpsertUser, Deactivate,
              UpdateRole, Tables
<1>4. k = 2 => w.verifiers = d.verifiers
  BY <1>2 DEF HandleVerifierAdded, HandleVerifierRemoved, UpsertUser, UpdateRole, Tables
<1>5. CASE k = 2
  <2>1. \A c : StatementOf(c, e) # k
    BY <1>5 DEF StatementOf
  <2>2. Written(d, w, e, k) /\ (Complete(d) => Complete(w))
    BY <1>3, <1>4, <1>5, <2>1, Unwritten
  <2>. QED  BY <2>2 DEF w
<1>6. CASE k = 1
  <2>1. /\ added => w.verifiers = [d.verifiers EXCEPT ![a] = "active"]
        /\ ~added => w.verifiers \in {d.verifiers, [d.verifiers EXCEPT ![a] = "inactive"]}
        /\ ~added => w.verifiers[a] # "active"
    BY <1>1, <1>2, <1>6 DEF HandleVerifierAdded, HandleVerifierRemoved, UpsertVerifier, Deactivate,
                             Tables
  <2>2. /\ w.verifiers[a] = "active" <=> added
        /\ \A x \in Account : x # a => w.verifiers[x] = d.verifiers[x]
    BY <1>1, <2>1
  <2>3. ASSUME NEW c \in RowCell \cup VoteCell, NEW x
        PROVE  (Says(w, c, x) <=> Says(d, c, x)) /\ e \notin Writers(c)
    <3>1. c.column # "verifier" /\ c.column \in RowColumn \cup {"vote"}
      BY DEF RowCell, VoteCell, RowColumn
    <3>2. e.kind \notin Kinds(c.column)
      BY <3>1 DEF Kinds, RowColumn, Decisive
    <3>3. e \notin Writers(c)
      BY <3>2 DEF Writers, Writes
    <3>4. Says(w, c, x) <=> Says(d, c, x)
      BY <1>3, <3>1, Zenon DEF Says
    <3>. QED  BY <3>3, <3>4
  <2>4. ASSUME NEW c \in VerifierCell, NEW x
        PROVE  /\ Says(w, c, x) <=> (w.verifiers[c.of] = "active" <=> x.kind = "VerifierAdded")
               /\ Says(d, c, x) <=> (d.verifiers[c.of] = "active" <=> x.kind = "VerifierAdded")
               /\ e \in Writers(c) <=> a = c.of
               /\ c.of \in Account
    <3>1. c.column = "verifier" /\ c.column # "vote" /\ c.column \notin RowColumn /\ c.of \in Account
      BY DEF VerifierCell, RowColumn
    <3>2. e \in Writers(c) <=> a = c.of
      BY <3>1 DEF Writers, Writes, Kinds
    <3>. QED  BY <3>1, <3>2, Zenon DEF Says
  <2>5. ASSUME NEW c \in VerifierCell
        PROVE  /\ e \in Writers(c) => Says(w, c, e)
               /\ e \notin Writers(c) => \A x : Says(d, c, x) => Says(w, c, x)
    BY <2>2, <2>4
  <2>6. Complete(d) => Complete(w)
    BY <1>3 DEF Complete, FindByID
  <2>7. \A s \in Stream : \A c \in Cells(s) : c \in VerifierCell \/ c \in RowCell \cup VoteCell
    BY CellsOf
  <2>8. Written(d, w, e, k)
    BY <2>3, <2>5, <2>7 DEF Written
  <2>. QED  BY <2>6, <2>8 DEF w
<1>. QED  BY <1>5, <1>6

\* The events of the instances write no cell.
LEMMA OthersWrite ==
  ASSUME NEW d \in Tables, NEW e \in Event, NEW tx, NEW k \in 1..2,
         e.kind \in Topics["MasjidInstance"]
  PROVE  LET w == Handle(d, e, k, tx) IN Written(d, w, e, k) /\ (Complete(d) => Complete(w))
<1>. DEFINE w == Handle(d, e, k, tx)
            Kept == w.masjids = d.masjids /\ w.attests = d.attests /\ w.verifiers = d.verifiers
<1>1. e.kind \in {"CashIn", "CashOutProposed", "CashOutApproved", "CashOutExecuted",
                  "CashOutCanceled", "BoardMemberUpdated"}
  BY DEF Topics
<1>2. ASSUME e.kind = "CashIn" PROVE Kept
  BY <1>2 DEF Handle, HandleCashIn, Tables
<1>3. ASSUME e.kind = "CashOutProposed" PROVE Kept
  BY <1>3 DEF Handle, HandleCashOutProposed, Tables
<1>4. ASSUME e.kind = "CashOutApproved" PROVE Kept
  BY <1>4 DEF Handle, HandleCashOutApproved, Tables
<1>5. ASSUME e.kind = "CashOutExecuted" PROVE Kept
  BY <1>5 DEF Handle, HandleCashOutExecuted, Tables
<1>6. ASSUME e.kind = "CashOutCanceled" PROVE Kept
  BY <1>6 DEF Handle, HandleCashOutCanceled, Tables
<1>7. ASSUME e.kind = "BoardMemberUpdated" PROVE Kept
  <2>1. w = HandleBoardMemberUpdated(d, e, k)
    BY <1>7 DEF Handle
  <2>. HIDE DEF w
  <2>2. w = UpsertBoardMember(d, e) \/ \E role : w = UpsertUser(d, e.member, role)
    BY <2>1 DEF HandleBoardMemberUpdated
  <2>3. CASE w = UpsertBoardMember(d, e)
    BY <2>3 DEF UpsertBoardMember, Tables
  <2>4. CASE \E role : w = UpsertUser(d, e.member, role)
    BY <2>4 DEF UpsertUser, Tables
  <2>. QED  BY <2>2, <2>3, <2>4
<1>. HIDE DEF w
<1>8. Kept
  BY <1>1, <1>2, <1>3, <1>4, <1>5, <1>6, <1>7
<1>9. \A s \in Stream : \A c \in Cells(s) : e \notin Writers(c)
  <2>1. \A s \in Stream : e.kind \in Topics[s] => s = "MasjidInstance"
    BY DEF Topics, Stream
  <2>. QED  BY <2>1, CellsOf
<1>. QED  BY <1>8, <1>9, Unwritten DEF w

\* Every statement of every handler, for a mosque that has its row.
LEMMA HandlersWrite ==
  ASSUME NEW d \in Tables, Complete(d), NEW e \in Event, NEW tx, NEW k \in 1..2,
         k <= Statements(e)
  PROVE  LET w == Handle(d, e, k, tx) IN
         /\ (e.kind \in Topics[Protocol] /\ e.kind # "MasjidRegistered" => FindByID(d, e.masjidId))
              => Written(d, w, e, k)
         /\ Complete(w)
<1>1. \/ e.kind \in {"MasjidRegistered", "MasjidRejected", "MasjidStatusUpdated"}
      \/ e.kind \in {"MasjidVerified", "MasjidAttested"}
      \/ e.kind \in {"VerifierAdded", "VerifierRemoved"}
      \/ e.kind \in Topics["MasjidInstance"]
  BY EventFields DEF Topics, Stream
<1>2. e.kind \in {"MasjidRejected", "MasjidStatusUpdated", "MasjidVerified", "MasjidAttested"} =>
        e.kind \in Topics[Protocol] /\ e.kind # "MasjidRegistered"
  BY DEF Topics, Protocol
<1>3. CASE e.kind \in {"MasjidRegistered", "MasjidRejected", "MasjidStatusUpdated"}
  <2>1. k = 1
    BY <1>3 DEF Statements
  <2>. QED  BY <1>2, <1>3, <2>1, RegisteredWrites, StatusWrites
<1>4. CASE e.kind \in {"MasjidVerified", "MasjidAttested"}
  BY <1>2, <1>4, VerifiedWrites, AttestedWrites
<1>. QED  BY <1>1, <1>3, <1>4, RegistryWrites, OthersWrite
----------------------------------------------------------------------------
\* The last of the remaining logs is the last of all, and the first is, if no other is left.
LEMMA TailInOrder ==
  ASSUME NEW ls \in Seq(Log), ls # <<>>, NEW P
  PROVE  /\ \A l : LastIs(Tail(ls), [event : P, tx : Nat], l) =>
                     LastIs(ls, [event : P, tx : Nat], l)
         /\ Head(ls).event \in P /\ P \cap EventsIn(ToSet(Tail(ls))) = {} =>
              LastIs(ls, [event : P, tx : Nat], Head(ls))
<1>. DEFINE n == Len(ls)
            PL == [event : P, tx : Nat]
            rs == Tail(ls)
<1>1. /\ n \in Nat /\ n >= 1 /\ DOMAIN ls = 1..n /\ Head(ls) = ls[1] /\ Head(ls) \in Log
      /\ DOMAIN rs = 1..(n - 1) /\ \A i \in 1..(n - 1) : rs[i] = ls[i + 1]
  OBVIOUS
<1>. HIDE DEF n, rs
<1>2. \A j \in 1..n : j = 1 \/ (j - 1 \in 1..(n - 1) /\ (j - 1) + 1 = j)
  BY <1>1
<1>3. \A i \in 1..(n - 1) : i + 1 \in 1..n /\ \A j \in 1..n : j > i + 1 => j - 1 > i /\ j # 1
  BY <1>1
<1>4. \A j \in 1..n : j # 1 => ls[j] = rs[j - 1] /\ j - 1 \in 1..(n - 1)
  BY <1>1, <1>2
<1>5. \A x \in PL : x.event \in P
  OBVIOUS
<1>6. Head(ls).event \in P => Head(ls) \in PL
  <2>1. Head(ls) = [event |-> Head(ls).event, tx |-> Head(ls).tx] /\ Head(ls).tx \in Nat
    BY <1>1 DEF Log
  <2>. QED  BY <2>1
<1>. HIDE DEF PL
<1>7. ASSUME NEW l, LastIs(rs, PL, l)
      PROVE  LastIs(ls, PL, l)
  <2>1. PICK i \in 1..(n - 1) : /\ rs[i] = l /\ l \in PL
                                /\ \A j \in 1..(n - 1) : j > i => rs[j] \notin PL
    BY <1>1, <1>7 DEF LastIs
  <2>2. ls[i + 1] = l /\ i + 1 \in 1..n
    BY <1>1, <1>3, <2>1
  <2>3. \A j \in 1..n : j > i + 1 => ls[j] \notin PL
    BY <1>3, <1>4, <2>1
  <2>. QED  BY <1>1, <2>1, <2>2, <2>3 DEF LastIs
<1>8. ASSUME Head(ls).event \in P, P \cap EventsIn(ToSet(rs)) = {}
      PROVE  LastIs(ls, PL, Head(ls))
  <2>1. ASSUME NEW j \in 1..n, j > 1
        PROVE  ls[j] \notin PL
    <3>1. j # 1
      BY <1>1, <2>1
    <3>2. ls[j] \in ToSet(rs)
      BY <1>1, <1>4, <3>1 DEF ToSet
    <3>3. ls[j].event \notin P
      BY <1>8, <3>2 DEF EventsIn
    <3>. QED  BY <1>5, <3>3
  <2>2. 1 \in 1..n
    BY <1>1
  <2>. QED  BY <1>1, <1>6, <1>8, <2>1, <2>2 DEF LastIs
<1>. QED  BY <1>7, <1>8 DEF PL, rs

\* A statement leaves a stream's cells right that its event does not write.
LEMMA WrittenKeeps ==
  ASSUME NEW s \in Stream, NEW d, NEW w, NEW e, NEW k, NEW events, NEW E, Written(d, w, e, k),
         RightOrAwaited(s, d, events, E), e \in E \/ e.kind \notin Topics[s]
  PROVE  RightOrAwaited(s, w, events, E)
<1>1. SUFFICES ASSUME NEW c \in Cells(s), Writers(c) \cap E = {}
               PROVE  Right(w, events, c)
  BY DEF RightOrAwaited
<1>2. e \notin Writers(c)
  BY <1>1, CellsOf
<1>3. Right(d, events, c)
  BY <1>1 DEF RightOrAwaited
<1>4. \A x : LastIs(events, Writers(c), x) => x \in Writers(c)
  BY DEF LastIs
<1>. QED  BY <1>2, <1>3, <1>4 DEF Written, Right

\* What the logs still to handle say of the state.
LEMMA LogsOfPass ==
  ASSUME IInv, SyncInv, step = "handle"
  PROVE  /\ pass \in Stream /\ logs # <<>> /\ logs \in Seq(Log) /\ statement \in 1..2
         /\ \A l \in ToSet(logs) :
              /\ l \in Log /\ l.tx \in from..to /\ l.tx \in 1..SafeHead
              /\ l.event \in ToSet(chain[l.tx]) /\ l.event \in Event
              /\ l.event.kind \in Topics[pass]
         /\ Head(logs) \in ToSet(logs)
         /\ from # 0 /\ from <= to /\ LogsInOrder
         /\ from \in Nat /\ to \in Nat /\ safeHead \in Nat /\ to <= safeHead
         /\ "checkpointRead" \notin failed => checkpoint[pass] < from
<1>1. pass \in Stream /\ logs # <<>> /\ statement \in 1..2 /\ logs \in Seq(FinalLogs)
      /\ from \in 0..safeHead /\ to \in 0..safeHead /\ safeHead \in Nat
  BY StateOf
<1>2. /\ FinalLogs \subseteq Log
      /\ \A l \in FinalLogs : l.tx \in 1..SafeHead /\ l.event \in ToSet(chain[l.tx])
  BY SyncOf, LogsAreEvents DEF FinalLogs
<1>3. ToSet(logs) \subseteq FinalLogs /\ Head(logs) \in ToSet(logs)
  BY <1>1 DEF ToSet
<1>4. logs \in Seq(Log)
  BY <1>1, <1>2
<1>5. from # 0 /\ from <= to /\ LogsInOrder
      /\ ("checkpointRead" \notin failed => checkpoint[pass] < from)
      /\ \A l \in ToSet(logs) : l.event.kind \in Topics[pass]
  BY DEF SyncInv, Positions
<1>6. \A l \in ToSet(logs) : l.tx \in from..to
  BY <1>5 DEF LogsInOrder
<1>7. \A l \in Log : l.event \in Event
  BY DEF Log
<1>8. from \in Nat /\ to \in Nat /\ to <= safeHead
  BY <1>1
<1>. QED  BY <1>1, <1>2, <1>3, <1>4, <1>5, <1>6, <1>7, <1>8

\* When a handler looks for the row of its mosque, it is there: the registration lies before
\* all the logs still to handle.
LEMMA RowIsThere ==
  ASSUME IInv, SyncInv, step = "handle", ~Lossy, pass = Protocol,
         Head(logs).event.kind # "MasjidRegistered"
  PROVE  FindByID(db, Head(logs).event.masjidId)
<1>. DEFINE l == Head(logs)
            e == l.event
            m == e.masjidId
            c == [column |-> "row", of |-> m]
            n == SafeHead
<1>1. l \in ToSet(logs) /\ l.tx \in 1..n /\ e \in ToSet(chain[l.tx]) /\ e \in Event
      /\ e.kind \in Topics[Protocol] /\ l.tx \in from..to
      /\ \A x \in ToSet(logs) : x.tx \in 1..n /\ x.event \in ToSet(chain[x.tx])
      /\ logs \in Seq(Log) /\ logs # <<>> /\ from \in Nat /\ to \in Nat
      /\ LogsInOrder
  BY LogsOfPass
<1>2. chain \in Seq(Seq(Event)) /\ Lawful(chain) /\ n \in 0..Len(chain) /\ n \in Nat
  BY SyncOf
<1>. HIDE DEF n, l
<1>3. m \in Mosque
  BY <1>1, OfMosque
<1>4. /\ 1..n \subseteq 1..Len(chain) /\ l.tx \in Nat
      /\ \A b \in 1..Len(chain) : b < l.tx => b \in 1..n
      /\ \A k \in (to + 1)..n : k \in 1..n /\ k > l.tx
  <2>. DEFINE t == l.tx
              o == Len(chain)
  <2>1. t \in 1..n /\ t \in from..to /\ n \in 0..o /\ n \in Nat /\ o \in Nat /\ from \in Nat /\ to \in Nat
    BY <1>1, <1>2
  <2>. HIDE DEF t, o
  <2>2. /\ 1..n \subseteq 1..o /\ t \in Nat /\ \A b \in 1..o : b < t => b \in 1..n
        /\ \A k \in (to + 1)..n : k \in 1..n /\ k > t
    BY <2>1
  <2>. QED  BY <2>2 DEF t, o
<1>5. PICK b \in 1..Len(chain) : b < l.tx /\ Registered(m) \in ToSet(chain[b])
  <2>1. l.tx \in 1..Len(chain) /\ e.kind # "MasjidRegistered"
    BY <1>1, <1>4 DEF l
  <2>. QED  BY <1>1, <1>2, <2>1, RegisteredBefore
<1>6. b \in 1..n
  BY <1>4, <1>5
<1>7. Registered(m).kind = "MasjidRegistered" /\ Registered(m).masjidId = m
  BY DEF Registered
<1>. HIDE DEF m
<1>8. Registered(m).kind \in Topics[Protocol]
  BY <1>7, ProtocolKinds DEF Decisive
<1>9. \A k \in 1..n : Registered(m) \in ToSet(chain[k]) => b = k
  BY <1>2, <1>3, <1>4, <1>5, <1>7, <1>8, RegisteredFirst
<1>10. c \in Cells(pass) /\ Writers(c) = {Registered(m)}
  <2>1. c \in RowCell /\ c.column = "row" /\ c.of = m
    BY <1>3 DEF RowCell, RowColumn
  <2>2. Registered(m) \in Event
    BY <1>3 DEF Registered, Event
  <2>3. \A x : x \in Writers(c) <=> x \in Event /\ x.kind = "MasjidRegistered" /\ x.masjidId = m
    BY <2>1 DEF Writers, Writes, Kinds
  <2>4. \A x \in Writers(c) : x = Registered(m)
    BY <2>3, EventFields
  <2>5. Registered(m) \in Writers(c)
    BY <1>7, <2>2, <2>3
  <2>6. c \in Cells(pass)
    BY <2>1 DEF Cells
  <2>. QED  BY <2>4, <2>5, <2>6
<1>11. Registered(m) \notin EventsIn(ToSet(logs))
  <2>1. SUFFICES ASSUME NEW x \in ToSet(logs), x.event = Registered(m)
                 PROVE  FALSE
    BY DEF EventsIn
  <2>2. l.tx <= x.tx
    BY <1>1, TailOrdered DEF LogsInOrder, l
  <2>3. b = x.tx /\ x.tx \in Nat
    BY <1>1, <1>9, <2>1
  <2>. QED  BY <1>4, <1>5, <2>2, <2>3
<1>12. Registered(m) \notin Ahead(chain, to + 1, n)
  <2>1. SUFFICES ASSUME NEW k \in (to + 1)..n, Registered(m) \in ToSet(chain[k])
                 PROVE  FALSE
    BY DEF Ahead
  <2>2. k \in 1..n /\ k > l.tx
    BY <1>4, <2>1
  <2>3. b = k
    BY <1>9, <2>1, <2>2
  <2>. QED  BY <1>4, <1>5, <2>2, <2>3
<1>13. Right(db, Final, c)
  <2>1. RightOrAwaited(pass, db, Final, EventsIn(ToSet(logs)) \cup Ahead(chain, to + 1, n))
    BY DEF SyncInv, TablesFollow, AtPosition, n
  <2>. HIDE DEF c
  <2>. QED  BY <1>10, <1>11, <1>12, <2>1 DEF RightOrAwaited
<1>14. PICK x : LastIs(Final, Writers(c), x)
  <2>1. Final \in Seq(Event) /\ ToSet(Final) = UNION {ToSet(chain[k]) : k \in 1..n}
    BY <1>2, EventsOfBlocks DEF Final, n
  <2>2. Registered(m) \in ToSet(Final)
    BY <1>5, <1>6, <2>1
  <2>. HIDE DEF c
  <2>3. ToSet(Final) \cap Writers(c) # {}
    BY <1>10, <2>2
  <2>. QED  BY <2>1, <2>3, LastExists
<1>15. Says(db, c, x)
  BY <1>13, <1>14 DEF Right
<1>16. c.column = "row" /\ c.of = m /\ "row" \in RowColumn
  BY DEF RowColumn
<1>. HIDE DEF c
<1>17. SaysRow(db.masjids[m], "row", x)
  BY <1>15, <1>16 DEF Says
<1>18. db.masjids[m].status # "absent"
  BY <1>17 DEF SaysRow
<1>. QED  BY <1>18 DEF FindByID, m, l

\* What the handler of the first log does, when nothing may be lost.
LEMMA HandlerWrites ==
  ASSUME IInv, SyncInv, step = "handle", statement <= Statements(Head(logs).event),
         db' = Handle(db, Head(logs).event, statement, Head(logs).tx)
  PROVE  /\ ~Lossy => Written(db, db', Head(logs).event, statement)
         /\ Complete(db')
<1>. DEFINE e == Head(logs).event
            tx == Head(logs).tx
<1>1. e \in Event /\ e.kind \in Topics[pass] /\ pass \in Stream /\ statement \in 1..2
  BY LogsOfPass
<1>2. db \in Tables /\ Complete(db)
  BY StateOf, SyncOf
<1>3. \A s \in Stream : e.kind \in Topics[s] => s = pass
  <2>1. \A s, r \in Stream : Topics[s] \cap Topics[r] # {} => s = r
    BY DEF Topics, Stream
  <2>. QED  BY <1>1, <2>1
<1>4. Protocol \in Stream
  BY ProtocolKinds
<1>5. ~Lossy => (e.kind \in Topics[Protocol] /\ e.kind # "MasjidRegistered" =>
                   FindByID(db, e.masjidId))
  BY <1>3, <1>4, RowIsThere
<1>6. db' = Handle(db, e, statement, tx) /\ statement <= Statements(e)
  OBVIOUS
<1>. HIDE DEF e, tx
<1>7. (~Lossy => Written(db, db', e, statement)) /\ Complete(db')
  BY <1>1, <1>2, <1>5, <1>6, HandlersWrite
<1>. QED  BY <1>7 DEF e

\* When the last statement has run, the cells the event writes say what it says, and those
\* that nothing writes later are right.
LEMMA LastWritten ==
  ASSUME IInv, SyncInv, step = "handle", ~Lossy, statement = Statements(Head(logs).event),
         NEW w, Written(db, w, Head(logs).event, statement)
  PROVE  RightOrAwaited(pass, w, Final,
                        EventsIn(ToSet(Tail(logs))) \cup Ahead(chain, to + 1, SafeHead))
<1>. DEFINE e == Head(logs).event
            later == Ahead(chain, to + 1, SafeHead)
            others == EventsIn(ToSet(Tail(logs)))
<1>1. /\ pass \in Stream /\ logs # <<>> /\ logs \in Seq(Log) /\ statement \in 1..2
      /\ Head(logs) \in ToSet(logs) /\ InOrder(logs, pass, Final, later)
  BY LogsOfPass DEF LogsInOrder
<1>2. EventsIn(ToSet(logs)) = {e} \cup others
  BY <1>1, HeadAndTail DEF EventsIn
<1>3. RightOrAwaited(pass, db, Final, {e} \cup others \cup later)
  <2>1. RightOrAwaited(pass, db, Final, EventsIn(ToSet(logs)) \cup later)
    BY DEF SyncInv, TablesFollow, AtPosition
  <2>. QED  BY <1>2, <2>1
<1>4. ASSUME NEW c \in Cells(pass), e \in Writers(c)
      PROVE  Says(w, c, e)
  <2>1. StatementOf(c, e) = statement \/ Says(db, c, e)
    <3>1. CASE statement = 2
      <4>1. StatementOf(c, e) \in {1, 2}
        BY DEF StatementOf
      <4>2. StatementOf(c, e) = 1 => Says(db, c, e)
        BY <1>4, <3>1 DEF SyncInv, TablesFollow, HalfDone
      <4>. QED  BY <3>1, <4>1, <4>2
    <3>2. CASE statement = 1
      <4>1. e.kind # "MasjidAttested"
        BY <3>2 DEF Statements
      <4>. QED  BY <3>2, <4>1 DEF StatementOf
    <3>. QED  BY <1>1, <3>1, <3>2
  <2>. QED  BY <1>1, <1>4, <2>1 DEF Written
<1>5. Final \in Seq(Event)
  BY SyncOf, EventsOfBlocks DEF Final
<1>6. SUFFICES ASSUME NEW c \in Cells(pass), Writers(c) \cap (others \cup later) = {}
               PROVE  Right(w, Final, c)
  BY DEF RightOrAwaited
<1>7. CASE e \notin Writers(c)
  <2>1. Right(db, Final, c)
    BY <1>3, <1>6, <1>7 DEF RightOrAwaited
  <2>2. \A x : LastIs(Final, Writers(c), x) => x \in Writers(c)
    BY DEF LastIs
  <2>. QED  BY <1>1, <1>7, <2>1, <2>2 DEF Written, Right
<1>8. CASE e \in Writers(c)
  <2>1. LastIs(logs, LogsWriting(c), Head(logs))
    BY <1>1, <1>6, <1>8, TailInOrder DEF LogsWriting
  <2>2. LastIs(Final, Writers(c), e)
    BY <1>1, <1>6, <2>1 DEF InOrder
  <2>3. \A x : LastIs(Final, Writers(c), x) => x = e
    BY <1>5, <2>2, LastUnique
  <2>. QED  BY <1>4, <1>8, <2>3 DEF Right
<1>. QED  BY <1>7, <1>8

\* The next log: the others stay in order.
LEMMA NextLogInOrder ==
  ASSUME IInv, SyncInv, step = "handle", NextLog, failed \subseteq failed',
         UNCHANGED <<chainVars, checkpoint, pass, safeHead, from, to>>
  PROVE  /\ Positions' /\ logs' = Tail(logs) /\ statement' = 1 /\ step' \in {"save", "handle"}
         /\ step' = "save" => EventsIn(ToSet(Tail(logs))) = {}
<1>. DEFINE others == Tail(logs)
            later == Ahead(chain, to + 1, SafeHead)
<1>1. /\ logs' = others /\ statement' = 1
      /\ step' = IF Len(logs) = 1 THEN "save" ELSE "handle"
  BY DEF NextLog
<1>2. /\ logs \in Seq(Log) /\ logs # <<>>
      /\ \A l \in ToSet(logs) : l.event.kind \in Topics[pass] /\ l.tx \in from..to
      /\ Ordered(logs) /\ InOrder(logs, pass, Final, later)
      /\ from # 0 /\ from <= to /\ ("checkpointRead" \notin failed => checkpoint[pass] < from)
  BY LogsOfPass DEF LogsInOrder
<1>3. /\ (Len(logs) = 1 => others = <<>>)
      /\ ToSet(others) \subseteq ToSet(logs)
      /\ Ordered(others)
  BY <1>2, TailOf, HeadAndTail, TailOrdered
<1>4. InOrder(others, pass, Final, later)
  <2>1. ASSUME NEW c, NEW l, LastIs(others, LogsWriting(c), l)
        PROVE  LastIs(logs, LogsWriting(c), l)
    BY <1>2, <2>1, TailInOrder DEF LogsWriting
  <2>. QED  BY <1>2, <1>3, <2>1 DEF InOrder
<1>5. chain' = chain /\ SafeHead' = SafeHead /\ Final' = Final
  BY StandsStill
<1>6. step' = "save" => EventsIn(ToSet(others)) = {}
  BY <1>1, <1>3 DEF EventsIn, ToSet
<1>. HIDE DEF others
<1>7. LogsInOrder'
  BY <1>1, <1>2, <1>3, <1>4, <1>5 DEF LogsInOrder
<1>8. Positions'
  BY <1>1, <1>2, <1>3, <1>7 DEF Positions
<1>. QED  BY <1>1, <1>6, <1>8 DEF others

LEMMA HandleLogSyncs ==
  ASSUME IInv, SyncInv, HandleLog
  PROVE  SyncInv'
<1>. DEFINE e == Head(logs).event
            n == SafeHead
            later == Ahead(chain, to + 1, n)
            others == EventsIn(ToSet(Tail(logs)))
<1>1. step = "handle" /\ UNCHANGED <<chainVars, checkpoint, pass, safeHead, from, to, instances>>
  BY DEF HandleLog
<1>2. chain' = chain /\ SafeHead' = n /\ Final' = Final
  BY <1>1, StandsStill
<1>3. /\ pass \in Stream /\ statement \in 1..2 /\ Lawful(chain) /\ Complete(db)
      /\ EventsIn(ToSet(logs)) = {e} \cup others /\ e.kind \in Topics[pass]
      /\ from # 0 /\ from <= to
      /\ ("checkpointRead" \notin failed => checkpoint[pass] < from) /\ LogsInOrder
      /\ \A l \in ToSet(logs) : l.event.kind \in Topics[pass]
  BY <1>1, LogsOfPass, SyncOf, HeadAndTail DEF EventsIn
<1>4. CASE Fails("handler") /\ NextLog /\ UNCHANGED db
  <2>1. failed' = failed \cup {"handler"}
    BY <1>4, FaultsStay
  <2>2. Lossy'
    BY <2>1 DEF Lossy
  <2>3. Positions'
    BY <1>1, <1>4, <2>1, NextLogInOrder
  <2>. QED  BY <1>2, <1>3, <1>4, <2>2, <2>3 DEF SyncInv, TablesFollow
<1>5. CASE /\ db' = Handle(db, e, statement, Head(logs).tx)
           /\ \/ statement < Statements(e) /\ statement' = statement + 1 /\ UNCHANGED <<logs, step>>
              \/ statement = Statements(e) /\ NextLog
           /\ UNCHANGED faultVars
  <2>1. failed' = failed /\ Statements(e) \in 1..2
    BY <1>5 DEF faultVars, Statements
  <2>2. statement <= Statements(e)
    BY <1>3, <1>5, <2>1
  <2>3. (~Lossy => Written(db, db', e, statement)) /\ Complete(db')
    BY <1>1, <1>5, <2>2, HandlerWrites
  <2>4. \A s \in Stream : e.kind \in Topics[s] => s = pass
    <3>1. \A s, r \in Stream : Topics[s] \cap Topics[r] # {} => s = r
      BY DEF Topics, Stream
    <3>. QED  BY <1>3, <3>1
  <2>5. "checkpointRead" \notin failed => e \in Ahead(chain, checkpoint[pass] + 1, n)
    <3>. DEFINE t == Head(logs).tx
                C == checkpoint[pass]
    <3>1. t \in from..to /\ t \in 1..n /\ e \in ToSet(chain[t]) /\ from \in Nat /\ C \in Nat /\ n \in Nat
      BY <1>1, <1>3, LogsOfPass, SyncOf
    <3>. HIDE DEF t, C
    <3>2. C < from => t \in (C + 1)..n
      BY <3>1
    <3>3. C < from => e \in Ahead(chain, C + 1, n)
      BY <3>1, <3>2 DEF Ahead
    <3>. QED  BY <1>3, <3>3 DEF C
  <2>6. ASSUME ~Lossy, NEW s \in Stream, pass # s \/ "checkpointRead" \notin failed
        PROVE  RightOrAwaited(s, db', Final, Ahead(chain, checkpoint[s] + 1, n))
    <3>1. RightOrAwaited(s, db, Final, Ahead(chain, checkpoint[s] + 1, n))
      BY <1>1, <2>6, SyncOf
    <3>2. e \in Ahead(chain, checkpoint[s] + 1, n) \/ e.kind \notin Topics[s]
      BY <2>4, <2>5, <2>6
    <3>. QED  BY <2>3, <2>6, <3>1, <3>2, WrittenKeeps
  <2>. HIDE DEF e, n, later, others
  <2>7. CASE statement < Statements(e) /\ statement' = statement + 1 /\ UNCHANGED <<logs, step>>
    <3>1. statement = 1 /\ statement' = 2
      BY <1>3, <2>1, <2>7
    <3>2. ASSUME ~Lossy
          PROVE  RightOrAwaited(pass, db', Final, {e} \cup others \cup later)
      <4>1. RightOrAwaited(pass, db, Final, EventsIn(ToSet(logs)) \cup later)
        BY <1>1, <3>2 DEF SyncInv, TablesFollow, AtPosition, later, n
      <4>2. RightOrAwaited(pass, db, Final, {e} \cup others \cup later)
        BY <1>3, <4>1
      <4>3. e \in {e} \cup others \cup later
        OBVIOUS
      <4>. QED  BY <1>3, <2>3, <3>2, <4>2, <4>3, WrittenKeeps
    <3>3. ASSUME ~Lossy
          PROVE  HalfDone'
      <4>1. SUFFICES ASSUME NEW c \in Cells(pass), e \in Writers(c), StatementOf(c, e) = 1
                     PROVE  Says(db', c, e)
        BY <1>1, <2>7 DEF HalfDone, e
      <4>. QED  BY <1>3, <2>3, <3>1, <3>3, <4>1 DEF Written
    <3>4. Lossy' <=> Lossy
      BY <2>1 DEF Lossy
    <3>5. ~Lossy => AtCheckpoint' /\ AtPosition'
      BY <1>1, <1>2, <1>3, <2>1, <2>6, <2>7, <3>2 DEF AtCheckpoint, AtPosition, later, n
    <3>6. LogsInOrder'
      BY <1>1, <1>2, <1>3, <2>7 DEF LogsInOrder, n
    <3>7. Positions'
      BY <1>1, <1>3, <2>1, <2>7, <3>6 DEF Positions
    <3>. QED  BY <1>2, <1>3, <2>3, <3>3, <3>4, <3>5, <3>7 DEF SyncInv, TablesFollow
  <2>8. CASE statement = Statements(e) /\ NextLog
    <3>1. /\ Positions' /\ logs' = Tail(logs) /\ statement' = 1 /\ step' \in {"save", "handle"}
          /\ step' = "save" => others = {}
      BY <1>1, <2>1, <2>8, NextLogInOrder DEF others
    <3>2. ~Lossy => RightOrAwaited(pass, db', Final, others \cup later)
      BY <1>1, <2>3, <2>8, LastWritten DEF e, later, n, others
    <3>3. Lossy' <=> Lossy
      BY <2>1 DEF Lossy
    <3>4. step' = "save" => others \cup later = later
      BY <3>1
    <3>5. EventsIn(ToSet(logs')) = others
      BY <3>1 DEF others
    <3>6. ~Lossy => AtPosition'
      BY <1>1, <1>2, <3>1, <3>2, <3>4, <3>5 DEF AtPosition, later, n
    <3>7. ~Lossy => AtCheckpoint'
      BY <1>1, <1>2, <2>1, <2>6, <3>1 DEF AtCheckpoint, n
    <3>8. HalfDone'
      BY <3>1 DEF HalfDone
    <3>. QED  BY <1>2, <1>3, <2>3, <3>1, <3>3, <3>6, <3>7, <3>8 DEF SyncInv, TablesFollow
  <2>. QED  BY <1>5, <2>7, <2>8 DEF e
<1>. QED  BY <1>4, <1>5 DEF HandleLog, e

----------------------------------------------------------------------------
\* The last event of a kind is one of the kind.
LEMMA LastIsThere ==
  ASSUME NEW E, NEW s \in Seq(E), NEW P, NEW x, LastIs(s, P, x)
  PROVE  x \in P /\ x \in ToSet(s)
BY DEF LastIs, ToSet

LEMMA SyncInit ==
  ASSUME Init
  PROVE  SyncInv
<1>1. /\ chain \in Seq(Seq(Event)) /\ pass = "idle" /\ step = "none" /\ statement = 1 /\ failed = {}
      /\ checkpoint = [s \in Stream |-> 0] /\ db = EmptyTables /\ chain = Genesis
  BY IndexerAssumption DEF Init, IndexerAssumption
<1>2. SafeHead \in 0..Len(chain)
  BY <1>1, SafeHeadType
<1>3. Final \in Seq(Event) /\ ToSet(Final) = Ahead(chain, 1, SafeHead)
  BY <1>1, <1>2, EventsOfBlocks DEF Final, Ahead
<1>4. \A s \in Stream : checkpoint[s] + 1 = 1
  BY <1>1
<1>5. \A s : RightOrAwaited(s, db, Final, Ahead(chain, 1, SafeHead))
  BY <1>3, LastIsThere DEF RightOrAwaited, Right
<1>6. AtCheckpoint
  BY <1>4, <1>5 DEF AtCheckpoint
<1>7. TablesFollow
  BY <1>1, <1>6 DEF TablesFollow, AtPosition, HalfDone
<1>8. Complete(db)
  <2>1. db.masjids = [m \in Mosque |-> NoRow]
    BY <1>1 DEF EmptyTables
  <2>. QED  BY <2>1 DEF Complete, NoRow
<1>9. Positions
  BY <1>1 DEF Positions
<1>10. Lawful(chain)
  BY <1>1, GenesisAssumption
<1>. QED  BY <1>7, <1>8, <1>9, <1>10 DEF SyncInv

LEMMA StutterSyncs ==
  ASSUME SyncInv, UNCHANGED vars
  PROVE  SyncInv'
<1>1. /\ UNCHANGED chainVars
      /\ UNCHANGED <<db, checkpoint, pass, step, from, to, logs, statement, failed>>
  BY DEF vars, chainVars, storedVars, processVars, faultVars
<1>2. chain' = chain /\ SafeHead' = SafeHead /\ Final' = Final
  BY <1>1, StandsStill
<1>3. LogsInOrder => LogsInOrder'
  BY <1>1, <1>2 DEF LogsInOrder
<1>4. Positions'
  BY <1>1, <1>2, <1>3 DEF SyncInv, Positions
<1>5. Lossy' <=> Lossy
  BY <1>1 DEF Lossy
<1>6. AtCheckpoint => AtCheckpoint'
  BY <1>1, <1>2 DEF AtCheckpoint
<1>7. AtPosition => AtPosition'
  BY <1>1, <1>2 DEF AtPosition
<1>8. HalfDone => HalfDone'
  BY <1>1 DEF HalfDone
<1>. QED  BY <1>1, <1>2, <1>4, <1>5, <1>6, <1>7, <1>8 DEF SyncInv, TablesFollow

(***************************************************************************)
(* The columns follow the chain whatever crashes, fails or is replayed.    *)
(***************************************************************************)
THEOREM ColumnsFollow == Spec => [](IInv /\ SyncInv)
<1>1. Init => IInv /\ SyncInv
  BY InitHolds, SyncInit
<1>2. IInv /\ SyncInv /\ [Next]_vars => SyncInv'
  BY ChainSyncs, BeginTickSyncs, EnterPassSyncs, FetchSyncs, HandleLogSyncs, SaveCheckpointSyncs,
     HangSyncs, CrashSyncs, StutterSyncs DEF Next, IndexerStep
<1>. QED  BY <1>1, <1>2, Invariant, PTL DEF Spec

\* Once a stream has caught up, each of its cells says what the chain says.
LEMMA CaughtUpIsRight ==
  ASSUME IInv, SyncInv, NEW s \in Stream, CaughtUp(s), ~Lossy
  PROVE  \A c \in Cells(s) : Right(db, Final, c)
<1>. DEFINE n == SafeHead
<1>1. pass # s /\ checkpoint[s] = n /\ n \in Nat
  BY SyncOf DEF CaughtUp
<1>2. RightOrAwaited(s, db, Final, Ahead(chain, n + 1, n))
  BY <1>1, SyncOf
<1>. HIDE DEF n
<1>3. Ahead(chain, n + 1, n) = {}
  <2>1. (n + 1)..n = {}
    BY <1>1
  <2>. QED  BY <2>1 DEF Ahead
<1>. QED  BY <1>2, <1>3 DEF RightOrAwaited

\* The final events, and what the tables can say of them.
LEMMA FinalEvents ==
  ASSUME IInv, SyncInv
  PROVE  /\ Final \in Seq(Event) /\ NoPhantomRows /\ db \in Tables /\ Complete(db)
         /\ \A e : e \in ToSet(Final) <=> \E b \in 1..SafeHead : e \in ToSet(chain[b])
<1>1. chain \in Seq(Seq(Event)) /\ SafeHead \in 0..Len(chain) /\ Complete(db)
  BY SyncOf
<1>2. Final \in Seq(Event) /\ ToSet(Final) = UNION {ToSet(chain[b]) : b \in 1..SafeHead}
  BY <1>1, EventsOfBlocks DEF Final
<1>3. NoPhantomRows /\ db \in Tables
  BY <1>1, StateOf, RealIsNoPhantom
<1>. QED  BY <1>1, <1>2, <1>3

\* The registry lists an account whose last event added it.
LEMMA VerifierLast ==
  ASSUME NEW events \in Seq(Event), NEW a \in Account, NEW c \in VerifierCell, c.of = a
  PROVE  \/ ~VerifierOnChain(events, a) /\ ToSet(events) \cap Writers(c) = {}
         \/ \E e \in Writers(c) : /\ LastIs(events, Writers(c), e)
                                  /\ VerifierOnChain(events, a) <=> e.kind = "VerifierAdded"
<1>. DEFINE I == {i \in 1..Len(events) : events[i].kind \in Topics.VerifierRegistry
                                           /\ events[i].address = a}
            last == IF I # {} THEN Max(I) ELSE 0
<1>1. VerifierOnChain(events, a) <=> last # 0 /\ events[last].kind = "VerifierAdded"
  BY DEF VerifierOnChain, SelectLastInSeq
<1>2. /\ Len(events) \in Nat /\ DOMAIN events = 1..Len(events)
      /\ \A i \in 1..Len(events) : events[i] \in Event
  OBVIOUS
<1>3. \A e \in Event : e \in Writers(c) <=> e.kind \in Topics.VerifierRegistry /\ e.address = a
  <2>1. c.column = "verifier" /\ Kinds("verifier") = Topics.VerifierRegistry
    BY DEF VerifierCell, Kinds, Topics
  <2>. QED  BY <2>1 DEF Writers, Writes
<1>4. I = {i \in 1..Len(events) : events[i] \in Writers(c)}
  BY <1>2, <1>3
<1>5. CASE I = {}
  <2>1. ~VerifierOnChain(events, a)
    BY <1>1, <1>5
  <2>2. \A i \in 1..Len(events) : events[i] \notin Writers(c)
    BY <1>4, <1>5
  <2>. HIDE DEF I
  <2>3. ToSet(events) \cap Writers(c) = {}
    BY <1>2, <2>2 DEF ToSet
  <2>. QED  BY <2>1, <2>3
<1>6. CASE I # {}
  <2>1. I \in SUBSET (1..Len(events))
    OBVIOUS
  <2>. HIDE DEF I
  <2>2. \E n \in I : \A k \in I : n >= k
    BY <1>2, <1>6, <2>1, GreatestIn
  <2>3. PICK n \in I : n = Max(I) /\ \A k \in I : n >= k
    BY <2>2 DEF Max
  <2>4. n \in 1..Len(events) /\ events[n] \in Writers(c) /\ n # 0
    BY <1>2, <1>4, <2>3
  <2>5. ASSUME NEW j \in DOMAIN events, j > n
        PROVE  events[j] \notin Writers(c)
    <3>1. j \in Nat /\ n \in Nat /\ j \in 1..Len(events)
      BY <1>2, <2>4
    <3>2. j \notin I
      BY <2>3, <2>5, <3>1
    <3>. QED  BY <1>4, <3>1, <3>2
  <2>6. LastIs(events, Writers(c), events[n])
    BY <1>2, <2>4, <2>5 DEF LastIs
  <2>7. VerifierOnChain(events, a) <=> events[n].kind = "VerifierAdded"
    BY <1>1, <1>6, <2>3, <2>4
  <2>. QED  BY <2>4, <2>6, <2>7
<1>. QED  BY <1>5, <1>6

(***************************************************************************)
(* Whatever crashed, failed or was replayed, once the registry's pass has  *)
(* caught up and no tick is running, the table lists as active exactly the *)
(* accounts the registry lists, for any chain, chunk size and number of    *)
(* faults, and with blocks added and replaced at any moment                *)
(* (processRegistry 75-117, event_service.go 169-189, 223-229).            *)
(***************************************************************************)
THEOREM VerifiersAreSynced == Spec => []VerifiersSynced
<1>1. IInv /\ SyncInv => VerifiersSynced
  <2>1. SUFFICES ASSUME IInv, SyncInv, CaughtUp("VerifierRegistry"), ~Lossy, NEW a \in Account
                 PROVE  db.verifiers[a] = "active" <=> VerifierOnChain(Final, a)
    BY DEF VerifiersSynced
  <2>. DEFINE c == [column |-> "verifier", of |-> a]
  <2>2. c \in VerifierCell /\ c \in Cells(Registry) /\ c.of = a /\ c.column = "verifier"
    BY DEF Cells, VerifierCell
  <2>3. Registry \in Stream /\ Registry = "VerifierRegistry"
    BY DEF Registry, Stream, Topics
  <2>. HIDE DEF c
  <2>4. Right(db, Final, c)
    BY <2>1, <2>2, <2>3, CaughtUpIsRight
  <2>5. Final \in Seq(Event) /\ NoPhantomRows
    BY <2>1, FinalEvents
  <2>6. \/ ~VerifierOnChain(Final, a) /\ ToSet(Final) \cap Writers(c) = {}
        \/ \E e \in Writers(c) : /\ LastIs(Final, Writers(c), e)
                                 /\ VerifierOnChain(Final, a) <=> e.kind = "VerifierAdded"
    BY <2>2, <2>5, VerifierLast
  <2>7. CASE ~VerifierOnChain(Final, a) /\ ToSet(Final) \cap Writers(c) = {}
    <3>1. VerifierAdded(a) \in Writers(c)
      BY <2>2 DEF Writers, Writes, Kinds, VerifierAdded, Event
    <3>2. VerifierAdded(a) \in ToSet(Final) \/ db.verifiers[a] = "absent"
      BY <2>5 DEF NoPhantomRows
    <3>. QED  BY <2>7, <3>1, <3>2
  <2>8. ASSUME NEW e \in Writers(c), LastIs(Final, Writers(c), e),
               VerifierOnChain(Final, a) <=> e.kind = "VerifierAdded"
        PROVE  db.verifiers[a] = "active" <=> VerifierOnChain(Final, a)
    <3>1. Says(db, c, e)
      BY <2>4, <2>8 DEF Right
    <3>2. db.verifiers[a] = "active" <=> e.kind = "VerifierAdded"
      BY <2>2, <3>1, Zenon DEF Says
    <3>. QED  BY <2>8, <3>2
  <2>. QED  BY <2>6, <2>7, <2>8
<1>. QED  BY <1>1, ColumnsFollow, PTL

\* Whatever the protocol said of a mosque for good, it said after its registration.
LEMMA RegisteredForGood ==
  ASSUME IInv, SyncInv, NEW e \in ToSet(Final), e \in Event, e.kind \in Topics[Protocol]
  PROVE  Registered(e.masjidId) \in ToSet(Final)
<1>. DEFINE n == SafeHead
<1>1. chain \in Seq(Seq(Event)) /\ Lawful(chain) /\ n \in Nat /\ n \in 0..Len(chain)
  BY SyncOf
<1>2. \A x : x \in ToSet(Final) <=> \E b \in 1..n : x \in ToSet(chain[b])
  BY FinalEvents
<1>. HIDE DEF n
<1>3. PICK k \in 1..n : e \in ToSet(chain[k])
  BY <1>2
<1>4. CASE e.kind = "MasjidRegistered"
  BY <1>4, EventFields
<1>5. CASE e.kind # "MasjidRegistered"
  <2>1. k \in 1..Len(chain)
    BY <1>1
  <2>2. PICK b \in 1..Len(chain) : b < k /\ Registered(e.masjidId) \in ToSet(chain[b])
    BY <1>1, <1>3, <1>5, <2>1, RegisteredBefore
  <2>3. b \in 1..n
    BY <1>1, <2>2
  <2>. QED  BY <1>2, <2>2, <2>3
<1>. QED  BY <1>4, <1>5

\* If the registration is the last of some events, it is the only one of the mosque.
LEMMA RegisteredIsLast ==
  ASSUME IInv, SyncInv, NEW m \in Mosque, NEW P, LastIs(Final, P, Registered(m)),
         NEW x \in ToSet(Final) \cap P, x.kind \in Topics[Protocol], x.masjidId = m
  PROVE  x = Registered(m)
<1>. DEFINE n == SafeHead
<1>1. chain \in Seq(Seq(Event)) /\ Lawful(chain) /\ n \in Nat /\ n \in 0..Len(chain)
  BY SyncOf
<1>2. PICK k \in 1..n : x \in ToSet(chain[k])
  BY FinalEvents
<1>3. PICK b \in 1..n : /\ LastIs(chain[b], P, Registered(m))
                        /\ \A j \in 1..n : j > b => ToSet(chain[j]) \cap P = {}
  BY <1>1, LastOfBlocks DEF Final
<1>. HIDE DEF n
<1>4. b \in 1..Len(chain) /\ k \in 1..Len(chain)
  BY <1>1
<1>5. Registered(m) \in ToSet(chain[b])
  BY <1>1, <1>3, <1>4, LastIsThere
<1>6. SUFFICES ASSUME x # Registered(m)
               PROVE  FALSE
  OBVIOUS
<1>7. b < k
  BY <1>1, <1>2, <1>4, <1>5, <1>6, RegisteredFirst
<1>. QED  BY <1>2, <1>3, <1>7

\* A mosque's row says what the chain says.
LEMMA RowFollows ==
  ASSUME IInv, SyncInv, CaughtUp("MasjidProtocol"), ~Lossy, NEW m \in Mosque
  PROVE  db.masjids[m] = RowOnChain(m)
<1>. DEFINE row == db.masjids[m]
            W(column) == { e \in Event : e.kind \in Kinds(column) /\ e.masjidId = m }
<1>1. /\ Final \in Seq(Event) /\ NoPhantomRows /\ row \in MasjidRows
      /\ row.masjidAdmin = Founder /\ (row.status = "absent" => row = NoRow)
  BY FinalEvents DEF Tables, MasjidRows, Complete, FindByID
<1>2. ASSUME NEW column \in RowColumn, NEW e, LastIs(Final, W(column), e)
      PROVE  SaysRow(row, column, e)
  <2>. DEFINE c == [column |-> column, of |-> m]
  <2>1. c \in RowCell /\ c \in Cells(Protocol) /\ c.of = m /\ c.column = column
    BY DEF Cells, RowCell
  <2>. HIDE DEF c
  <2>2. Right(db, Final, c)
    BY <2>1, ProtocolKinds, CaughtUpIsRight DEF Protocol
  <2>3. column \notin {"verifier", "vote"}
    BY DEF RowColumn
  <2>4. Writers(c) = W(column)
    BY <2>1, <2>3 DEF Writers, Writes
  <2>5. Says(db, c, e)
    BY <1>2, <2>2, <2>4 DEF Right
  <2>. QED  BY <2>1, <2>5, Zenon DEF Says
<1>3. ASSUME NEW column \in RowColumn, NEW e \in W(column)
      PROVE  e.kind \in Topics[Protocol]
  <2>1. e.kind \in Kinds(column)
    OBVIOUS
  <2>. QED  BY <2>1, ProtocolKinds DEF Kinds, RowColumn, Decisive
<1>4. /\ Registered(m) \in Event /\ Registered(m).kind = "MasjidRegistered"
      /\ Registered(m).masjidId = m
      /\ Verified(m) \in Event /\ Verified(m).kind = "MasjidVerified" /\ Verified(m).masjidId = m
  BY DEF Registered, Verified, Event
<1>5. W("status") = Deciding(m)
  BY DEF Kinds, Deciding
<1>6. \A column \in RowColumn : Registered(m) \in W(column)
  BY <1>4 DEF RowColumn, Kinds, Decisive
<1>. HIDE DEF row
<1>7. CASE StatusOnChain(Final, m) = "absent" /\ ToSet(Final) \cap Deciding(m) = {}
  <2>1. Registered(m) \notin ToSet(Final)
    BY <1>5, <1>6, <1>7 DEF RowColumn
  <2>2. row.status = "absent"
    BY <1>1, <2>1 DEF NoPhantomRows, row
  <2>. QED  BY <1>1, <1>7, <2>2 DEF RowOnChain, row
<1>8. ASSUME NEW e \in Deciding(m), LastIs(Final, Deciding(m), e),
             StatusOnChain(Final, m) = StatusAfter(e)
      PROVE  row = RowOnChain(m)
  <2>1. StatusOnChain(Final, m) # "absent"
    BY <1>8, StatusOfEvent
  <2>2. row.status = StatusOnChain(Final, m)
    BY <1>2, <1>5, <1>8 DEF RowColumn, SaysRow
  <2>3. Registered(m) \in ToSet(Final)
    <3>1. e \in ToSet(Final) /\ e \in Event /\ e.kind \in Topics[Protocol] /\ e.masjidId = m
      BY <1>1, <1>8, LastIsThere, ProtocolKinds DEF Deciding
    <3>. QED  BY <3>1, RegisteredForGood
  <2>4. ASSUME NEW column \in RowColumn
        PROVE  \E x : LastIs(Final, W(column), x)
    BY <1>1, <1>6, <2>3, LastExists
  <2>5. row.instanceAddr = (Verified(m) \in ToSet(Final))
    <3>1. "instance" \in RowColumn /\ Kinds("instance") = {"MasjidRegistered", "MasjidVerified"}
      BY DEF RowColumn, Kinds
    <3>2. PICK x : LastIs(Final, W("instance"), x)
      BY <2>4, <3>1
    <3>3. x \in W("instance") /\ x \in ToSet(Final)
      BY <1>1, <3>2, LastIsThere
    <3>4. row.instanceAddr <=> x.kind = "MasjidVerified"
      BY <1>2, <3>1, <3>2 DEF SaysRow
    <3>5. x \in {Registered(m), Verified(m)}
      BY <3>1, <3>3, EventFields
    <3>6. CASE x = Verified(m)
      BY <1>1, <1>4, <3>3, <3>4, <3>6 DEF MasjidRows
    <3>7. CASE x = Registered(m)
      <4>1. Verified(m) \in W("instance") /\ Verified(m).kind \in Topics[Protocol]
        BY <1>3, <1>4, <3>1
      <4>2. Verified(m) # Registered(m)
        BY <1>4
      <4>3. Verified(m) \notin ToSet(Final)
        BY <1>4, <3>2, <3>7, <4>1, <4>2, RegisteredIsLast
      <4>. QED  BY <1>1, <1>4, <3>4, <3>7, <4>3 DEF MasjidRows
    <3>. QED  BY <3>5, <3>6, <3>7
  <2>6. /\ row.attestYes = Cardinality(VotesOnChain(Final, m, {TRUE}))
        /\ row.attestNo = Cardinality(VotesOnChain(Final, m, {FALSE}))
    <3>1. "counts" \in RowColumn /\ Kinds("counts") = {"MasjidRegistered", "MasjidAttested"}
      BY DEF RowColumn, Kinds
    <3>2. PICK x : LastIs(Final, W("counts"), x)
      BY <2>4, <3>1
    <3>3. x \in W("counts") /\ x \in ToSet(Final)
      BY <1>1, <3>2, LastIsThere
    <3>4. SaysRow(row, "counts", x)
      BY <1>2, <3>1, <3>2
    <3>5. CASE x.kind = "MasjidAttested"
      <4>1. { e1 \in Event : e1.kind = "MasjidAttested" /\ e1.masjidId = m } \subseteq W("counts")
        BY <3>1
      <4>2. x.masjidId = m
        BY <3>3
      <4>. HIDE DEF W
      <4>3. /\ x.yesCount = Cardinality(VotesOnChain(Final, m, {TRUE}))
            /\ x.noCount = Cardinality(VotesOnChain(Final, m, {FALSE}))
        BY <3>2, <3>5, <4>1, <4>2, SyncOf, CountsOfLast DEF Final
      <4>. QED  BY <3>4, <3>5, <4>3 DEF SaysRow
    <3>6. CASE x.kind # "MasjidAttested"
      <4>1. x = Registered(m)
        BY <3>1, <3>3, <3>6, EventFields
      <4>2. row.attestYes = 0 /\ row.attestNo = 0
        BY <3>4, <3>6 DEF SaysRow
      <4>3. ASSUME NEW supports, NEW y \in VotesOnChain(Final, m, supports)
            PROVE  FALSE
        <5>1. y \in ToSet(Final) /\ y.kind = "MasjidAttested" /\ y.masjidId = m
          BY DEF VotesOnChain
        <5>2. y \in Event
          BY <1>1, <5>1, FiniteToSet
        <5>3. y \in W("counts")
          BY <3>1, <5>1, <5>2
        <5>4. y.kind \in Topics[Protocol]
          BY <1>3, <3>1, <5>3
        <5>5. y = Registered(m)
          BY <3>2, <4>1, <5>1, <5>3, <5>4, RegisteredIsLast
        <5>. QED  BY <1>4, <5>1, <5>5
      <4>4. VotesOnChain(Final, m, {TRUE}) = {} /\ VotesOnChain(Final, m, {FALSE}) = {}
        BY <4>3
      <4>. QED  BY <4>2, <4>4, FS_EmptySet
    <3>. QED  BY <3>5, <3>6
  <2>. DEFINE s == StatusOnChain(Final, m)
              i == Verified(m) \in ToSet(Final)
              y == Cardinality(VotesOnChain(Final, m, {TRUE}))
              o == Cardinality(VotesOnChain(Final, m, {FALSE}))
  <2>7. RowOnChain(m) = [status |-> s, masjidAdmin |-> Founder, instanceAddr |-> i,
                         attestYes |-> y, attestNo |-> o]
    BY <2>1 DEF RowOnChain
  <2>8. row = [status |-> row.status, masjidAdmin |-> row.masjidAdmin,
               instanceAddr |-> row.instanceAddr, attestYes |-> row.attestYes,
               attestNo |-> row.attestNo]
    BY <1>1 DEF MasjidRows
  <2>. HIDE DEF s, i, y, o
  <2>. QED  BY <1>1, <2>2, <2>5, <2>6, <2>7, <2>8, Zenon DEF s, i, y, o
<1>9. \/ StatusOnChain(Final, m) = "absent" /\ ToSet(Final) \cap Deciding(m) = {}
      \/ \E e \in Deciding(m) : /\ LastIs(Final, Deciding(m), e)
                                /\ StatusOnChain(Final, m) = StatusAfter(e)
  BY <1>1, StatusLast
<1>. QED  BY <1>7, <1>8, <1>9 DEF row

\* The votes in the table are those on the chain.
LEMMA VotesFollow ==
  ASSUME IInv, SyncInv, CaughtUp("MasjidProtocol"), ~Lossy
  PROVE  db.attests =
           UNION { { [masjidId |-> m, verifier |-> e.verifier, support |-> e.support] :
                       e \in VotesOnChain(Final, m, BOOLEAN) } : m \in Mosque }
<1>. DEFINE V(m) == VotesOnChain(Final, m, BOOLEAN)
            Row(m, e) == [masjidId |-> m, verifier |-> e.verifier, support |-> e.support]
<1>1. /\ Final \in Seq(Event) /\ NoPhantomRows
      /\ db.attests \subseteq [masjidId : Mosque, verifier : Account, support : BOOLEAN]
      /\ \A e : e \in ToSet(Final) <=> \E b \in 1..SafeHead : e \in ToSet(chain[b])
  BY FinalEvents DEF Tables
<1>2. chain \in Seq(Seq(Event)) /\ Lawful(chain) /\ \A b \in 1..SafeHead : b \in 1..Len(chain)
  <2>1. SafeHead \in Nat /\ SafeHead \in 0..Len(chain)
    BY SyncOf
  <2>. QED  BY <2>1, SyncOf
<1>3. ASSUME NEW r \in db.attests
      PROVE  \E m \in Mosque : \E e \in V(m) : r = Row(m, e)
  <2>1. PICK e \in VotesOnChain(Final, r.masjidId, {r.support}) : e.verifier = r.verifier
    BY <1>1 DEF NoPhantomRows
  <2>2. /\ r.masjidId \in Mosque /\ r.support \in BOOLEAN
        /\ r = [masjidId |-> r.masjidId, verifier |-> r.verifier, support |-> r.support]
    BY <1>1
  <2>3. e \in V(r.masjidId) /\ e.support = r.support
    BY <2>1, <2>2 DEF VotesOnChain
  <2>. QED  BY <2>1, <2>2, <2>3
<1>4. ASSUME NEW m \in Mosque, NEW e \in V(m)
      PROVE  Row(m, e) \in db.attests
  <2>1. e \in ToSet(Final) /\ e.kind = "MasjidAttested" /\ e.masjidId = m
    BY DEF VotesOnChain
  <2>2. e \in Event /\ e.verifier \in Account
    BY <1>1, <2>1, FiniteToSet, EventFields
  <2>. DEFINE c == [column |-> "vote", of |-> m, by |-> e.verifier]
  <2>3. c \in Cells(Protocol) /\ c.column = "vote" /\ c.of = m /\ c.by = e.verifier
    BY <2>2 DEF Cells, VoteCell
  <2>. HIDE DEF c
  <2>4. \A x : x \in Writers(c) <=> /\ x \in Event /\ x.kind = "MasjidAttested"
                                    /\ x.masjidId = m /\ x.verifier = e.verifier
    BY <2>3 DEF Writers, Writes, Kinds
  <2>5. PICK x : LastIs(Final, Writers(c), x)
    BY <1>1, <2>1, <2>2, <2>4, LastExists
  <2>6. x \in Writers(c) /\ x \in ToSet(Final)
    BY <1>1, <2>5, LastIsThere
  <2>7. x = e
    <3>1. PICK i \in 1..SafeHead : x \in ToSet(chain[i])
      BY <1>1, <2>6
    <3>2. PICK k \in 1..SafeHead : e \in ToSet(chain[k])
      BY <1>1, <2>1
    <3>3. i \in 1..Len(chain) /\ k \in 1..Len(chain)
      BY <1>2
    <3>. QED  BY <1>2, <2>1, <2>4, <2>6, <3>1, <3>2, <3>3, VotesOnce
  <2>8. Right(db, Final, c)
    BY <2>3, ProtocolKinds, CaughtUpIsRight DEF Protocol
  <2>9. Says(db, c, e)
    BY <2>5, <2>7, <2>8 DEF Right
  <2>. QED  BY <2>3, <2>9, Zenon DEF Says
<1>. HIDE DEF Row, V
<1>5. db.attests = UNION { { Row(m, e) : e \in V(m) } : m \in Mosque }
  BY <1>3, <1>4
<1>. QED  BY <1>5 DEF Row, V

(***************************************************************************)
(* Whatever crashed, failed or was replayed, once the protocol's pass has  *)
(* caught up and no tick is running, every mosque's row (its status, its   *)
(* admin, whether it has an instance, its counts) and the votes are what   *)
(* the protocol's events say, for any chain the contracts can have         *)
(* written, any chunk size and number of faults, and with blocks added and *)
(* replaced at any moment (protocol.go 11-73, event_service.go 24-98,      *)
(* masjid_repository.go 85-97).                                            *)
(***************************************************************************)
THEOREM MasjidsAreSynced == Spec => []MasjidsSynced
<1>1. IInv /\ SyncInv => MasjidsSynced
  <2>1. SUFFICES ASSUME IInv, SyncInv, CaughtUp("MasjidProtocol"), ~Lossy
                 PROVE  db.masjids = [m \in Mosque |-> RowOnChain(m)]
    BY VotesFollow DEF MasjidsSynced
  <2>2. db \in Tables
    BY <2>1, FinalEvents
  <2>3. db.masjids = [m \in Mosque |-> db.masjids[m]]
    BY <2>2 DEF Tables
  <2>4. \A m \in Mosque : db.masjids[m] = RowOnChain(m)
    BY <2>1, RowFollows
  <2>. QED  BY <2>3, <2>4
<1>. QED  BY <1>1, ColumnsFollow, PTL

----------------------------------------------------------------------------
(***************************************************************************)
(* The instances.  Their rows are inserted by one event and changed by     *)
(* others of the same donation or request, so what holds is said of logs:  *)
(* each final log of an instance is shown by a row, or is still to be      *)
(* handled, where the process is and after the checkpoint.  It rests on    *)
(* the filter: a pass over the instances begins when the pass over the     *)
(* protocol has brought the tables to the same block, and the tables then  *)
(* name every instance with an event up to it.                             *)
(***************************************************************************)
Instances == "MasjidInstance"

Settling == {"CashOutExecuted", "CashOutCanceled"}
Requesting == Settling \cup {"CashOutProposed", "CashOutApproved"}
Spending == Requesting \cup {"CashIn"}

\* The tables show a log.
Shown(d, l) ==
  LET e == l.event IN
  /\ e.kind = "CashIn" => [tx |-> l.tx, instanceAddr |-> e.instance, linked |-> TRUE] \in d.cashIns
  /\ e.kind = "CashOutProposed" => Requests(d, e) # {}
  /\ e.kind = "CashOutApproved" =>
       [instanceAddr |-> e.instance, requestId |-> e.requestId, approver |-> e.approver]
         \in d.cashOutVotes
  /\ e.kind = "CashOutExecuted" => \E r \in Requests(d, e) : r.executed
  /\ e.kind = "CashOutCanceled" => \E r \in Requests(d, e) : r.canceled

ShownOrAwaited(d, L, W) == \A l \in L : l.event.kind \in Spending => Shown(d, l) \/ l \in W

\* The final logs from block i on.
LogsFrom(i) == { l \in FinalLogs : l.tx >= i }

\* Faults after which events of an instance may never be handled.
Holed == Lossy \/ "protocolLogs" \in failed

\* Every row names its mosque, and a request has one row.
Linked(d) ==
  /\ \A r \in d.cashIns : r.linked
  /\ \A r \in d.cashOuts : r.linked
  /\ \A r, x \in d.cashOuts : r.instanceAddr = x.instanceAddr /\ r.requestId = x.requestId => r = x

\* A pass filters by instances the tables name.
FilterNamed ==
  pass = Instances /\ step \in {"fetch", "handle", "save"} =>
    /\ instances \subseteq ListInstanceAddresses(db)
    /\ step = "handle" => \A l \in ToSet(logs) : l.event.instance \in instances

\* The protocol's pass of this tick has brought its columns to the tick's last block.
ProtocolDone ==
  pass \in {Registry, Instances} =>
    RightOrAwaited(Protocol, db, Final, Ahead(chain, safeHead + 1, SafeHead))

\* The filter lets through every event up to that block.
FilterComplete ==
  pass = Instances /\ step \in {"fetch", "handle", "save"} =>
    \A l \in FinalLogs : l.event.kind \in Spending /\ l.tx <= safeHead =>
      l.event.instance \in instances

\* What has not been handled of a chunk follows the log that is being handled.
LogsComplete ==
  pass = Instances /\ step = "handle" =>
    \A l \in FinalLogs :
      l.event.kind \in Spending /\ Head(logs).tx < l.tx /\ l.tx <= to => l \in ToSet(logs)

ShownAtCheckpoint ==
  (pass # Instances \/ step \in {"enter", "fetch"} \/ "checkpointRead" \notin failed) =>
    ShownOrAwaited(db, FinalLogs, LogsFrom(checkpoint[Instances] + 1))

ShownAtPosition ==
  pass = Instances =>
    /\ step = "fetch" => ShownOrAwaited(db, FinalLogs, LogsFrom(from))
    /\ step = "handle" => ShownOrAwaited(db, FinalLogs, ToSet(logs) \cup LogsFrom(to + 1))
    /\ step = "save" => ShownOrAwaited(db, FinalLogs, LogsFrom(to + 1))

InstancesFollow ==
  ~Holed =>
    ProtocolDone /\ FilterComplete /\ LogsComplete /\ ShownAtCheckpoint /\ ShownAtPosition

InstanceInv == Linked(db) /\ FilterNamed /\ InstancesFollow

\* The instances' stream carries these events, no other stream does.
LEMMA SpendingKinds ==
  /\ Instances \in Stream /\ Spending \subseteq Topics[Instances]
  /\ Topics[Instances] = Spending \cup {"BoardMemberUpdated"}
  /\ \A s \in Stream : s # Instances => Topics[s] \cap Topics[Instances] = {}
BY DEF Instances, Spending, Requesting, Settling, Topics, Stream

\* A donation or a step of a request is alone in its block and comes after the instance's
\* deployment; a request is numbered by those before it, and what is said of a request comes
\* after its proposal.
LEMMA SpentWhen ==
  ASSUME NEW events \in Seq(Event), NEW tx \in Allowed(events), NEW e \in ToSet(tx), e \in Event,
         e.kind \in Spending
  PROVE  /\ ToSet(tx) = {e}
         /\ Verified(e.instance) \in ToSet(events)
         /\ e.kind = "CashOutProposed" =>
              e.requestId = Cardinality(EventsOf(events, "CashOutProposed", e.instance)) + 1
         /\ e.kind \in Settling \cup {"CashOutApproved"} =>
              Proposed(e.instance, e.requestId) \in ToSet(events)
<1>. DEFINE Goal == /\ ToSet(tx) = {e}
                    /\ Verified(e.instance) \in ToSet(events)
                    /\ e.kind = "CashOutProposed" =>
                         e.requestId = Cardinality(EventsOf(events, "CashOutProposed", e.instance)) + 1
                    /\ e.kind \in Settling \cup {"CashOutApproved"} =>
                         Proposed(e.instance, e.requestId) \in ToSet(events)
<1>1. e.kind \in {"CashIn", "CashOutProposed", "CashOutApproved", "CashOutExecuted",
                  "CashOutCanceled"}
  BY DEF Spending, Requesting, Settling
<1>2. \/ tx = <<>> \/ tx \in RegisterTx(events) \/ tx \in VoteTx(events)
      \/ tx \in VerifyTx(events) \/ tx \in StatusTx(events) \/ tx \in VerifierTx(events)
      \/ tx \in DonateTx(events) \/ tx \in ProposeTx(events) \/ tx \in RequestTx(events)
      \/ tx \in BoardTx(events)
  BY Zenon DEF Allowed
<1>3. ASSUME tx \in DonateTx(events)
      PROVE  Goal
  <2>1. PICK m \in Deployed(events) : tx = <<Donated(m)>>
    BY <1>3, Zenon DEF DonateTx
  <2>2. ToSet(tx) = {Donated(m)}
    BY <2>1, SetsOfTuples
  <2>3. /\ Verified(m) \in ToSet(events)
        /\ Donated(m).kind = "CashIn" /\ Donated(m).instance = m
    BY DEF Deployed, Donated
  <2>. QED  BY <2>2, <2>3 DEF Settling
<1>4. ASSUME tx \in ProposeTx(events)
      PROVE  Goal
  <2>1. PICK m \in Deployed(events) :
          tx = <<Proposed(m, Cardinality(EventsOf(events, "CashOutProposed", m)) + 1)>>
    BY <1>4, Zenon DEF ProposeTx
  <2>. DEFINE r == Cardinality(EventsOf(events, "CashOutProposed", m)) + 1
  <2>2. ToSet(tx) = {Proposed(m, r)}
    BY <2>1, SetsOfTuples
  <2>. HIDE DEF r
  <2>3. /\ Verified(m) \in ToSet(events)
        /\ Proposed(m, r).kind = "CashOutProposed" /\ Proposed(m, r).instance = m
        /\ Proposed(m, r).requestId = r
    BY DEF Deployed, Proposed
  <2>4. e.instance = m /\ e.requestId = r /\ e.kind = "CashOutProposed" /\ ToSet(tx) = {e}
    BY <2>2, <2>3
  <2>. QED  BY <2>3, <2>4 DEF Settling, r
<1>5. ASSUME tx \in RequestTx(events)
      PROVE  Goal
  <2>1. PICK q \in { x \in Deployed(events) \X (1..MaxRequests) :
                     Proposed(x[1], x[2]) \in ToSet(events) /\ ~Settled(events, x[1], x[2]) } :
          tx \in {<<Executed(q[1], q[2])>>, <<Canceled(q[1], q[2])>>}
                \cup { <<Approved(q[1], q[2], a)>> :
                         a \in { x \in Account : Approved(q[1], q[2], x) \notin ToSet(events) } }
    BY <1>5, Zenon DEF RequestTx
  <2>2. PICK y : /\ tx = <<y>>
                 /\ \/ y = Executed(q[1], q[2]) \/ y = Canceled(q[1], q[2])
                    \/ \E a : y = Approved(q[1], q[2], a)
    BY <2>1
  <2>3. /\ Proposed(q[1], q[2]) \in ToSet(events) /\ q[1] \in Deployed(events)
    OBVIOUS
  <2>4. /\ y.kind \in Settling \cup {"CashOutApproved"} /\ y.instance = q[1]
        /\ y.requestId = q[2] /\ y.kind # "CashOutProposed"
    BY <2>2 DEF Executed, Canceled, Approved, Settling
  <2>5. ToSet(tx) = {y}
    BY <2>2, SetsOfTuples
  <2>. QED  BY <2>3, <2>4, <2>5 DEF Deployed
<1>6. ASSUME NEW x, tx = <<x>>, x.kind \notin Spending
      PROVE  FALSE
  <2>1. e = x
    BY <1>6, SetsOfTuples
  <2>. QED  BY <1>6, <2>1
<1>7. ASSUME NEW x, NEW y, NEW z, tx = <<x, y>> \/ tx = <<x, y, z>>,
             x.kind \notin Spending, y.kind \notin Spending, z.kind \notin Spending
      PROVE  FALSE
  <2>. DEFINE two == <<x, y>>
              three == <<x, y, z>>
  <2>1. ToSet(two) = {x, y} /\ ToSet(three) = {x, y, z} /\ (tx = two \/ tx = three)
    BY <1>7, SetsOfTuples
  <2>. HIDE DEF two, three
  <2>2. e \in {x, y, z}
    BY <2>1
  <2>. QED  BY <1>7, <2>2
<1>8. ASSUME tx \in RegisterTx(events) \/ tx \in StatusTx(events) \/ tx \in VerifierTx(events)
             \/ tx \in BoardTx(events)
      PROVE  FALSE
  <2>1. CASE tx \in RegisterTx(events)
    <3>1. PICK m : tx = <<Registered(m)>>
      BY <2>1 DEF RegisterTx
    <3>2. Registered(m).kind \notin Spending
      BY DEF Registered, Spending, Requesting, Settling
    <3>. QED  BY <1>6, <3>1, <3>2
  <2>2. CASE tx \in StatusTx(events)
    <3>. DEFINE next == [ verified |-> {"flagged", "revoked"}, flagged |-> {"verified", "revoked"} ]
    <3>1. PICK x \in Mosque : /\ StatusOnChain(events, x) \in DOMAIN next
                              /\ tx \in { <<StatusUpdated(x, s)>> :
                                          s \in next[StatusOnChain(events, x)] }
      BY <2>2, Zenon DEF StatusTx
    <3>. HIDE DEF next
    <3>2. PICK s : tx = <<StatusUpdated(x, s)>>
      BY <3>1
    <3>3. StatusUpdated(x, s).kind \notin Spending
      BY DEF StatusUpdated, Spending, Requesting, Settling
    <3>. QED  BY <1>6, <3>2, <3>3
  <2>3. CASE tx \in VerifierTx(events)
    <3>1. PICK a : tx = <<VerifierAdded(a)>> \/ tx = <<VerifierRemoved(a)>>
      BY <2>3 DEF VerifierTx
    <3>2. VerifierAdded(a).kind \notin Spending /\ VerifierRemoved(a).kind \notin Spending
      BY DEF VerifierAdded, VerifierRemoved, Spending, Requesting, Settling
    <3>. QED  BY <1>6, <3>1, <3>2
  <2>4. CASE tx \in BoardTx(events)
    <3>1. PICK c \in Deployed(events) \X Account \X BOOLEAN :
            tx = <<BoardMemberUpdated(c[1], c[2], c[3])>>
      BY <2>4, Zenon DEF BoardTx
    <3>2. BoardMemberUpdated(c[1], c[2], c[3]).kind \notin Spending
      BY DEF BoardMemberUpdated, Spending, Requesting, Settling
    <3>. QED  BY <1>6, <3>1, <3>2
  <2>. QED  BY <1>8, <2>1, <2>2, <2>3, <2>4
<1>9. ASSUME tx \in VoteTx(events) \/ tx \in VerifyTx(events)
      PROVE  FALSE
  <2>1. PICK c \in Ballots(events) :
          \/ tx \in { <<YesVote(events, c[1], c[2])>>, <<NoVote(events, c[1], c[2])>>,
                      <<NoVote(events, c[1], c[2]), Rejected(c[1])>> }
          \/ tx = <<YesVote(events, c[1], c[2]), BoardMemberUpdated(c[1], Founder, TRUE),
                    Verified(c[1])>>
    BY <1>9, Zenon DEF VoteTx, VerifyTx
  <2>. DEFINE yes == YesVote(events, c[1], c[2])
              no == NoVote(events, c[1], c[2])
              r == Rejected(c[1])
              u == BoardMemberUpdated(c[1], Founder, TRUE)
              z == Verified(c[1])
  <2>2. /\ yes.kind \notin Spending /\ no.kind \notin Spending /\ r.kind \notin Spending
        /\ u.kind \notin Spending /\ z.kind \notin Spending
    BY DEF YesVote, NoVote, Attested, Rejected, BoardMemberUpdated, Verified, Spending,
           Requesting, Settling
  <2>3. tx = <<yes>> \/ tx = <<no>> \/ tx = <<no, r>> \/ tx = <<yes, u, z>>
    BY <2>1, Zenon
  <2>. HIDE DEF yes, no, r, u, z
  <2>4. CASE tx = <<yes>> \/ tx = <<no>>
    BY <1>6, <2>2, <2>4, Zenon
  <2>5. CASE tx = <<no, r>>
    BY <1>7, <2>2, <2>5, Zenon
  <2>6. CASE tx = <<yes, u, z>>
    BY <1>7, <2>2, <2>6, Zenon
  <2>. QED  BY <2>3, <2>4, <2>5, <2>6, Zenon
<1>10. tx # <<>>
  BY SetsOfTuples
<1>11. Goal
  BY <1>2, <1>3, <1>4, <1>5, <1>8, <1>9, <1>10, Zenon
<1>. QED  BY <1>11

\* The same in a chain.
LEMMA SpentInChain ==
  ASSUME NEW c \in Seq(Seq(Event)), Lawful(c), NEW b \in 1..Len(c), NEW e \in ToSet(c[b]),
         e.kind \in Spending
  PROVE  /\ ToSet(c[b]) = {e} /\ e \in Event /\ e.instance \in Mosque
         /\ \E k \in 1..Len(c) : k < b /\ Verified(e.instance) \in ToSet(c[k])
         /\ e.kind \in Settling \cup {"CashOutApproved"} =>
              \E k \in 1..Len(c) : k < b /\ Proposed(e.instance, e.requestId) \in ToSet(c[k])
<1>1. /\ Events(c, b - 1) \in Seq(Event) /\ e \in Event /\ c[b] \in Allowed(Events(c, b - 1))
      /\ \A y : y \in ToSet(Events(c, b - 1)) <=> \E k \in 1..Len(c) : k < b /\ y \in ToSet(c[k])
  BY Before DEF Lawful
<1>2. e.instance \in Mosque
  BY <1>1, EventFields DEF Spending, Requesting, Settling
<1>. QED  BY <1>1, <1>2, SpentWhen

\* A proposal takes the next number.
LEMMA NumberOfProposal ==
  ASSUME NEW c \in Seq(Seq(Event)), Lawful(c), NEW b \in 1..Len(c), NEW e \in ToSet(c[b]),
         e.kind = "CashOutProposed"
  PROVE  /\ ToSet(c[b]) = {e}
         /\ e.requestId = Cardinality(EventsOf(Events(c, b - 1), "CashOutProposed", e.instance)) + 1
<1>1. Events(c, b - 1) \in Seq(Event) /\ e \in Event /\ c[b] \in Allowed(Events(c, b - 1))
  BY Before DEF Lawful
<1>2. e.kind \in Spending
  BY DEF Spending, Requesting
<1>. QED  BY <1>1, <1>2, SpentWhen

\* No proposal has a number above the proposals' count.
LEMMA RequestsCounted ==
  ASSUME NEW c \in Seq(Seq(Event)), Lawful(c), NEW n \in 0..Len(c), NEW m \in Mosque,
         NEW e \in EventsOf(Events(c, n), "CashOutProposed", m)
  PROVE  e.requestId \in Nat
         /\ e.requestId <= Cardinality(EventsOf(Events(c, n), "CashOutProposed", m))
<1>. DEFINE Q(k) == EventsOf(Events(c, k), "CashOutProposed", m)
            G == { k \in Nat : k <= Len(c) =>
                     \A x \in Q(k) : x.requestId \in Nat /\ x.requestId <= Cardinality(Q(k)) }
<1>1. ASSUME NEW k \in 0..Len(c)
      PROVE  /\ IsFiniteSet(Q(k)) /\ Cardinality(Q(k)) \in Nat
             /\ \A x : x \in Q(k) <=> /\ \E b \in 1..k : x \in ToSet(c[b])
                                      /\ x.kind = "CashOutProposed" /\ x.instance = m
  <2>1. Events(c, k) \in Seq(Event) /\ ToSet(Events(c, k)) = UNION {ToSet(c[b]) : b \in 1..k}
    BY EventsOfBlocks
  <2>2. IsFiniteSet(ToSet(Events(c, k))) /\ Q(k) \subseteq ToSet(Events(c, k))
    BY <2>1, FiniteToSet DEF EventsOf
  <2>3. IsFiniteSet(Q(k)) /\ Cardinality(Q(k)) \in Nat
    BY <2>2, FS_Subset, FS_CardinalityType
  <2>. QED  BY <2>1, <2>3 DEF EventsOf
<1>. HIDE DEF Q
<1>2. 0 \in G
  <2>1. 0 \in 0..Len(c) /\ 1..0 = {}
    OBVIOUS
  <2>2. Q(0) = {}
    BY <1>1, <2>1
  <2>. QED  BY <2>2
<1>3. ASSUME NEW k \in Nat, k \in G
      PROVE  k + 1 \in G
  <2>. SUFFICES ASSUME k + 1 <= Len(c)
                PROVE  \A x \in Q(k + 1) : x.requestId \in Nat /\ x.requestId <= Cardinality(Q(k + 1))
    OBVIOUS
  <2>1. /\ k \in 0..Len(c) /\ k + 1 \in 0..Len(c) /\ k + 1 \in 1..Len(c) /\ (k + 1) - 1 = k
        /\ \A b : b \in 1..(k + 1) <=> b \in 1..k \/ b = k + 1
    OBVIOUS
  <2>2. \A x \in Q(k) : x.requestId \in Nat /\ x.requestId <= Cardinality(Q(k))
    BY <1>3, <2>1
  <2>3. \A x : x \in Q(k + 1) <=> \/ x \in Q(k)
                                  \/ /\ x \in ToSet(c[k + 1]) /\ x.kind = "CashOutProposed"
                                     /\ x.instance = m
    BY <1>1, <2>1
  <2>4. CASE Q(k + 1) = Q(k)
    BY <2>2, <2>4
  <2>5. CASE Q(k + 1) # Q(k)
    <3>1. PICK x \in ToSet(c[k + 1]) : x.kind = "CashOutProposed" /\ x.instance = m
      BY <2>3, <2>5
    <3>2. PICK j \in 1..Len(c) : j = k + 1 /\ x \in ToSet(c[j]) /\ j - 1 = k
      BY <2>1, <3>1
    <3>9. /\ ToSet(c[j]) = {x}
          /\ x.requestId = Cardinality(EventsOf(Events(c, j - 1), "CashOutProposed", x.instance)) + 1
      BY <3>1, <3>2, NumberOfProposal
    <3>3. /\ ToSet(c[k + 1]) = {x}
          /\ x.requestId = Cardinality(EventsOf(Events(c, k), "CashOutProposed", m)) + 1
      BY <3>1, <3>2, <3>9
    <3>4. x.requestId = Cardinality(Q(k)) + 1
      BY <2>1, <3>3 DEF Q
    <3>5. Q(k + 1) = Q(k) \cup {x}
      BY <2>3, <3>1, <3>3
    <3>6. IsFiniteSet(Q(k)) /\ Cardinality(Q(k)) \in Nat
      BY <1>1, <2>1
    <3>7. x \notin Q(k)
      BY <2>2, <3>4, <3>6
    <3>8. Cardinality(Q(k + 1)) = Cardinality(Q(k)) + 1
      BY <3>5, <3>6, <3>7, FS_AddElement
    <3>. QED  BY <2>2, <3>4, <3>5, <3>6, <3>8
  <2>. QED  BY <2>4, <2>5
<1>. HIDE DEF G
<1>4. \A k \in Nat : k \in G
  BY <1>2, <1>3, NatInduct
<1>5. n \in Nat /\ n <= Len(c)
  OBVIOUS
<1>. QED  BY <1>4, <1>5 DEF G, Q

\* A request is proposed once, and everything else said of it comes later.
LEMMA ProposedFirst ==
  ASSUME NEW c \in Seq(Seq(Event)), Lawful(c), NEW m \in Mosque, NEW r, NEW b \in 1..Len(c),
         Proposed(m, r) \in ToSet(c[b]), NEW k \in 1..Len(c), NEW e \in ToSet(c[k]),
         e.kind \in Requesting, e.instance = m, e.requestId = r
  PROVE  /\ e = Proposed(m, r) => b = k
         /\ e # Proposed(m, r) => b < k
<1>. DEFINE p == Proposed(m, r)
<1>1. /\ p.kind = "CashOutProposed" /\ p.kind \in Spending /\ p.instance = m /\ p.requestId = r
  BY DEF Proposed, Spending, Requesting
<1>. HIDE DEF p
<1>2. ASSUME NEW i \in 1..Len(c), NEW j \in 1..Len(c), p \in ToSet(c[i]), p \in ToSet(c[j])
      PROVE  ~(i < j)
  <2>. SUFFICES ASSUME i < j PROVE FALSE
    OBVIOUS
  <2>. DEFINE Q == EventsOf(Events(c, j - 1), "CashOutProposed", m)
  <2>1. /\ j - 1 \in 0..Len(c) /\ Events(c, j - 1) \in Seq(Event)
        /\ p \in ToSet(Events(c, j - 1))
    BY <1>2, Before
  <2>2. p \in Q
    BY <1>1, <2>1 DEF EventsOf
  <2>3. p.requestId \in Nat /\ p.requestId <= Cardinality(Q)
    BY <2>1, <2>2, RequestsCounted
  <2>6. p.requestId = Cardinality(EventsOf(Events(c, j - 1), "CashOutProposed", p.instance)) + 1
    BY <1>1, <1>2, NumberOfProposal
  <2>4. p.requestId = Cardinality(Q) + 1
    BY <1>1, <2>6
  <2>5. Cardinality(Q) \in Nat
    BY <2>1, Counted
  <2>. HIDE DEF Q
  <2>. QED  BY <2>3, <2>4, <2>5
<1>3. b \in Nat /\ k \in Nat
  OBVIOUS
<1>4. CASE e = p
  <2>1. ~(b < k) /\ ~(k < b)
    BY <1>2, <1>4 DEF p
  <2>. QED  BY <1>3, <1>4, <2>1 DEF p
<1>5. CASE e # p
  <2>1. e \in Event /\ e.kind \in Spending
    BY Before DEF Spending
  <2>2. e.kind # "CashOutProposed"
    BY <1>5, <2>1, EventFields DEF p
  <2>3. e.kind \in Settling \cup {"CashOutApproved"}
    BY <2>2 DEF Requesting
  <2>4. PICK j \in 1..Len(c) : j < k /\ p \in ToSet(c[j])
    BY <2>1, <2>3, SpentInChain DEF p
  <2>5. ~(b < j) /\ ~(j < b)
    BY <1>2, <2>4 DEF p
  <2>. QED  BY <1>3, <1>5, <2>4, <2>5 DEF p
<1>. QED  BY <1>4, <1>5 DEF p

(* What the handlers of the instances' events write *)

\* A log whose row the handling of e in block tx takes back: another donation of its block, or
\* what became of the request that is proposed.
Undoes(e, tx, l) ==
  \/ e.kind = "CashIn" /\ l.event.kind = "CashIn" /\ l.tx = tx /\ l.event # e
  \/ /\ e.kind = "CashOutProposed" /\ l.event.kind \in Settling
     /\ l.event.instance = e.instance /\ l.event.requestId = e.requestId

Handed(d, w, e, tx) ==
  /\ w.masjids = d.masjids /\ Linked(w)
  /\ e.kind \in Spending => Shown(w, [event |-> e, tx |-> tx])
  /\ \A l : l.event.kind \in Spending /\ Shown(d, l) /\ ~Undoes(e, tx, l) => Shown(w, l)

\* What shows a log.
LEMMA ShownBy ==
  ASSUME NEW d, NEW w, NEW l, Shown(d, l),
         l.event.kind = "CashIn" =>
           [tx |-> l.tx, instanceAddr |-> l.event.instance, linked |-> TRUE] \in w.cashIns,
         l.event.kind \in Requesting =>
           d.cashOutVotes \subseteq w.cashOutVotes /\ Requests(w, l.event) = Requests(d, l.event)
  PROVE  Shown(w, l)
BY DEF Shown, Requesting, Settling

\* A donation.
LEMMA DonationHanded ==
  ASSUME NEW d \in Tables, Linked(d), NEW e \in Event, NEW tx \in Nat, NEW k \in 1..2,
         e.kind = "CashIn", FindByInstance(d, e.instance)
  PROVE  Handed(d, Handle(d, e, k, tx), e, tx)
<1>. DEFINE w == Handle(d, e, k, tx)
            row == [tx |-> tx, instanceAddr |-> e.instance, linked |-> TRUE]
<1>1. e.instance \in Mosque /\ e = Donated(e.instance)
  BY EventFields
<1>2. FindByInstance(d, e.instance) = TRUE
  BY <1>1 DEF FindByInstance, Tables
<1>3. /\ w.masjids = d.masjids /\ w.cashOuts = d.cashOuts /\ w.cashOutVotes = d.cashOutVotes
      /\ w.cashIns = { r \in d.cashIns : r.tx # tx } \cup {row}
  BY <1>2 DEF Handle, HandleCashIn, Tables
<1>. HIDE DEF w
<1>4. Linked(w)
  <2>1. \A r \in w.cashIns : r.linked
    BY <1>3 DEF Linked
  <2>. QED  BY <1>3, <2>1 DEF Linked
<1>5. ASSUME e.kind \in Spending
      PROVE  Shown(w, [event |-> e, tx |-> tx])
  BY <1>3 DEF Shown
<1>6. ASSUME NEW l, Shown(d, l), ~Undoes(e, tx, l)
      PROVE  Shown(w, l)
  <2>1. ASSUME l.event.kind = "CashIn"
        PROVE  [tx |-> l.tx, instanceAddr |-> l.event.instance, linked |-> TRUE] \in w.cashIns
    <3>1. [tx |-> l.tx, instanceAddr |-> l.event.instance, linked |-> TRUE] \in d.cashIns
      BY <1>6, <2>1 DEF Shown
    <3>2. l.tx = tx => l.event = e
      BY <1>6, <2>1 DEF Undoes
    <3>. QED  BY <1>3, <3>1, <3>2
  <2>2. Requests(w, l.event) = Requests(d, l.event)
    BY <1>3 DEF Requests
  <2>. QED  BY <1>3, <1>6, <2>1, <2>2, ShownBy
<1>. QED  BY <1>3, <1>4, <1>5, <1>6 DEF Handed, w

\* The rows of one request are replaced.
LEMMA RequestsReplaced ==
  ASSUME NEW d, NEW w, NEW e, NEW new, Linked(d), w.cashIns = d.cashIns,
         \A r : r \in w.cashOuts <=> r \in new \/ (r \in d.cashOuts /\ r \notin Requests(d, e)),
         \A r \in new : r.instanceAddr = e.instance /\ r.requestId = e.requestId /\ r.linked,
         \A r, x \in new : r = x
  PROVE  /\ Linked(w) /\ Requests(w, e) = new
         /\ \A f : f.instance # e.instance \/ f.requestId # e.requestId =>
              Requests(w, f) = Requests(d, f)
<1>1. \A r \in w.cashOuts : \/ r \in new
                            \/ /\ r \in d.cashOuts
                               /\ r.instanceAddr # e.instance \/ r.requestId # e.requestId
  BY DEF Requests
<1>2. \A r : r \in d.cashOuts /\ (r.instanceAddr # e.instance \/ r.requestId # e.requestId) =>
               r \in w.cashOuts
  BY DEF Requests
<1>3. Linked(w)
  <2>1. \A r \in w.cashOuts : r.linked
    BY <1>1 DEF Linked
  <2>2. ASSUME NEW r \in w.cashOuts, NEW x \in w.cashOuts, r.instanceAddr = x.instanceAddr,
               r.requestId = x.requestId
        PROVE  r = x
    BY <1>1, <2>2 DEF Linked
  <2>. QED  BY <2>1, <2>2 DEF Linked
<1>4. Requests(w, e) = new
  BY <1>1 DEF Requests
<1>5. ASSUME NEW f, f.instance # e.instance \/ f.requestId # e.requestId
      PROVE  Requests(w, f) = Requests(d, f)
  BY <1>1, <1>2, <1>5 DEF Requests
<1>. QED  BY <1>3, <1>4, <1>5

\* An approval.
LEMMA ApprovalHanded ==
  ASSUME NEW d \in Tables, Linked(d), NEW e \in Event, NEW tx \in Nat, NEW k \in 1..2,
         e.kind = "CashOutApproved", Requests(d, e) # {}
  PROVE  Handed(d, Handle(d, e, k, tx), e, tx)
<1>. DEFINE w == Handle(d, e, k, tx)
            row == [instanceAddr |-> e.instance, requestId |-> e.requestId,
                    approver |-> e.approver]
<1>1. /\ w.masjids = d.masjids /\ w.cashOuts = d.cashOuts /\ w.cashIns = d.cashIns
      /\ w.cashOutVotes = d.cashOutVotes \cup {row}
  BY DEF Handle, HandleCashOutApproved, Tables
<1>. HIDE DEF w
<1>2. Linked(w)
  BY <1>1 DEF Linked
<1>3. Shown(w, [event |-> e, tx |-> tx])
  BY <1>1 DEF Shown
<1>4. ASSUME NEW l, Shown(d, l)
      PROVE  Shown(w, l)
  <2>1. Requests(w, l.event) = Requests(d, l.event)
    BY <1>1 DEF Requests
  <2>2. l.event.kind = "CashIn" =>
          [tx |-> l.tx, instanceAddr |-> l.event.instance, linked |-> TRUE] \in w.cashIns
    BY <1>1, <1>4 DEF Shown
  <2>. QED  BY <1>1, <1>4, <2>1, <2>2, ShownBy
<1>. QED  BY <1>1, <1>2, <1>3, <1>4 DEF Handed, w

\* A proposal, an execution, a cancellation.
LEMMA RequestHanded ==
  ASSUME NEW d \in Tables, Linked(d), NEW e \in Event, NEW tx \in Nat, NEW k \in 1..2,
         e.kind \in Settling \cup {"CashOutProposed"},
         e.kind = "CashOutProposed" => FindByInstance(d, e.instance),
         e.kind \in Settling => Requests(d, e) # {}
  PROVE  Handed(d, Handle(d, e, k, tx), e, tx)
<1>. DEFINE w == Handle(d, e, k, tx)
            row == [instanceAddr |-> e.instance, requestId |-> e.requestId, linked |-> TRUE,
                    executed |-> FALSE, canceled |-> FALSE]
            Done(r) == [r EXCEPT !.executed = TRUE]
            Gone(r) == [r EXCEPT !.canceled = TRUE]
            new == CASE e.kind = "CashOutProposed" -> {row}
                     [] e.kind = "CashOutExecuted" -> { Done(r) : r \in Requests(d, e) }
                     [] e.kind = "CashOutCanceled" -> { Gone(r) : r \in Requests(d, e) }
<1>1. e.instance \in Mosque /\ e.kind \in {"CashOutProposed", "CashOutExecuted", "CashOutCanceled"}
  BY EventFields DEF Settling
<1>2. e.kind = "CashOutProposed" => FindByInstance(d, e.instance) = TRUE
  BY <1>1 DEF FindByInstance, Tables
<1>3. /\ w.masjids = d.masjids /\ w.cashIns = d.cashIns /\ w.cashOutVotes = d.cashOutVotes
      /\ w.cashOuts = (d.cashOuts \ Requests(d, e)) \cup new
  <2>1. CASE e.kind = "CashOutProposed"
    BY <1>2, <2>1 DEF Handle, HandleCashOutProposed, Tables
  <2>2. CASE e.kind = "CashOutExecuted"
    BY <2>2 DEF Handle, HandleCashOutExecuted, Tables
  <2>3. CASE e.kind = "CashOutCanceled"
    BY <2>3 DEF Handle, HandleCashOutCanceled, Tables
  <2>. QED  BY <1>1, <2>1, <2>2, <2>3
<1>. HIDE DEF w
<1>4. ASSUME NEW r \in Requests(d, e)
      PROVE  /\ r.instanceAddr = e.instance /\ r.requestId = e.requestId
             /\ r.linked /\ \A x \in Requests(d, e) : x = r
             /\ Done(r).instanceAddr = e.instance /\ Done(r).requestId = e.requestId
             /\ Done(r).linked /\ Done(r).executed = TRUE /\ Done(r).canceled = r.canceled
             /\ Gone(r).instanceAddr = e.instance /\ Gone(r).requestId = e.requestId
             /\ Gone(r).linked /\ Gone(r).canceled = TRUE /\ Gone(r).executed = r.executed
  <2>1. /\ r \in d.cashOuts /\ r.instanceAddr = e.instance /\ r.requestId = e.requestId
        /\ r \in [instanceAddr : Mosque, requestId : 1..MaxRequests, linked : BOOLEAN,
                  executed : BOOLEAN, canceled : BOOLEAN]
    BY DEF Requests, Tables
  <2>2. r.linked /\ \A x \in Requests(d, e) : x = r
    BY <2>1 DEF Linked, Requests
  <2>. QED  BY <2>1, <2>2
<1>. HIDE DEF Done, Gone
<1>5. /\ e.kind = "CashOutProposed" => new = {row}
      /\ e.kind = "CashOutExecuted" => new = { Done(r) : r \in Requests(d, e) }
      /\ e.kind = "CashOutCanceled" => new = { Gone(r) : r \in Requests(d, e) }
  OBVIOUS
<1>6. /\ row.instanceAddr = e.instance /\ row.requestId = e.requestId /\ row.linked
  OBVIOUS
<1>. HIDE DEF new, row
<1>7. /\ \A r \in new : r.instanceAddr = e.instance /\ r.requestId = e.requestId /\ r.linked
      /\ \A r, x \in new : r = x
      /\ new # {}
      /\ e.kind = "CashOutExecuted" => \E r \in new : r.executed
      /\ e.kind = "CashOutCanceled" => \E r \in new : r.canceled
  <2>1. CASE e.kind = "CashOutProposed"
    BY <1>5, <1>6, <2>1
  <2>2. CASE e.kind = "CashOutExecuted"
    <3>1. new = { Done(r) : r \in Requests(d, e) } /\ Requests(d, e) # {}
      BY <1>5, <2>2 DEF Settling
    <3>2. PICK r \in Requests(d, e) : TRUE
      BY <3>1
    <3>3. PICK y : y = Done(r)
      OBVIOUS
    <3>4. new = {y}
      BY <1>4, <3>1, <3>3
    <3>5. y.instanceAddr = e.instance /\ y.requestId = e.requestId /\ y.linked /\ y.executed
      BY <1>4, <3>3
    <3>. QED  BY <2>2, <3>4, <3>5
  <2>3. CASE e.kind = "CashOutCanceled"
    <3>1. new = { Gone(r) : r \in Requests(d, e) } /\ Requests(d, e) # {}
      BY <1>5, <2>3 DEF Settling
    <3>2. PICK r \in Requests(d, e) : TRUE
      BY <3>1
    <3>3. PICK y : y = Gone(r)
      OBVIOUS
    <3>4. new = {y}
      BY <1>4, <3>1, <3>3
    <3>5. y.instanceAddr = e.instance /\ y.requestId = e.requestId /\ y.linked /\ y.canceled
      BY <1>4, <3>3
    <3>. QED  BY <2>3, <3>4, <3>5
  <2>. QED  BY <1>1, <2>1, <2>2, <2>3
<1>8. /\ \A r \in new : r.instanceAddr = e.instance /\ r.requestId = e.requestId /\ r.linked
      /\ \A r, x \in new : r = x
  BY <1>7
<1>9. /\ Linked(w) /\ Requests(w, e) = new
      /\ \A f : f.instance # e.instance \/ f.requestId # e.requestId =>
           Requests(w, f) = Requests(d, f)
  <2>1. \A r : r \in w.cashOuts <=> r \in new \/ (r \in d.cashOuts /\ r \notin Requests(d, e))
    BY <1>3
  <2>2. w.cashIns = d.cashIns
    BY <1>3
  <2>. QED  BY <1>8, <2>1, <2>2, RequestsReplaced
<1>10. /\ new # {}
       /\ e.kind = "CashOutExecuted" => \E r \in new : r.executed
       /\ e.kind = "CashOutCanceled" => \E r \in new : r.canceled
  BY <1>7
<1>11. Shown(w, [event |-> e, tx |-> tx])
  BY <1>1, <1>9, <1>10 DEF Shown
<1>12. ASSUME NEW l, l.event.kind \in Spending, Shown(d, l), ~Undoes(e, tx, l)
       PROVE  Shown(w, l)
  <2>. DEFINE f == l.event
  <2>1. CASE f.kind = "CashIn"
    BY <1>3, <1>12, <2>1 DEF Shown
  <2>2. CASE f.kind = "CashOutApproved"
    BY <1>3, <1>12, <2>2 DEF Shown
  <2>3. CASE /\ f.kind \in Requesting
             /\ f.instance # e.instance \/ f.requestId # e.requestId
    <3>1. Requests(w, l.event) = Requests(d, l.event)
      BY <1>9, <2>3
    <3>2. l.event.kind # "CashIn"
      BY <2>3 DEF Requesting, Settling
    <3>. QED  BY <1>3, <1>12, <3>1, <3>2, ShownBy
  <2>4. CASE /\ f.kind \in Settling \cup {"CashOutProposed"}
             /\ f.instance = e.instance /\ f.requestId = e.requestId
    <3>1. Requests(w, f) = new /\ Requests(d, f) = Requests(d, e)
      BY <1>9, <2>4 DEF Requests
    <3>2. f.kind \in Settling => e.kind # "CashOutProposed"
      BY <1>12, <2>4 DEF Undoes
    <3>3. f.kind = "CashOutExecuted" => \E r \in new : r.executed
      <4>1. SUFFICES ASSUME f.kind = "CashOutExecuted" PROVE \E r \in new : r.executed
        OBVIOUS
      <4>2. PICK r \in Requests(d, e) : r.executed
        BY <1>12, <3>1, <4>1 DEF Shown
      <4>3. e.kind \in {"CashOutExecuted", "CashOutCanceled"}
        BY <1>1, <3>2, <4>1 DEF Settling
      <4>4. Done(r).executed /\ Gone(r).executed
        BY <1>4, <4>2
      <4>. QED  BY <1>5, <4>3, <4>4
    <3>4. f.kind = "CashOutCanceled" => \E r \in new : r.canceled
      <4>1. SUFFICES ASSUME f.kind = "CashOutCanceled" PROVE \E r \in new : r.canceled
        OBVIOUS
      <4>2. PICK r \in Requests(d, e) : r.canceled
        BY <1>12, <3>1, <4>1 DEF Shown
      <4>3. e.kind \in {"CashOutExecuted", "CashOutCanceled"}
        BY <1>1, <3>2, <4>1 DEF Settling
      <4>4. Done(r).canceled /\ Gone(r).canceled
        BY <1>4, <4>2
      <4>. QED  BY <1>5, <4>3, <4>4
    <3>. QED  BY <1>10, <2>4, <3>1, <3>3, <3>4 DEF Shown, Settling
  <2>. QED  BY <1>12, <2>1, <2>2, <2>3, <2>4 DEF Spending, Requesting
<1>. QED  BY <1>3, <1>9, <1>11, <1>12 DEF Handed, w

\* Every statement of a handler of the instances' events.
LEMMA InstanceHanded ==
  ASSUME NEW d \in Tables, Linked(d), NEW e \in Event, NEW tx \in Nat, NEW k \in 1..2,
         e.kind \in Topics[Instances], FindByInstance(d, e.instance),
         e.kind \in Settling \cup {"CashOutApproved"} => Requests(d, e) # {}
  PROVE  Handed(d, Handle(d, e, k, tx), e, tx)
<1>1. e.kind \in {"CashIn", "CashOutApproved", "BoardMemberUpdated"}
                   \cup (Settling \cup {"CashOutProposed"})
  BY SpendingKinds DEF Spending, Requesting
<1>2. CASE e.kind = "CashIn"
  BY <1>2, DonationHanded
<1>3. CASE e.kind = "CashOutApproved"
  BY <1>3, ApprovalHanded
<1>4. CASE e.kind \in Settling \cup {"CashOutProposed"}
  BY <1>4, RequestHanded
<1>5. CASE e.kind = "BoardMemberUpdated"
  <2>. DEFINE w == Handle(d, e, k, tx)
  <2>1. /\ w.masjids = d.masjids /\ w.cashIns = d.cashIns /\ w.cashOuts = d.cashOuts
        /\ w.cashOutVotes = d.cashOutVotes
    <3>1. w = HandleBoardMemberUpdated(d, e, k)
      BY <1>5 DEF Handle
    <3>. HIDE DEF w
    <3>2. w = UpsertBoardMember(d, e) \/ \E role : w = UpsertUser(d, e.member, role)
      BY <3>1 DEF HandleBoardMemberUpdated
    <3>3. CASE w = UpsertBoardMember(d, e)
      BY <3>3 DEF UpsertBoardMember, Tables
    <3>4. CASE \E role : w = UpsertUser(d, e.member, role)
      BY <3>4 DEF UpsertUser, Tables
    <3>. QED  BY <3>2, <3>3, <3>4
  <2>. HIDE DEF w
  <2>2. Linked(w)
    BY <2>1 DEF Linked
  <2>3. \A f : Requests(w, f) = Requests(d, f)
    BY <2>1 DEF Requests
  <2>4. \A l : Shown(d, l) => Shown(w, l)
    BY <2>1, <2>3 DEF Shown
  <2>5. e.kind \notin Spending
    BY <1>5 DEF Spending, Requesting, Settling
  <2>. QED  BY <2>1, <2>2, <2>4, <2>5 DEF Handed, w
<1>. QED  BY <1>1, <1>2, <1>3, <1>4, <1>5

\* The other streams' handlers leave these tables alone.
LEMMA OthersHanded ==
  ASSUME NEW d \in Tables, Linked(d), NEW e \in Event, NEW tx \in Nat, NEW k \in 1..2,
         e.kind \notin Topics[Instances]
  PROVE  LET w == Handle(d, e, k, tx) IN Linked(w) /\ \A l : Shown(d, l) => Shown(w, l)
<1>. DEFINE w == Handle(d, e, k, tx)
            Kept == /\ w.cashIns = d.cashIns /\ w.cashOuts = d.cashOuts
                    /\ w.cashOutVotes = d.cashOutVotes
<1>1. e.kind \in {"MasjidRegistered", "MasjidAttested", "MasjidRejected", "MasjidVerified",
                  "MasjidStatusUpdated", "VerifierAdded", "VerifierRemoved"}
  BY EventFields DEF Topics, Stream, Instances
<1>2. ASSUME e.kind = "MasjidRegistered" PROVE Kept
  BY <1>2 DEF Handle, HandleMasjidRegistered, Tables
<1>3. ASSUME e.kind = "MasjidAttested" PROVE Kept
  <2>1. w = HandleMasjidAttested(d, e, k)
    BY <1>3 DEF Handle
  <2>. HIDE DEF w
  <2>2. \/ w = d \/ w = UpsertAttest(d, e)
        \/ w = UpdateAttestCounts(d, e.masjidId, e.yesCount, e.noCount)
    BY <2>1 DEF HandleMasjidAttested
  <2>3. CASE w = UpsertAttest(d, e)
    BY <2>3 DEF UpsertAttest, Tables
  <2>4. CASE w = UpdateAttestCounts(d, e.masjidId, e.yesCount, e.noCount)
    BY <2>4 DEF UpdateAttestCounts, Tables
  <2>. QED  BY <2>2, <2>3, <2>4
<1>4. ASSUME e.kind = "MasjidRejected" PROVE Kept
  BY <1>4 DEF Handle, HandleMasjidRejected, UpdateStatus, Tables
<1>5. ASSUME e.kind = "MasjidStatusUpdated" PROVE Kept
  BY <1>5 DEF Handle, HandleStatus, UpdateStatus, Tables
<1>6. ASSUME e.kind = "MasjidVerified" PROVE Kept
  <2>1. w = HandleMasjidVerified(d, e, k)
    BY <1>6 DEF Handle
  <2>. HIDE DEF w
  <2>2. w = d \/ w = UpdateVerified(d, e.masjidId) \/ \E a : w = UpsertUser(d, a, "board")
    BY <2>1 DEF HandleMasjidVerified
  <2>3. CASE w = UpdateVerified(d, e.masjidId)
    BY <2>3 DEF UpdateVerified, Tables
  <2>4. CASE \E a : w = UpsertUser(d, a, "board")
    BY <2>4 DEF UpsertUser, Tables
  <2>. QED  BY <2>2, <2>3, <2>4
<1>7. ASSUME e.kind \in {"VerifierAdded", "VerifierRemoved"} PROVE Kept
  <2>1. \/ w = UpsertVerifier(d, e.address) \/ w = UpsertUser(d, e.address, "verifier")
        \/ w = Deactivate(d, e.address) \/ w = UpdateRole(d, e.address, "guest")
    BY <1>7 DEF Handle, HandleVerifierAdded, HandleVerifierRemoved
  <2>. HIDE DEF w
  <2>2. CASE w = UpsertVerifier(d, e.address)
    BY <2>2 DEF UpsertVerifier, Tables
  <2>3. CASE w = UpsertUser(d, e.address, "verifier")
    BY <2>3 DEF UpsertUser, Tables
  <2>4. CASE w = Deactivate(d, e.address)
    BY <2>4 DEF Deactivate, Tables
  <2>5. CASE w = UpdateRole(d, e.address, "guest")
    BY <2>5 DEF UpdateRole, Tables
  <2>. QED  BY <2>1, <2>2, <2>3, <2>4, <2>5
<1>. HIDE DEF w
<1>8. Kept
  BY <1>1, <1>2, <1>3, <1>4, <1>5, <1>6, <1>7
<1>9. Linked(w)
  BY <1>8 DEF Linked
<1>10. \A f : Requests(w, f) = Requests(d, f)
  BY <1>8 DEF Requests
<1>11. \A l : Shown(d, l) => Shown(w, l)
  BY <1>8, <1>10 DEF Shown
<1>. QED  BY <1>9, <1>11 DEF w

(* What the final logs say of an instance *)

\* A final log is an event of a block that can no longer be replaced, with its block.
LEMMA FinalLog ==
  ASSUME IInv, SyncInv
  PROVE  /\ \A l \in FinalLogs :
              /\ l \in Log /\ l.event \in Event /\ l.tx \in Nat
              /\ l = [event |-> l.event, tx |-> l.tx]
              /\ l.tx \in 1..SafeHead /\ l.tx \in 1..Len(chain) /\ l.event \in ToSet(chain[l.tx])
         /\ \A b \in 1..SafeHead : \A e \in ToSet(chain[b]) : [event |-> e, tx |-> b] \in FinalLogs
<1>. DEFINE n == SafeHead
<1>1. chain \in Seq(Seq(Event)) /\ n \in 0..Len(chain)
  BY SyncOf
<1>. HIDE DEF n
<1>2. FinalLogs = LogsIn(chain, n)
  BY DEF FinalLogs, n
<1>3. /\ LogsIn(chain, n) \subseteq Log
      /\ \A l \in LogsIn(chain, n) : l.tx \in 1..n /\ l.event \in ToSet(chain[l.tx])
  BY <1>1, LogsAreEvents
<1>4. \A i \in 1..n : i \in 1..Len(chain)
  BY <1>1
<1>5. \A l \in Log : l.event \in Event /\ l.tx \in Nat /\ l = [event |-> l.event, tx |-> l.tx]
  BY DEF Log
<1>6. \A b \in 1..n : \A e \in ToSet(chain[b]) : [event |-> e, tx |-> b] \in FinalLogs
  BY <1>2, LogOfBlock
<1>7. \A l \in FinalLogs : /\ l \in Log /\ l.event \in Event /\ l.tx \in Nat
                           /\ l = [event |-> l.event, tx |-> l.tx]
                           /\ l.tx \in 1..n /\ l.tx \in 1..Len(chain) /\ l.event \in ToSet(chain[l.tx])
  BY <1>2, <1>3, <1>4, <1>5
<1>. QED  BY <1>6, <1>7 DEF n

\* An instance's events come after it was announced, a request's after its proposal.
LEMMA FinalBefore ==
  ASSUME IInv, SyncInv, NEW l \in FinalLogs, l.event.kind \in Spending
  PROVE  /\ l.event.instance \in Mosque
         /\ \E v \in FinalLogs : v.event = Verified(l.event.instance) /\ v.tx < l.tx
         /\ l.event.kind \in Settling \cup {"CashOutApproved"} =>
              \E p \in FinalLogs :
                p.event = Proposed(l.event.instance, l.event.requestId) /\ p.tx < l.tx
<1>. DEFINE n == SafeHead
            t == l.tx
            e == l.event
<1>1. /\ chain \in Seq(Seq(Event)) /\ Lawful(chain) /\ n \in Nat
      /\ t \in 1..n /\ t \in 1..Len(chain) /\ e \in ToSet(chain[t])
      /\ \A b \in 1..n : \A x \in ToSet(chain[b]) : [event |-> x, tx |-> b] \in FinalLogs
  BY SyncOf, FinalLog
<1>. HIDE DEF n, t, e
<1>2. e.kind \in Spending
  BY DEF e
<1>3. /\ e.instance \in Mosque
      /\ \E k \in 1..Len(chain) : k < t /\ Verified(e.instance) \in ToSet(chain[k])
      /\ e.kind \in Settling \cup {"CashOutApproved"} =>
           \E k \in 1..Len(chain) : k < t /\ Proposed(e.instance, e.requestId) \in ToSet(chain[k])
  BY <1>1, <1>2, SpentInChain
<1>4. \A k \in 1..Len(chain) : k < t => k \in 1..n
  BY <1>1
<1>5. ASSUME NEW k \in 1..Len(chain), k < t, NEW x \in ToSet(chain[k])
      PROVE  \E p \in FinalLogs : p.event = x /\ p.tx < t
  <2>1. [event |-> x, tx |-> k] \in FinalLogs
    BY <1>1, <1>4, <1>5
  <2>. QED  BY <1>5, <2>1
<1>6. \E v \in FinalLogs : v.event = Verified(e.instance) /\ v.tx < t
  BY <1>3, <1>5
<1>7. e.kind \in Settling \cup {"CashOutApproved"} =>
        \E p \in FinalLogs : p.event = Proposed(e.instance, e.requestId) /\ p.tx < t
  BY <1>3, <1>5
<1>. QED  BY <1>3, <1>6, <1>7 DEF e, t

\* What the handling of a log takes back comes later in the chain.
LEMMA UndoneIsLater ==
  ASSUME IInv, SyncInv, NEW l \in FinalLogs, l.event.kind \in Topics[Instances],
         NEW x \in FinalLogs, x.event.kind \in Spending, Undoes(l.event, l.tx, x)
  PROVE  l.tx < x.tx
<1>. DEFINE t == l.tx
            e == l.event
            b == x.tx
            f == x.event
<1>1. /\ chain \in Seq(Seq(Event)) /\ Lawful(chain)
      /\ t \in 1..Len(chain) /\ e \in ToSet(chain[t]) /\ e \in Event
      /\ b \in 1..Len(chain) /\ f \in ToSet(chain[b])
  BY SyncOf, FinalLog
<1>2. f.kind \in Spending
  OBVIOUS
<1>3. \/ e.kind = "CashIn" /\ f.kind = "CashIn" /\ b = t /\ f # e
      \/ /\ e.kind = "CashOutProposed" /\ f.kind \in Settling
         /\ f.instance = e.instance /\ f.requestId = e.requestId
  BY DEF Undoes
<1>. HIDE DEF t, e, b, f
<1>4. CASE e.kind = "CashIn" /\ f.kind = "CashIn" /\ b = t /\ f # e
  <2>1. ToSet(chain[b]) = {f}
    BY <1>1, <1>2, SpentInChain
  <2>. QED  BY <1>1, <1>4, <2>1
<1>5. CASE /\ e.kind = "CashOutProposed" /\ f.kind \in Settling
           /\ f.instance = e.instance /\ f.requestId = e.requestId
  <2>1. e = Proposed(e.instance, e.requestId) /\ e.instance \in Mosque
    BY <1>1, <1>5, EventFields
  <2>2. f.kind \in Requesting /\ f # e
    BY <1>5 DEF Requesting, Settling
  <2>. DEFINE m == e.instance
              r == e.requestId
  <2>. HIDE DEF m, r
  <2>3. /\ Proposed(m, r) \in ToSet(chain[t]) /\ f.instance = m /\ f.requestId = r
        /\ f # Proposed(m, r) /\ m \in Mosque
    BY <1>1, <1>5, <2>1, <2>2 DEF m, r
  <2>4. t < b
    BY <1>1, <2>2, <2>3, ProposedFirst
  <2>. QED  BY <2>4 DEF t, b
<1>. QED  BY <1>3, <1>4, <1>5 DEF t, b

\* An instance is announced once.
LEMMA VerifiedOnce ==
  ASSUME NEW c \in Seq(Seq(Event)), Lawful(c), NEW m \in Mosque, NEW b \in 1..Len(c),
         Verified(m) \in ToSet(c[b]), NEW k \in 1..Len(c), Verified(m) \in ToSet(c[k])
  PROVE  ~(b < k)
<1>. SUFFICES ASSUME b < k PROVE FALSE
  OBVIOUS
<1>. DEFINE before == Events(c, k - 1)
            v == Verified(m)
<1>1. /\ k - 1 \in 0..Len(c) /\ before \in Seq(Event) /\ v \in Event /\ c[k] \in Allowed(before)
      /\ \A y : y \in ToSet(before) <=> \E j \in 1..Len(c) : j < k /\ y \in ToSet(c[j])
  BY Before DEF Lawful
<1>2. /\ v.kind = "MasjidVerified" /\ v.masjidId = m /\ v.kind \in Topics[Protocol]
      /\ v # Registered(m) /\ v \in Deciding(m)
  BY <1>1, ProtocolKinds DEF Verified, Registered, Decisive, Deciding
<1>3. StatusOnChain(before, m) = "pending"
  <2>. HIDE DEF before, v
  <2>1. v \in ToSet(c[k])
    BY DEF v
  <2>. QED  BY <1>1, <1>2, <2>1, SaidWhen
<1>4. PICK e \in Deciding(m) : LastIs(before, Deciding(m), e) /\ StatusAfter(e) = "pending"
  BY <1>1, <1>3, StatusLast
<1>5. e = Registered(m)
  <2>1. e \in Event /\ e.masjidId = m /\ e.kind \in Decisive
    BY <1>4 DEF Deciding
  <2>2. e.kind # "MasjidRegistered" => StatusAfter(e) # "pending"
    BY <2>1, EventFields DEF StatusAfter, Decisive
  <2>. QED  BY <1>4, <2>1, <2>2, EventFields
<1>. DEFINE n == k - 1
<1>6. n \in 0..Len(c) /\ LastIs(Events(c, n), Deciding(m), e) /\ (\A i \in 1..n : i \in 1..Len(c))
      /\ b \in 1..n
  BY <1>1, <1>4
<1>. HIDE DEF n, before
<1>7. PICK j \in 1..n : /\ LastIs(c[j], Deciding(m), e)
                        /\ \A i \in 1..n : i > j => ToSet(c[i]) \cap Deciding(m) = {}
  BY <1>6, LastOfBlocks
<1>8. Registered(m) \in ToSet(c[j])
  BY <1>5, <1>7 DEF LastIs, ToSet
<1>9. j < b
  BY <1>2, <1>6, <1>7, <1>8, RegisteredFirst
<1>10. b > j
  BY <1>6, <1>9
<1>. QED  BY <1>2, <1>6, <1>7, <1>10

\* When the protocol's columns are right but for events after block i, the tables name every
\* instance with an event up to it.
LEMMA TablesName ==
  ASSUME IInv, SyncInv, NEW i \in Nat,
         RightOrAwaited(Protocol, db, Final, Ahead(chain, i + 1, SafeHead)),
         NEW l \in FinalLogs, l.event.kind \in Spending, l.tx <= i
  PROVE  FindByInstance(db, l.event.instance)
<1>. DEFINE n == SafeHead
            m == l.event.instance
            c == [column |-> "instance", of |-> m]
<1>1. /\ chain \in Seq(Seq(Event)) /\ Lawful(chain) /\ n \in Nat /\ n \in 0..Len(chain)
      /\ l.tx \in Nat /\ m \in Mosque
  BY SyncOf, FinalLog, FinalBefore
<1>2. PICK v \in FinalLogs : v.event = Verified(m) /\ v.tx < l.tx
  BY FinalBefore
<1>. DEFINE k == v.tx
<1>3. k \in 1..n /\ k \in 1..Len(chain) /\ Verified(m) \in ToSet(chain[k]) /\ k < i + 1
  BY <1>1, <1>2, FinalLog
<1>4. /\ c \in RowCell /\ c \in Cells(Protocol) /\ c.of = m /\ c.column = "instance"
  BY <1>1 DEF Cells, RowCell, RowColumn
<1>5. \A x : x \in Writers(c) <=> /\ x \in Event /\ x.masjidId = m
                                  /\ x.kind \in {"MasjidRegistered", "MasjidVerified"}
  BY <1>4 DEF Writers, Writes, Kinds
<1>6. /\ Verified(m) \in Event /\ Verified(m).kind = "MasjidVerified"
      /\ Verified(m).masjidId = m /\ Verified(m) # Registered(m)
      /\ Verified(m).kind \in Topics[Protocol]
  BY <1>1, ProtocolKinds DEF Event, Verified, Registered, Decisive
<1>. HIDE DEF c, n, k, m
<1>7. \A x \in Writers(c) : x = Registered(m) \/ x = Verified(m)
  BY <1>5, EventFields
<1>8. Writers(c) \cap Ahead(chain, i + 1, n) = {}
  <2>1. SUFFICES ASSUME NEW x \in Writers(c), x \in Ahead(chain, i + 1, n) PROVE FALSE
    OBVIOUS
  <2>2. PICK b \in (i + 1)..n : x \in ToSet(chain[b])
    BY <2>1 DEF Ahead
  <2>3. b \in 1..Len(chain) /\ k < b
    BY <1>1, <1>3
  <2>4. x # Verified(m)
    BY <1>1, <1>3, <2>2, <2>3, VerifiedOnce
  <2>5. Registered(m) \in ToSet(chain[b])
    BY <1>7, <2>2, <2>4
  <2>6. b < k
    BY <1>1, <1>3, <1>6, <2>3, <2>5, RegisteredFirst
  <2>. QED  BY <1>3, <2>3, <2>6
<1>9. Right(db, Final, c)
  BY <1>4, <1>8 DEF RightOrAwaited, n
<1>10. /\ Final \in Seq(Event) /\ Verified(m) \in ToSet(Final) /\ Verified(m) \in Writers(c)
  BY <1>3, <1>5, <1>6, FinalEvents DEF n
<1>11. PICK e : LastIs(Final, Writers(c), e)
  BY <1>10, LastExists
<1>12. e = Registered(m) \/ e = Verified(m)
  BY <1>7, <1>10, <1>11, LastIsThere
<1>13. e # Registered(m)
  <2>1. SUFFICES ASSUME e = Registered(m) PROVE FALSE
    OBVIOUS
  <2>2. Verified(m) = Registered(m)
    BY <1>1, <1>6, <1>10, <1>11, <2>1, RegisteredIsLast
  <2>. QED  BY <1>6, <2>2
<1>14. Says(db, c, Verified(m))
  BY <1>9, <1>11, <1>12, <1>13 DEF Right
<1>15. SaysRow(db.masjids[m], "instance", Verified(m))
  BY <1>4, <1>14, Zenon DEF Says, RowColumn
<1>16. db.masjids[m].instanceAddr
  BY <1>6, <1>15 DEF SaysRow
<1>. QED  BY <1>16 DEF FindByInstance, m

(* The steps *)

\* What is still to come, and what is shown.
LEMMA MoreToCome ==
  ASSUME NEW d, NEW L, NEW W, NEW V, ShownOrAwaited(d, L, W), W \cap L \subseteq V
  PROVE  ShownOrAwaited(d, L, V)
BY DEF ShownOrAwaited

\* Fewer logs come from a later block on.
LEMMA LogsFromTo ==
  ASSUME IInv, SyncInv, NEW i \in Nat, NEW j \in Nat, i <= j
  PROVE  LogsFrom(j) \subseteq LogsFrom(i)
BY FinalLog DEF LogsFrom

\* What the invariant says of a state.
LEMMA InstanceOf ==
  ASSUME IInv, SyncInv, InstanceInv, ~Holed
  PROVE  /\ ~Lossy /\ "protocolLogs" \notin failed
         /\ pass \in {Registry, Instances} =>
              RightOrAwaited(Protocol, db, Final, Ahead(chain, safeHead + 1, SafeHead))
         /\ pass # Instances \/ step \in {"enter", "fetch"} \/ "checkpointRead" \notin failed =>
              ShownOrAwaited(db, FinalLogs, LogsFrom(checkpoint[Instances] + 1))
         /\ FilterComplete /\ LogsComplete /\ ShownAtPosition
         /\ checkpoint[Instances] \in Nat
BY SyncOf, SpendingKinds DEF InstanceInv, InstancesFollow, Holed, ProtocolDone, ShownAtCheckpoint

\* The final logs stay while the chain stands still, and a fault that has happened stays so.
LEMMA FinalLogsStay ==
  ASSUME UNCHANGED chainVars
  PROVE  FinalLogs' = FinalLogs /\ \A i : LogsFrom(i)' = LogsFrom(i)
<1>1. FinalLogs' = FinalLogs
  BY StandsStill DEF FinalLogs
<1>. QED  BY <1>1 DEF LogsFrom

LEMMA HoledStays ==
  ASSUME failed \subseteq failed', ~Holed'
  PROVE  ~Holed /\ ~Lossy' /\ ("checkpointRead" \notin failed' => "checkpointRead" \notin failed)
BY LossyStays DEF Holed

\* Where no logs of the instances are read only the checkpoint counts.
LEMMA InstancesRest ==
  ASSUME UNCHANGED chainVars, Linked(db'),
         step' \in {"none", "enter", "waiting"} \/ pass' # Instances,
         ~Holed' =>
           /\ pass' \in {Registry, Instances} =>
                RightOrAwaited(Protocol, db', Final, Ahead(chain, safeHead' + 1, SafeHead))
           /\ \/ pass' # Instances
              \/ step' \in {"enter", "fetch"}
              \/ "checkpointRead" \notin failed'
              => ShownOrAwaited(db', FinalLogs, LogsFrom(checkpoint'[Instances] + 1))
  PROVE  InstanceInv'
<1>1. chain' = chain /\ SafeHead' = SafeHead /\ Final' = Final /\ FinalLogs' = FinalLogs
  BY StandsStill, FinalLogsStay
<1>2. FilterNamed' /\ FilterComplete' /\ LogsComplete' /\ ShownAtPosition'
  BY DEF FilterNamed, FilterComplete, LogsComplete, ShownAtPosition
<1>3. ~Holed' => ProtocolDone'
  BY <1>1 DEF ProtocolDone
<1>4. ~Holed' => ShownAtCheckpoint'
  BY <1>1 DEF ShownAtCheckpoint, LogsFrom
<1>. QED  BY <1>2, <1>3, <1>4 DEF InstanceInv, InstancesFollow

\* A new block adds logs that are still to be handled; a replaced head was not final.
LEMMA ChainInstances ==
  ASSUME IInv, SyncInv, InstanceInv, ChainStep \/ ReorgStep
  PROVE  InstanceInv'
<1>1. /\ chain' \in Seq(Seq(Event)) /\ SafeHead <= SafeHead'
      /\ \A b \in 1..SafeHead : chain'[b] = chain[b]
      /\ UNCHANGED <<storedVars, processVars, faultVars>>
  BY ChainSteps
<1>2. UNCHANGED <<db, checkpoint, pass, step, safeHead, from, to, logs, instances, failed>>
  BY <1>1 DEF storedVars, processVars, faultVars
<1>. DEFINE n == SafeHead
            m == SafeHead'
            New == Ahead(chain', n + 1, m)
<1>3. chain \in Seq(Seq(Event)) /\ n \in 0..Len(chain) /\ n \in Nat
  BY SafeHeadType DEF IInv, TypeOK
<1>4. m \in 0..Len(chain')
  <2>1. Len(chain') \in Nat /\ (m = 0 \/ (m = Len(chain') - 1 /\ ~(Len(chain') < 2)))
    BY <1>1 DEF SafeHead
  <2>. HIDE DEF m
  <2>. QED  BY <2>1
<1>5. /\ checkpoint[Instances] \in 0..n /\ safeHead \in 0..n /\ from \in 0..safeHead
      /\ to \in 0..safeHead
  BY StateOf, SpendingKinds
<1>. HIDE DEF n, m
<1>6. /\ \A i \in 1..(n + 1) : Ahead(chain, i, n) \cup New \subseteq Ahead(chain', i, m)
      /\ \A P, x : P \cap New = {} =>
           (LastIs(Events(chain', m), P, x) <=> LastIs(Events(chain, n), P, x))
  BY <1>1, <1>3, <1>4, AheadGrows DEF n, m
<1>7. Final = Events(chain, n) /\ Final' = Events(chain', m)
  BY DEF Final, n, m
<1>. HIDE DEF New
<1>8. ASSUME NEW i \in 1..(n + 1), RightOrAwaited(Protocol, db, Final, Ahead(chain, i, n))
      PROVE  RightOrAwaited(Protocol, db', Final', Ahead(chain', i, m))
  <2>1. SUFFICES ASSUME NEW c \in Cells(Protocol), Writers(c) \cap Ahead(chain', i, m) = {}
                 PROVE  Right(db, Final', c)
    BY <1>2 DEF RightOrAwaited
  <2>2. Writers(c) \cap New = {} /\ Writers(c) \cap Ahead(chain, i, n) = {}
    BY <1>6, <2>1
  <2>3. Right(db, Final, c)
    BY <1>8, <2>2 DEF RightOrAwaited
  <2>. QED  BY <1>6, <1>7, <2>2, <2>3 DEF Right
<1>9. /\ FinalLogs \subseteq FinalLogs'
      /\ \A l \in FinalLogs' : l.tx \in Nat /\ (l \in FinalLogs \/ n + 1 <= l.tx)
  <2>1. FinalLogs = LogsIn(chain, n) /\ FinalLogs' = LogsIn(chain', m) /\ n <= m
    BY <1>1 DEF FinalLogs, n, m
  <2>2. /\ m \in Nat
        /\ \A b \in 1..n : b \in 1..m /\ chain'[b] = chain[b]
        /\ \A b \in 1..m : b \in Nat /\ (b \in 1..n \/ n + 1 <= b)
    BY <1>1, <1>3, <1>4, <2>1 DEF n
  <2>3. FinalLogs \subseteq FinalLogs'
    BY <2>1, <2>2 DEF LogsIn
  <2>4. ASSUME NEW l \in FinalLogs'
        PROVE  l.tx \in Nat /\ (l \in FinalLogs \/ n + 1 <= l.tx)
    <3>1. PICK b \in 1..m : l \in { [event |-> e, tx |-> b] : e \in ToSet(chain'[b]) }
      BY <2>1, <2>4 DEF LogsIn
    <3>2. l.tx = b
      BY <3>1
    <3>3. b \in 1..n => l \in { [event |-> e, tx |-> b] : e \in ToSet(chain[b]) }
      BY <2>2, <3>1
    <3>4. b \in 1..n => l \in FinalLogs
      BY <2>1, <3>3 DEF LogsIn
    <3>. QED  BY <2>2, <3>2, <3>4
  <2>. QED  BY <2>3, <2>4
<1>10. \A i \in Nat : i <= n => \A l \in FinalLogs' : l.tx <= i => l \in FinalLogs
  BY <1>3, <1>9
<1>11. ASSUME NEW W, NEW V, NEW i \in 0..(n + 1), ShownOrAwaited(db, FinalLogs, W), W \subseteq V,
              \A l \in FinalLogs' : l.tx >= i => l \in V
       PROVE  ShownOrAwaited(db, FinalLogs', V)
  <2>1. SUFFICES ASSUME NEW l \in FinalLogs', l.event.kind \in Spending, l \notin V
                 PROVE  Shown(db, l)
    BY DEF ShownOrAwaited
  <2>2. l \in FinalLogs
    BY <1>3, <1>9, <1>11, <2>1
  <2>. QED  BY <1>11, <2>1, <2>2 DEF ShownOrAwaited
<1>12. \A i : LogsFrom(i) \subseteq { l \in FinalLogs' : l.tx >= i }
  BY <1>9 DEF LogsFrom
<1>13. Linked(db)' /\ FilterNamed'
  BY <1>2 DEF InstanceInv, FilterNamed
<1>14. Holed' <=> Holed
  BY <1>2 DEF Holed, Lossy
<1>. SUFFICES ASSUME ~Holed PROVE ProtocolDone' /\ FilterComplete' /\ LogsComplete'
                                  /\ ShownAtCheckpoint' /\ ShownAtPosition'
  BY <1>13, <1>14 DEF InstanceInv, InstancesFollow
<1>15. ProtocolDone'
  <2>1. safeHead + 1 \in 1..(n + 1)
    BY <1>3, <1>5
  <2>2. pass \in {Registry, Instances} =>
          RightOrAwaited(Protocol, db, Final, Ahead(chain, safeHead + 1, n))
    BY InstanceOf DEF n
  <2>. QED  BY <1>2, <1>8, <2>1, <2>2 DEF ProtocolDone, m
<1>16. FilterComplete'
  <2>1. \A l \in FinalLogs' : l.tx <= safeHead => l \in FinalLogs
    BY <1>3, <1>5, <1>10
  <2>. QED  BY <1>2, <2>1, InstanceOf DEF FilterComplete
<1>17. LogsComplete'
  <2>1. \A l \in FinalLogs' : l.tx <= to => l \in FinalLogs
    BY <1>3, <1>5, <1>10
  <2>. QED  BY <1>2, <2>1, InstanceOf DEF LogsComplete
<1>18. ShownAtCheckpoint'
  <2>. DEFINE i == checkpoint[Instances] + 1
  <2>1. i \in 0..(n + 1)
    BY <1>3, <1>5
  <2>2. pass # Instances \/ step \in {"enter", "fetch"} \/ "checkpointRead" \notin failed =>
          ShownOrAwaited(db, FinalLogs, LogsFrom(i))
    BY InstanceOf
  <2>. HIDE DEF i
  <2>. DEFINE V == { l \in FinalLogs' : l.tx >= i }
  <2>3. ShownOrAwaited(db, FinalLogs, LogsFrom(i)) => ShownOrAwaited(db, FinalLogs', V)
    BY <1>11, <1>12, <2>1
  <2>. QED  BY <1>2, <2>2, <2>3 DEF ShownAtCheckpoint, LogsFrom, i
<1>19. ShownAtPosition'
  <2>1. from \in 0..(n + 1) /\ to + 1 \in 0..(n + 1)
    BY <1>3, <1>5
  <2>. DEFINE F(i) == { l \in FinalLogs' : l.tx >= i }
  <2>2. /\ ShownOrAwaited(db, FinalLogs, LogsFrom(from)) => ShownOrAwaited(db, FinalLogs', F(from))
        /\ ShownOrAwaited(db, FinalLogs, LogsFrom(to + 1)) =>
             ShownOrAwaited(db, FinalLogs', F(to + 1))
    BY <1>11, <1>12, <2>1
  <2>3. ShownOrAwaited(db, FinalLogs, ToSet(logs) \cup LogsFrom(to + 1)) =>
          ShownOrAwaited(db, FinalLogs', ToSet(logs) \cup F(to + 1))
    <3>. DEFINE i == to + 1
                W == ToSet(logs) \cup LogsFrom(i)
                V == ToSet(logs) \cup F(i)
    <3>1. W \subseteq V /\ \A l \in FinalLogs' : l.tx >= i => l \in V
      BY <1>12
    <3>2. i \in 0..(n + 1)
      BY <2>1
    <3>. HIDE DEF W, V, i
    <3>3. ShownOrAwaited(db, FinalLogs, W) => ShownOrAwaited(db, FinalLogs', V)
      BY <1>11, <3>1, <3>2
    <3>. QED  BY <3>3 DEF W, V, i
  <2>4. pass = Instances =>
          /\ step = "fetch" => ShownOrAwaited(db, FinalLogs, LogsFrom(from))
          /\ step = "handle" => ShownOrAwaited(db, FinalLogs, ToSet(logs) \cup LogsFrom(to + 1))
          /\ step = "save" => ShownOrAwaited(db, FinalLogs, LogsFrom(to + 1))
    BY InstanceOf DEF ShownAtPosition
  <2>. QED  BY <1>2, <2>2, <2>3, <2>4 DEF ShownAtPosition, LogsFrom
<1>. QED  BY <1>15, <1>16, <1>17, <1>18, <1>19

\* A pass that is over leaves the protocol's columns at the tick's last block.
LEMMA EndPassInstances ==
  ASSUME IInv, UNCHANGED chainVars, EndPass, pass \in Stream, Linked(db'),
         ~Holed' => ShownOrAwaited(db', FinalLogs, LogsFrom(checkpoint'[Instances] + 1)),
         ~Holed' /\ pass # Instances =>
           RightOrAwaited(Protocol, db', Final, Ahead(chain, safeHead + 1, SafeHead))
  PROVE  InstanceInv'
<1>1. /\ step' \in {"none", "enter"}
      /\ pass = Instances => pass' = "idle"
      /\ pass # Instances => safeHead' = safeHead
  BY DEF EndPass, Instances, PassAfter
<1>2. "idle" \notin {Registry, Instances}
  BY DEF Registry, Instances
<1>. QED  BY <1>1, <1>2, InstancesRest

\* Columns that are right but for later events than the tick's last are right up to it.
LEMMA RightUpTo ==
  ASSUME IInv, NEW i \in Nat, safeHead < i, NEW d,
         RightOrAwaited(Protocol, d, Final, Ahead(chain, i, SafeHead))
  PROVE  RightOrAwaited(Protocol, d, Final, Ahead(chain, safeHead + 1, SafeHead))
<1>1. safeHead + 1 \in Nat /\ safeHead + 1 <= i /\ SafeHead \in Nat
  BY StateOf
<1>2. Ahead(chain, i, SafeHead) \subseteq Ahead(chain, safeHead + 1, SafeHead)
  BY <1>1, AheadOf
<1>. QED  BY <1>2, MoreAwaited

\* A tick begins: nothing is read yet.
LEMMA BeginTickInstances ==
  ASSUME IInv, SyncInv, InstanceInv, BeginTick
  PROVE  InstanceInv'
<1>1. /\ pass = "idle" /\ pass' = "MasjidProtocol" /\ step' = "enter"
      /\ UNCHANGED <<chainVars, storedVars, faultVars>>
  BY DEF BeginTick
<1>2. UNCHANGED chainVars /\ UNCHANGED <<db, checkpoint, failed>>
  BY <1>1 DEF storedVars, faultVars
<1>3. pass # Instances /\ pass' \notin {Registry, Instances}
  BY <1>1 DEF Registry, Instances
<1>4. Linked(db') /\ (Holed' <=> Holed)
  BY <1>2 DEF InstanceInv, Holed, Lossy
<1>. QED  BY <1>1, <1>2, <1>3, <1>4, InstanceOf, InstancesRest

\* A call that is never answered, and a crash: only the checkpoint counts from then on.
LEMMA HangInstances ==
  ASSUME IInv, SyncInv, InstanceInv, Hang
  PROVE  InstanceInv'
<1>1. /\ Fails("noAnswer") /\ step' = "waiting" /\ step \in {"fetch", "handle"}
      /\ UNCHANGED <<db, checkpoint, pass, safeHead>> /\ UNCHANGED chainVars
  BY DEF Hang, storedVars
<1>2. failed \subseteq failed' /\ Linked(db')
  BY <1>1, FaultsStay DEF InstanceInv
<1>3. ~Holed' => ~Holed /\ ("checkpointRead" \notin failed' => "checkpointRead" \notin failed)
  BY <1>2, HoledStays
<1>4. ~Holed' /\ pass' \in {Registry, Instances} =>
        RightOrAwaited(Protocol, db', Final, Ahead(chain, safeHead' + 1, SafeHead))
  BY <1>1, <1>3, InstanceOf
<1>5. ~Holed' /\ (pass' # Instances \/ "checkpointRead" \notin failed') =>
        ShownOrAwaited(db', FinalLogs, LogsFrom(checkpoint'[Instances] + 1))
  BY <1>1, <1>3, InstanceOf
<1>. QED  BY <1>1, <1>2, <1>4, <1>5, InstancesRest

LEMMA CrashInstances ==
  ASSUME IInv, SyncInv, InstanceInv, Crash
  PROVE  InstanceInv'
<1>1. /\ Fails("crash") /\ pass' = "idle" /\ step' = "none"
      /\ UNCHANGED <<db, checkpoint>> /\ UNCHANGED chainVars
  BY DEF Crash, storedVars
<1>2. failed' = failed \cup {"crash"} /\ Linked(db')
  BY <1>1, FaultsStay DEF InstanceInv
<1>3. ~Holed' => ~Holed /\ "checkpointRead" \notin failed
  BY <1>2 DEF Holed, Lossy
<1>4. pass' \notin {Registry, Instances}
  BY <1>1 DEF Registry, Instances
<1>5. ~Holed' => ShownOrAwaited(db', FinalLogs, LogsFrom(checkpoint'[Instances] + 1))
  BY <1>1, <1>3, InstanceOf
<1>. QED  BY <1>1, <1>2, <1>4, <1>5, InstancesRest

\* The pass over the instances takes its filter from tables the protocol's pass has completed.
LEMMA EnterPassInstances ==
  ASSUME IInv, SyncInv, InstanceInv, EnterPass
  PROVE  InstanceInv'
<1>1. step = "enter" /\ UNCHANGED chainVars /\ UNCHANGED <<db, checkpoint, logs>>
  BY DEF EnterPass, storedVars
<1>2. pass \in Stream /\ pass # "idle" /\ Instances \in Stream
      /\ (\A s \in Stream : checkpoint[s] \in Nat) /\ safeHead \in Nat
  BY <1>1, StateOf, SyncOf, SpendingKinds
<1>3. (Fails("checkpointRead") \/ UNCHANGED faultVars) /\ failed \subseteq failed' /\ Linked(db')
  BY <1>1, FaultsStay DEF EnterPass, InstanceInv
<1>4. ~Holed' => ~Holed
  BY <1>3, HoledStays
<1>5. ~Holed' => ShownOrAwaited(db', FinalLogs, LogsFrom(checkpoint'[Instances] + 1))
  BY <1>1, <1>4, InstanceOf
<1>. DEFINE C == checkpoint[pass]
<1>6. C \in Nat
  BY <1>2
<1>7. CASE EndPass
  <2>1. ASSUME ~Holed', pass # Instances
        PROVE  RightOrAwaited(Protocol, db', Final, Ahead(chain, safeHead + 1, SafeHead))
    <3>1. CASE pass = Registry
      BY <1>1, <1>4, <2>1, <3>1, InstanceOf
    <3>2. CASE pass = Protocol
      <4>1. safeHead < C + 1 \/ safeHead < 1
        <5>1. pass # "MasjidInstance" /\ step' = "enter"
          BY <1>7, <2>1 DEF EndPass, Instances
        <5>2. StartAt(C + 1) \/ StartAt(1)
          BY <5>1 DEF EnterPass, NothingToWatch
        <5>3. \A b : StartAt(b) => b > safeHead
          BY <5>1 DEF StartAt
        <5>4. C + 1 > safeHead \/ 1 > safeHead
          BY <5>2, <5>3
        <5>. QED  BY <1>2, <1>6, <5>4
      <4>2. safeHead < C + 1 /\ C + 1 \in Nat
        BY <1>2, <1>6, <4>1
      <4>3. RightOrAwaited(Protocol, db', Final, Ahead(chain, C + 1, SafeHead))
        BY <1>1, <1>2, <1>4, <2>1, <3>2, SyncOf DEF Holed
      <4>. HIDE DEF C
      <4>. QED  BY <4>2, <4>3, RightUpTo
    <3>. QED  BY <1>2, <2>1, <3>1, <3>2 DEF Stream, Topics, Registry, Protocol, Instances
  <2>. QED  BY <1>1, <1>2, <1>3, <1>5, <1>7, <2>1, EndPassInstances
<1>8. CASE ~EndPass
  <2>1. PICK block \in {C + 1, 1} :
          /\ block <= safeHead
          /\ step' = "fetch" /\ from' = block /\ pass' = pass /\ safeHead' = safeHead
          /\ instances' = IF pass = "MasjidInstance" THEN ListInstanceAddresses(db) ELSE {}
    BY <1>8 DEF EnterPass, StartAt
  <2>2. CASE pass # Instances
    <3>1. ~Holed' /\ pass' \in {Registry, Instances} =>
            RightOrAwaited(Protocol, db', Final, Ahead(chain, safeHead' + 1, SafeHead))
      BY <1>1, <1>4, <2>1, InstanceOf
    <3>. QED  BY <1>1, <1>3, <1>5, <2>1, <2>2, <3>1, InstancesRest
  <2>3. CASE pass = Instances
    <3>1. instances' = ListInstanceAddresses(db)
      BY <2>1, <2>3 DEF Instances
    <3>2. /\ chain' = chain /\ SafeHead' = SafeHead /\ Final' = Final /\ FinalLogs' = FinalLogs
          /\ \A i : LogsFrom(i)' = LogsFrom(i)
      BY <1>1, StandsStill, FinalLogsStay
    <3>3. FilterNamed'
      BY <1>1, <2>1, <3>1 DEF FilterNamed, ListInstanceAddresses
    <3>4. LogsComplete'
      BY <2>1 DEF LogsComplete
    <3>. SUFFICES ASSUME ~Holed' PROVE ProtocolDone' /\ FilterComplete'
                                        /\ ShownAtCheckpoint' /\ ShownAtPosition'
      BY <1>3, <3>3, <3>4 DEF InstanceInv, InstancesFollow
    <3>5. RightOrAwaited(Protocol, db, Final, Ahead(chain, safeHead + 1, SafeHead))
      BY <1>4, <2>3, InstanceOf
    <3>6. ProtocolDone'
      BY <1>1, <2>1, <3>2, <3>5 DEF ProtocolDone
    <3>7. FilterComplete'
      <4>1. ASSUME NEW l \in FinalLogs, l.event.kind \in Spending, l.tx <= safeHead
            PROVE  l.event.instance \in ListInstanceAddresses(db)
        <5>1. FindByInstance(db, l.event.instance) /\ l.event.instance \in Mosque
          BY <1>2, <3>5, <4>1, TablesName, FinalBefore
        <5>. QED  BY <5>1 DEF ListInstanceAddresses, FindByInstance
      <4>. QED  BY <2>1, <3>1, <3>2, <4>1 DEF FilterComplete
    <3>8. ShownAtCheckpoint'
      BY <1>1, <1>5, <3>2 DEF ShownAtCheckpoint, LogsFrom
    <3>9. ShownOrAwaited(db', FinalLogs, LogsFrom(block))
      <4>1. C + 1 \in Nat /\ block \in Nat /\ block <= C + 1
        BY <1>6, <2>1
      <4>2. LogsFrom(C + 1) \subseteq LogsFrom(block)
        BY <4>1, LogsFromTo
      <4>3. ShownOrAwaited(db', FinalLogs, LogsFrom(C + 1))
        BY <1>1, <1>5, <2>3
      <4>. HIDE DEF C
      <4>. QED  BY <4>2, <4>3, MoreToCome
    <3>10. ShownAtPosition'
      BY <2>1, <3>2, <3>9 DEF ShownAtPosition, LogsFrom
    <3>. QED  BY <3>6, <3>7, <3>8, <3>10
  <2>. QED  BY <2>2, <2>3
<1>. QED  BY <1>7, <1>8

\* The logs of a chunk are the watched events of its blocks.
LEMMA ChunkLogs ==
  ASSUME chain \in Seq(Seq(Event)), NEW first \in Nat \ {0}, NEW last \in Nat, last <= Len(chain)
  PROVE  \A l : l \in ToSet(GetLogs(first, last)) <=>
           \E b \in first..last : \E e \in ToSet(chain[b]) :
             Watched(e) /\ l = [event |-> e, tx |-> b]
<1>. DEFINE got == GetLogs(first, last)
<1>1. \A l : l \in ToSet(got) <=> \E b \in first..last : l \in ToSet(LogsOf(b))
  BY GetLogsSet
<1>2. \A b \in first..last : b \in 1..Len(chain)
  OBVIOUS
<1>3. \A b \in first..last : \A l : l \in ToSet(LogsOf(b)) <=>
        \E e \in ToSet(chain[b]) : Watched(e) /\ l = [event |-> e, tx |-> b]
  BY <1>2, LogsOfBlock
<1>. HIDE DEF got
<1>4. \A l : l \in ToSet(got) <=>
        \E b \in first..last : \E e \in ToSet(chain[b]) :
          Watched(e) /\ l = [event |-> e, tx |-> b]
  BY <1>1, <1>3
<1>. QED  BY <1>4 DEF got

\* The chunk holds every event of its blocks, for the filter names their instances.
LEMMA FetchInstances ==
  ASSUME IInv, SyncInv, InstanceInv, Fetch
  PROVE  InstanceInv'
<1>1. step = "fetch" /\ UNCHANGED chainVars /\ UNCHANGED <<db, checkpoint>>
  BY DEF Fetch, storedVars
<1>2. /\ pass \in Stream /\ from \in Nat \ {0} /\ from <= safeHead /\ safeHead \in Nat
      /\ safeHead <= SafeHead /\ SafeHead \in Nat /\ SafeHead <= Len(chain)
      /\ chain \in Seq(Seq(Event)) /\ Linked(db') /\ Len(chain) \in Nat
  <2>1. SafeHead <= Len(chain) /\ Len(chain) \in Nat
    BY SafeHeadType, SyncOf
  <2>. QED  BY <1>1, <2>1, StateOf, SyncOf DEF InstanceInv
<1>. DEFINE last == ChunkEnd(from)
<1>3. CASE Fails(LogsFault[pass]) /\ EndPass /\ UNCHANGED logs
  <2>1. failed' = failed \cup {LogsFault[pass]}
    BY <1>3, FaultsStay
  <2>2. ~Holed' => ~Holed
    BY <2>1, HoledStays
  <2>3. ~Holed' => pass # Protocol
    BY <2>1 DEF LogsFault, Holed, Protocol
  <2>4. ~Holed' => ShownOrAwaited(db', FinalLogs, LogsFrom(checkpoint'[Instances] + 1))
    BY <1>1, <2>2, InstanceOf
  <2>5. ~Holed' /\ pass # Instances =>
          RightOrAwaited(Protocol, db', Final, Ahead(chain, safeHead + 1, SafeHead))
    <3>1. ~Holed' /\ pass # Instances => pass = Registry
      BY <1>2, <2>3 DEF Stream, Topics, Registry, Protocol, Instances
    <3>. QED  BY <1>1, <2>2, <3>1, InstanceOf
  <2>. QED  BY <1>1, <1>2, <1>3, <2>4, <2>5, EndPassInstances
<1>4. CASE /\ to' = last /\ logs' = GetLogs(from, last)
           /\ step' = IF logs' = <<>> THEN "save" ELSE "handle"
           /\ UNCHANGED <<pass, safeHead, from, instances, faultVars>>
  <2>1. last \in Nat /\ from <= last /\ last <= safeHead /\ last <= Len(chain) /\ last <= SafeHead
    <3>1. last \in Nat /\ from <= last /\ last <= safeHead
      BY <1>2, IndexerAssumption DEF ChunkEnd, IndexerAssumption
    <3>. QED  BY <1>2, <3>1
  <2>. HIDE DEF last
  <2>. DEFINE got == GetLogs(from, last)
  <2>2. /\ logs' = got /\ to' = last /\ failed' = failed /\ (Holed' <=> Holed)
        /\ step' \in {"save", "handle"} /\ (step' = "save" => got = <<>>)
        /\ step' = "handle" => got # <<>>
        /\ UNCHANGED <<pass, safeHead, from, instances>>
    BY <1>4 DEF faultVars, Holed, Lossy
  <2>3. \A l : l \in ToSet(got) <=>
          \E b \in from..last : \E e \in ToSet(chain[b]) :
            Watched(e) /\ l = [event |-> e, tx |-> b]
    BY <1>2, <2>1, ChunkLogs
  <2>4. got \in Seq(FinalLogs)
    BY <1>2, <2>1, GetLogsFinal
  <2>. HIDE DEF got
  <2>5. CASE pass # Instances
    <3>1. ~Holed' /\ pass' \in {Registry, Instances} =>
            RightOrAwaited(Protocol, db', Final, Ahead(chain, safeHead' + 1, SafeHead))
      BY <1>1, <2>2, InstanceOf
    <3>2. ~Holed' => ShownOrAwaited(db', FinalLogs, LogsFrom(checkpoint'[Instances] + 1))
      BY <1>1, <2>2, InstanceOf
    <3>. QED  BY <1>1, <1>2, <2>2, <2>5, <3>1, <3>2, InstancesRest
  <2>6. CASE pass = Instances
    <3>1. /\ chain' = chain /\ SafeHead' = SafeHead /\ Final' = Final /\ FinalLogs' = FinalLogs
          /\ \A i : LogsFrom(i)' = LogsFrom(i)
      BY <1>1, StandsStill, FinalLogsStay
    <3>2. \A l \in ToSet(got) : l.event.instance \in instances /\ l.tx \in from..last
      BY <2>3, <2>6 DEF Watched, Instances
    <3>3. FilterNamed'
      BY <1>1, <2>2, <2>6, <3>2 DEF FilterNamed, InstanceInv
    <3>. SUFFICES ASSUME ~Holed PROVE ProtocolDone' /\ FilterComplete' /\ LogsComplete'
                                       /\ ShownAtCheckpoint' /\ ShownAtPosition'
      BY <1>2, <2>2, <3>3 DEF InstanceInv, InstancesFollow
    <3>4. ProtocolDone'
      BY <1>1, <2>2, <3>1, InstanceOf DEF ProtocolDone
    <3>5. FilterComplete'
      BY <1>1, <2>2, <3>1, InstanceOf DEF FilterComplete
    <3>6. ASSUME NEW l \in FinalLogs, l.event.kind \in Spending, from <= l.tx, l.tx <= last
          PROVE  l \in ToSet(got)
      <4>1. /\ l.tx \in Nat /\ l.event \in ToSet(chain[l.tx]) /\ l = [event |-> l.event, tx |-> l.tx]
            /\ l.event.kind \in Topics[pass]
        BY <2>6, <3>6, FinalLog, SpendingKinds
      <4>2. l.tx <= safeHead /\ l.tx \in from..last
        BY <1>2, <2>1, <3>6, <4>1
      <4>3. l.event.instance \in instances
        BY <1>1, <2>6, <3>6, <4>2, InstanceOf DEF FilterComplete
      <4>4. Watched(l.event)
        BY <4>1, <4>3 DEF Watched
      <4>. QED  BY <2>3, <4>1, <4>2, <4>4
    <3>7. LogsComplete'
      <4>1. got # <<>> => Head(got) \in ToSet(got)
        BY <2>4 DEF ToSet
      <4>2. got # <<>> => from <= Head(got).tx /\ Head(got).tx \in Nat
        <5>. DEFINE t == Head(got).tx
        <5>1. got # <<>> => t \in from..last
          BY <3>2, <4>1
        <5>. HIDE DEF t
        <5>2. got # <<>> => from <= t /\ t \in Nat
          BY <1>2, <2>1, <5>1
        <5>. QED  BY <5>2 DEF t
      <4>3. ASSUME NEW l \in FinalLogs, l.event.kind \in Spending, got # <<>>,
                   Head(got).tx < l.tx, l.tx <= last
            PROVE  l \in ToSet(got)
        <5>. DEFINE t == Head(got).tx
        <5>1. l.tx \in Nat /\ t \in Nat /\ from <= t /\ t < l.tx
          BY <4>2, <4>3, FinalLog
        <5>. HIDE DEF t
        <5>2. from <= l.tx
          BY <1>2, <5>1
        <5>. QED  BY <3>6, <4>3, <5>2
      <4>. QED  BY <2>2, <3>1, <4>3 DEF LogsComplete
    <3>8. ShownAtCheckpoint'
      BY <1>1, <2>2, <3>1, InstanceOf DEF ShownAtCheckpoint, LogsFrom
    <3>9. ShownOrAwaited(db, FinalLogs, ToSet(got) \cup LogsFrom(last + 1))
      <4>1. SUFFICES ASSUME NEW l \in FinalLogs, l.event.kind \in Spending, ~Shown(db, l)
                     PROVE  l \in ToSet(got) \cup LogsFrom(last + 1)
        BY DEF ShownOrAwaited
      <4>2. l \in LogsFrom(from)
        BY <1>1, <2>6, <4>1, InstanceOf DEF ShownAtPosition, ShownOrAwaited
      <4>3. l.tx >= from /\ l.tx \in Nat
        BY <4>1, <4>2, FinalLog DEF LogsFrom
      <4>4. CASE l.tx <= last
        BY <1>2, <3>6, <4>1, <4>3, <4>4
      <4>5. CASE ~(l.tx <= last)
        <5>1. l.tx >= last + 1
          BY <2>1, <4>3, <4>5
        <5>. QED  BY <4>1, <5>1 DEF LogsFrom
      <4>. QED  BY <4>4, <4>5
    <3>10. ShownAtPosition'
      <4>. DEFINE F == LogsFrom(last + 1)
      <4>1. got = <<>> => ToSet(got) \cup F = F
        BY DEF ToSet
      <4>2. F = { l \in FinalLogs : l.tx >= last + 1 }
        BY DEF LogsFrom
      <4>. HIDE DEF F
      <4>3. ShownOrAwaited(db, FinalLogs, ToSet(got) \cup F)
        BY <3>9 DEF F
      <4>4. step' = "save" => ShownOrAwaited(db, FinalLogs, F)
        BY <2>2, <4>1, <4>3
      <4>. QED  BY <1>1, <2>2, <3>1, <4>2, <4>3, <4>4 DEF ShownAtPosition, LogsFrom
    <3>. QED  BY <3>4, <3>5, <3>7, <3>8, <3>10
  <2>. QED  BY <2>5, <2>6
<1>. QED  BY <1>3, <1>4 DEF Fetch

\* A chunk is saved only when its logs are handled.
LEMMA SaveCheckpointInstances ==
  ASSUME IInv, SyncInv, InstanceInv, SaveCheckpoint
  PROVE  InstanceInv'
<1>1. step = "save" /\ NextChunk /\ UNCHANGED chainVars /\ UNCHANGED <<db, logs>>
  BY DEF SaveCheckpoint
<1>2. /\ pass \in Stream /\ to \in Nat /\ checkpoint \in [Stream -> 0..SafeHead]
      /\ Instances \in Stream /\ Linked(db') /\ safeHead \in Nat /\ SafeHead \in Nat
  BY <1>1, StateOf, SyncOf, SpendingKinds DEF InstanceInv
<1>3. \/ checkpoint' = [checkpoint EXCEPT ![pass] = to] /\ UNCHANGED faultVars
      \/ Fails("checkpointWrite") /\ UNCHANGED checkpoint
  BY DEF SaveCheckpoint
<1>4. \/ checkpoint'[pass] = to /\ failed' = failed
      \/ checkpoint'[pass] = checkpoint[pass] /\ failed' = failed \cup {"checkpointWrite"}
  BY <1>2, <1>3, FaultsStay
<1>5. pass # Instances => checkpoint'[Instances] = checkpoint[Instances]
  BY <1>2, <1>3
<1>6. ~Holed' => ~Holed /\ ~Lossy' /\ ~Lossy
  BY <1>4, HoledStays DEF Holed
<1>7. ~Holed' /\ pass = Instances => ShownOrAwaited(db', FinalLogs, LogsFrom(to + 1))
  BY <1>1, <1>6, InstanceOf DEF ShownAtPosition
<1>8. ~Holed' => ShownOrAwaited(db', FinalLogs, LogsFrom(checkpoint'[Instances] + 1))
  <2>1. CASE pass # Instances
    BY <1>1, <1>5, <1>6, <2>1, InstanceOf
  <2>2. CASE pass = Instances /\ checkpoint'[pass] = to
    BY <1>7, <2>2
  <2>3. CASE pass = Instances /\ checkpoint'[pass] = checkpoint[pass]
             /\ failed' = failed \cup {"checkpointWrite"}
    <3>1. ~Lossy' => "checkpointRead" \notin failed
      BY <2>3 DEF Lossy
    <3>. QED  BY <1>1, <1>6, <2>3, <3>1, InstanceOf
  <2>. QED  BY <1>4, <2>1, <2>2, <2>3
<1>9. ~Holed' /\ pass = Registry =>
        RightOrAwaited(Protocol, db', Final, Ahead(chain, safeHead + 1, SafeHead))
  BY <1>1, <1>6, InstanceOf
<1>10. CASE EndPass
  <2>1. ASSUME ~Holed', pass = Protocol
        PROVE  RightOrAwaited(Protocol, db', Final, Ahead(chain, safeHead + 1, SafeHead))
    <3>1. safeHead < to + 1 /\ to + 1 \in Nat
      <4>1. pass # "MasjidInstance" /\ step' = "enter"
        BY <1>10, <2>1 DEF EndPass, Protocol
      <4>2. to + 1 > safeHead
        BY <1>1, <4>1 DEF NextChunk
      <4>. QED  BY <1>2, <4>2
    <3>2. RightOrAwaited(Protocol, db', Final, Ahead(chain, to + 1, SafeHead))
      BY <1>1, <1>6, <2>1 DEF SyncInv, TablesFollow, AtPosition
    <3>. QED  BY <3>1, <3>2, RightUpTo
  <2>2. pass \in {Protocol, Registry, Instances}
    BY <1>2 DEF Stream, Topics, Registry, Protocol, Instances
  <2>. QED  BY <1>1, <1>2, <1>8, <1>9, <1>10, <2>1, <2>2, EndPassInstances
<1>11. CASE ~EndPass
  <2>1. step' = "fetch" /\ from' = to + 1 /\ UNCHANGED <<pass, safeHead, instances>>
    BY <1>1, <1>11 DEF NextChunk
  <2>2. CASE pass # Instances
    <3>1. ~Holed' /\ pass' \in {Registry, Instances} =>
            RightOrAwaited(Protocol, db', Final, Ahead(chain, safeHead' + 1, SafeHead))
      BY <1>9, <2>1, <2>2
    <3>. QED  BY <1>1, <1>2, <1>8, <2>1, <2>2, <3>1, InstancesRest
  <2>3. CASE pass = Instances
    <3>1. /\ chain' = chain /\ SafeHead' = SafeHead /\ Final' = Final /\ FinalLogs' = FinalLogs
          /\ \A i : LogsFrom(i)' = LogsFrom(i)
      BY <1>1, StandsStill, FinalLogsStay
    <3>2. FilterNamed' /\ LogsComplete'
      BY <1>1, <2>1, <2>3 DEF FilterNamed, LogsComplete, InstanceInv
    <3>. SUFFICES ASSUME ~Holed' PROVE ProtocolDone' /\ FilterComplete'
                                        /\ ShownAtCheckpoint' /\ ShownAtPosition'
      BY <1>2, <3>2 DEF InstanceInv, InstancesFollow
    <3>3. ProtocolDone'
      BY <1>1, <1>6, <2>1, <3>1, InstanceOf DEF ProtocolDone
    <3>4. FilterComplete'
      BY <1>1, <1>6, <2>1, <3>1, InstanceOf DEF FilterComplete
    <3>5. ShownAtCheckpoint'
      BY <1>8, <3>1 DEF ShownAtCheckpoint, LogsFrom
    <3>6. ShownAtPosition'
      BY <1>7, <2>1, <2>3, <3>1 DEF ShownAtPosition, LogsFrom
    <3>. QED  BY <3>3, <3>4, <3>5, <3>6
  <2>. QED  BY <2>2, <2>3
<1>. QED  BY <1>10, <1>11

\* Even when events are missing, every row names its mosque and a request has one row.
LEMMA HandledAnyway ==
  ASSUME NEW d \in Tables, Linked(d), NEW e \in Event, NEW tx \in Nat, NEW k \in 1..2,
         e.kind \in Topics[Instances], FindByInstance(d, e.instance)
  PROVE  Handle(d, e, k, tx).masjids = d.masjids /\ Linked(Handle(d, e, k, tx))
<1>. DEFINE w == Handle(d, e, k, tx)
<1>1. CASE ~(e.kind \in Settling \cup {"CashOutApproved"}) \/ Requests(d, e) # {}
  <2>1. e.kind \in Settling \cup {"CashOutApproved"} => Requests(d, e) # {}
    BY <1>1
  <2>2. Handed(d, w, e, tx)
    BY <2>1, InstanceHanded
  <2>. QED  BY <2>2 DEF Handed
<1>2. CASE e.kind \in Settling \cup {"CashOutApproved"} /\ Requests(d, e) = {}
  <2>1. w.masjids = d.masjids /\ w.cashIns = d.cashIns /\ w.cashOuts = d.cashOuts
    <3>1. CASE e.kind = "CashOutApproved"
      BY <1>2, <3>1 DEF Handle, HandleCashOutApproved
    <3>2. CASE e.kind = "CashOutExecuted"
      <4>. DEFINE Done(r) == [r EXCEPT !.executed = TRUE]
                  new == { Done(r) : r \in Requests(d, e) }
      <4>1. /\ w.masjids = d.masjids /\ w.cashIns = d.cashIns
            /\ w.cashOuts = (d.cashOuts \ Requests(d, e)) \cup new
        BY <3>2 DEF Handle, HandleCashOutExecuted, Tables
      <4>2. new = {}
        BY <1>2
      <4>. HIDE DEF new, w
      <4>. QED  BY <1>2, <4>1, <4>2
    <3>3. CASE e.kind = "CashOutCanceled"
      <4>. DEFINE Gone(r) == [r EXCEPT !.canceled = TRUE]
                  new == { Gone(r) : r \in Requests(d, e) }
      <4>1. /\ w.masjids = d.masjids /\ w.cashIns = d.cashIns
            /\ w.cashOuts = (d.cashOuts \ Requests(d, e)) \cup new
        BY <3>3 DEF Handle, HandleCashOutCanceled, Tables
      <4>2. new = {}
        BY <1>2
      <4>. HIDE DEF new, w
      <4>. QED  BY <1>2, <4>1, <4>2
    <3>. QED  BY <1>2, <3>1, <3>2, <3>3 DEF Settling
  <2>. QED  BY <2>1 DEF Linked
<1>. QED  BY <1>1, <1>2

\* The first log is handled, or not yet; no log comes before it.
LEMMA LogsHandled ==
  ASSUME IInv, SyncInv, HandleLog
  PROVE  /\ Head(logs) \in ToSet(logs) /\ ToSet(logs) \subseteq FinalLogs
         /\ ToSet(logs') \subseteq ToSet(logs)
         /\ \A l \in ToSet(logs) : l = Head(logs) \/ l \in ToSet(logs')
         /\ \A l \in ToSet(logs) : Head(logs).tx <= l.tx
         /\ step' \in {"handle", "save"}
         /\ step' = "save" => ToSet(logs') = {}
         /\ step' = "handle" => Head(logs') \in ToSet(logs')
<1>1. step = "handle"
  BY DEF HandleLog
<1>2. logs \in Seq(FinalLogs) /\ logs # <<>> /\ Ordered(logs)
  BY <1>1, StateOf, LogsOfPass DEF LogsInOrder
<1>3. /\ Head(logs) \in ToSet(logs) /\ ToSet(logs) \subseteq FinalLogs
      /\ ToSet(logs) = {Head(logs)} \cup ToSet(Tail(logs))
      /\ \A l \in ToSet(logs) : Head(logs).tx <= l.tx
  <2>1. ToSet(logs) \subseteq FinalLogs
    BY <1>2 DEF ToSet
  <2>. QED  BY <1>1, <1>2, <2>1, LogsOfPass, HeadAndTail, TailOrdered
<1>4. CASE UNCHANGED <<logs, step>>
  BY <1>1, <1>3, <1>4
<1>5. CASE NextLog
  <2>. DEFINE rs == Tail(logs)
              one == Len(logs) = 1
  <2>1. rs \in Seq(FinalLogs) /\ (~one => rs # <<>>) /\ (one => rs = <<>>)
    BY <1>2, TailOf
  <2>2. logs' = rs /\ step' = IF one THEN "save" ELSE "handle"
    BY <1>5 DEF NextLog
  <2>3. ToSet(logs) = {Head(logs)} \cup ToSet(rs)
    BY <1>3
  <2>. HIDE DEF rs, one
  <2>4. rs # <<>> => Head(rs) \in ToSet(rs)
    BY <2>1 DEF ToSet
  <2>5. ToSet(<<>>) = {}
    BY DEF ToSet
  <2>. QED  BY <1>3, <2>1, <2>2, <2>3, <2>4, <2>5
<1>. QED  BY <1>4, <1>5 DEF HandleLog

\* The row that the handler of the first log needs is there.
LEMMA RequestIsThere ==
  ASSUME IInv, SyncInv, InstanceInv, HandleLog, ~Holed, pass = Instances,
         Head(logs).event.kind \in Settling \cup {"CashOutApproved"}
  PROVE  Requests(db, Head(logs).event) # {}
<1>. DEFINE l == Head(logs)
            e == l.event
            t == l.tx
<1>1. step = "handle"
  BY DEF HandleLog
<1>2. l \in FinalLogs /\ e.kind \in Spending /\ t \in from..to /\ to \in Nat /\ from \in Nat
      /\ \A x \in ToSet(logs) : t <= x.tx
  BY <1>1, LogsHandled, LogsOfPass DEF Spending, Requesting
<1>3. PICK p \in FinalLogs : p.event = Proposed(e.instance, e.requestId) /\ p.tx < t
  BY <1>2, FinalBefore
<1>4. ShownOrAwaited(db, FinalLogs, ToSet(logs) \cup LogsFrom(to + 1))
  BY <1>1, InstanceOf DEF ShownAtPosition
<1>. HIDE DEF l
<1>5. p.tx \in Nat
  BY FinalLog
<1>6. t \in Nat /\ t <= to
  BY <1>2
<1>7. p \notin LogsFrom(to + 1)
  BY <1>2, <1>3, <1>5, <1>6 DEF LogsFrom
<1>8. p \notin ToSet(logs)
  BY <1>2, <1>3, <1>5, <1>6
<1>9. /\ p.event.kind = "CashOutProposed" /\ p.event.instance = e.instance
      /\ p.event.requestId = e.requestId
  BY <1>3 DEF Proposed
<1>10. Shown(db, p)
  BY <1>4, <1>7, <1>8, <1>9 DEF ShownOrAwaited, Spending, Requesting
<1>11. Requests(db, p.event) # {}
  BY <1>9, <1>10 DEF Shown
<1>12. Requests(db, p.event) = Requests(db, e)
  BY <1>9 DEF Requests
<1>. QED  BY <1>11, <1>12 DEF l

\* What the handled log takes back is still to be handled.
LEMMA RestIsShown ==
  ASSUME IInv, SyncInv, InstanceInv, HandleLog, ~Holed, pass = Instances,
         Handed(db, db', Head(logs).event, Head(logs).tx)
  PROVE  /\ ShownOrAwaited(db', FinalLogs, ToSet(logs') \cup LogsFrom(to + 1))
         /\ "checkpointRead" \notin failed =>
              ShownOrAwaited(db', FinalLogs, LogsFrom(checkpoint[Instances] + 1))
<1>. DEFINE l == Head(logs)
            e == l.event
            t == l.tx
            C == checkpoint[Instances]
<1>1. step = "handle"
  BY DEF HandleLog
<1>2. /\ l \in ToSet(logs) /\ l \in FinalLogs /\ e.kind \in Topics[Instances]
      /\ t \in from..to /\ to \in Nat /\ from \in Nat
      /\ \A x \in ToSet(logs) : x = l \/ x \in ToSet(logs')
      /\ ("checkpointRead" \notin failed => C < from) /\ C \in Nat
  BY <1>1, LogsHandled, LogsOfPass, InstanceOf
<1>3. Handed(db, db', e, t)
  OBVIOUS
<1>4. \A x \in FinalLogs : x.event.kind \in Spending /\ t < x.tx /\ x.tx <= to => x \in ToSet(logs)
  BY <1>1, InstanceOf DEF LogsComplete
<1>5. ShownOrAwaited(db, FinalLogs, ToSet(logs) \cup LogsFrom(to + 1))
  BY <1>1, InstanceOf DEF ShownAtPosition
<1>6. "checkpointRead" \notin failed => ShownOrAwaited(db, FinalLogs, LogsFrom(C + 1))
  BY InstanceOf
<1>. HIDE DEF l, C
<1>7. l = [event |-> e, tx |-> t]
  BY <1>2, FinalLog
<1>8. e.kind \in Spending => Shown(db', l)
  BY <1>3, <1>7 DEF Handed
<1>9. ASSUME NEW x \in FinalLogs, x.event.kind \in Spending, ~Shown(db', x)
      PROVE  /\ x # l /\ x.tx \in Nat
             /\ ~Shown(db, x) \/ t < x.tx
  <2>1. x # l
    BY <1>8, <1>9
  <2>2. Shown(db, x) => Undoes(e, t, x)
    BY <1>3, <1>9 DEF Handed
  <2>3. Undoes(e, t, x) => t < x.tx
    BY <1>2, <1>9, UndoneIsLater
  <2>. QED  BY <1>9, <2>1, <2>2, <2>3, FinalLog
<1>10. ASSUME NEW x \in FinalLogs, x.event.kind \in Spending, ~Shown(db', x)
       PROVE  x \in ToSet(logs') \cup LogsFrom(to + 1)
  <2>1. x # l /\ x.tx \in Nat /\ (~Shown(db, x) \/ t < x.tx)
    BY <1>9, <1>10
  <2>2. x \in ToSet(logs) \/ x \in LogsFrom(to + 1)
    <3>1. CASE ~Shown(db, x)
      BY <1>5, <1>10, <3>1 DEF ShownOrAwaited
    <3>2. CASE t < x.tx /\ x.tx <= to
      BY <1>4, <1>10, <3>2
    <3>3. CASE ~(x.tx <= to)
      <4>1. x.tx >= to + 1
        BY <1>2, <2>1, <3>3
      <4>. QED  BY <4>1 DEF LogsFrom
    <3>. QED  BY <2>1, <3>1, <3>2, <3>3
  <2>. QED  BY <1>2, <2>1, <2>2
<1>11. ASSUME "checkpointRead" \notin failed,
              NEW x \in FinalLogs, x.event.kind \in Spending, ~Shown(db', x)
       PROVE  x \in LogsFrom(C + 1)
  <2>1. x.tx \in Nat /\ (~Shown(db, x) \/ t < x.tx)
    BY <1>9, <1>11
  <2>2. CASE ~Shown(db, x)
    BY <1>6, <1>11, <2>2 DEF ShownOrAwaited
  <2>3. CASE t < x.tx
    <3>1. C < from /\ t \in Nat /\ from <= t
      BY <1>2, <1>11
    <3>2. x.tx >= C + 1
      BY <1>2, <2>1, <2>3, <3>1
    <3>. QED  BY <3>2 DEF LogsFrom
  <2>. QED  BY <2>1, <2>2, <2>3
<1>. QED  BY <1>10, <1>11 DEF ShownOrAwaited, C

\* A handler shows its log, and what it takes back comes again in the rest of the chunk.
LEMMA HandleLogInstances ==
  ASSUME IInv, SyncInv, InstanceInv, HandleLog
  PROVE  InstanceInv'
<1>. DEFINE l == Head(logs)
            e == l.event
            t == l.tx
<1>1. /\ step = "handle" /\ UNCHANGED chainVars
      /\ UNCHANGED <<checkpoint, pass, safeHead, from, to, instances>>
  BY DEF HandleLog
<1>2. /\ l \in ToSet(logs) /\ ToSet(logs) \subseteq FinalLogs /\ ToSet(logs') \subseteq ToSet(logs)
      /\ \A x \in ToSet(logs) : x = l \/ x \in ToSet(logs')
      /\ \A x \in ToSet(logs) : t <= x.tx
      /\ step' \in {"handle", "save"} /\ (step' = "save" => ToSet(logs') = {})
      /\ step' = "handle" => Head(logs') \in ToSet(logs')
  BY LogsHandled
<1>3. /\ e \in Event /\ t \in Nat /\ e.kind \in Topics[pass] /\ pass \in Stream
      /\ statement \in 1..2 /\ db \in Tables /\ Linked(db)
  BY <1>1, <1>2, LogsOfPass, StateOf DEF InstanceInv
<1>4. \/ Fails("handler") /\ UNCHANGED db
      \/ /\ db' = Handle(db, e, statement, t) /\ statement <= Statements(e)
         /\ UNCHANGED faultVars
  <2>1. Statements(e) \in 1..2
    BY DEF Statements
  <2>. QED  BY <1>3, <2>1 DEF HandleLog
<1>5. failed \subseteq failed'
  BY <1>4, FaultsStay
<1>6. ~Holed' => /\ ~Holed /\ failed' = failed
                 /\ db' = Handle(db, e, statement, t) /\ statement <= Statements(e)
  <2>1. Fails("handler") => Holed'
    BY DEF Fails, Holed, Lossy
  <2>2. ~Holed' => ~Holed
    BY <1>5, HoledStays
  <2>. QED  BY <1>4, <2>1, <2>2, FaultsStay
<1>7. ~Holed' /\ pass \in {Registry, Instances} =>
        RightOrAwaited(Protocol, db', Final, Ahead(chain, safeHead + 1, SafeHead))
  <2>1. SUFFICES ASSUME ~Holed', pass \in {Registry, Instances}
                 PROVE  RightOrAwaited(Protocol, db', Final, Ahead(chain, safeHead + 1, SafeHead))
    OBVIOUS
  <2>2. RightOrAwaited(Protocol, db, Final, Ahead(chain, safeHead + 1, SafeHead))
    BY <1>6, <2>1, InstanceOf
  <2>3. Written(db, db', e, statement)
    BY <1>1, <1>6, <2>1, HandlerWrites DEF Holed
  <2>4. e.kind \notin Topics[Protocol] /\ Protocol \in Stream
    <3>1. \A s, r \in Stream : Topics[s] \cap Topics[r] # {} => s = r
      BY DEF Topics, Stream
    <3>2. Protocol \in Stream /\ pass # Protocol
      BY <2>1, ProtocolKinds DEF Protocol, Registry, Instances
    <3>. QED  BY <1>3, <3>1, <3>2
  <2>. HIDE DEF e
  <2>. QED  BY <2>2, <2>3, <2>4, WrittenKeeps
<1>8. CASE pass # Instances
  <2>1. e.kind \notin Topics[Instances]
    BY <1>3, <1>8, SpendingKinds
  <2>2. Linked(db') /\ \A x : Shown(db, x) => Shown(db', x)
    <3>1. LET w == Handle(db, e, statement, t) IN Linked(w) /\ \A x : Shown(db, x) => Shown(w, x)
      BY <1>3, <2>1, OthersHanded
    <3>. QED  BY <1>3, <1>4, <3>1
  <2>3. ~Holed' => ShownOrAwaited(db', FinalLogs, LogsFrom(checkpoint'[Instances] + 1))
    <3>1. ~Holed' => ShownOrAwaited(db, FinalLogs, LogsFrom(checkpoint[Instances] + 1))
      BY <1>6, <1>8, InstanceOf
    <3>. QED  BY <1>1, <2>2, <3>1 DEF ShownOrAwaited
  <2>4. ~Holed' /\ pass' \in {Registry, Instances} =>
          RightOrAwaited(Protocol, db', Final, Ahead(chain, safeHead' + 1, SafeHead))
    BY <1>1, <1>7
  <2>. QED  BY <1>1, <1>8, <2>2, <2>3, <2>4, InstancesRest
<1>9. CASE pass = Instances
  <2>1. /\ instances \subseteq ListInstanceAddresses(db)
        /\ \A x \in ToSet(logs) : x.event.instance \in instances
    BY <1>1, <1>9 DEF InstanceInv, FilterNamed
  <2>2. FindByInstance(db, e.instance)
    BY <1>2, <2>1 DEF ListInstanceAddresses, FindByInstance
  <2>3. db'.masjids = db.masjids /\ Linked(db')
    BY <1>3, <1>4, <1>9, <2>2, HandledAnyway
  <2>4. FilterNamed'
    <3>1. ListInstanceAddresses(db') = ListInstanceAddresses(db)
      BY <2>3 DEF ListInstanceAddresses
    <3>2. ListInstanceAddresses(db)' = ListInstanceAddresses(db')
      BY DEF ListInstanceAddresses
    <3>. QED  BY <1>1, <1>2, <2>1, <3>1, <3>2 DEF FilterNamed
  <2>. SUFFICES ASSUME ~Holed' PROVE ProtocolDone' /\ FilterComplete' /\ LogsComplete'
                                      /\ ShownAtCheckpoint' /\ ShownAtPosition'
    BY <2>3, <2>4 DEF InstanceInv, InstancesFollow
  <2>5. /\ chain' = chain /\ SafeHead' = SafeHead /\ Final' = Final /\ FinalLogs' = FinalLogs
        /\ \A i : LogsFrom(i)' = LogsFrom(i)
    BY <1>1, StandsStill, FinalLogsStay
  <2>6. ProtocolDone'
    BY <1>1, <1>7, <1>9, <2>5 DEF ProtocolDone
  <2>7. FilterComplete'
    BY <1>1, <1>6, <2>5, InstanceOf DEF FilterComplete
  <2>8. LogsComplete'
    <3>1. ASSUME NEW x \in FinalLogs, x.event.kind \in Spending, step' = "handle",
                 Head(logs').tx < x.tx, x.tx <= to
          PROVE  x \in ToSet(logs')
      <4>. DEFINE h == Head(logs').tx
      <4>1. Head(logs') \in FinalLogs /\ t <= h
        BY <1>2, <3>1
      <4>2. h \in Nat /\ x.tx \in Nat
        BY <3>1, <4>1, FinalLog
      <4>3. h < x.tx
        BY <3>1
      <4>. HIDE DEF h, t
      <4>4. t < x.tx
        BY <1>3, <4>1, <4>2, <4>3
      <4>5. x \in ToSet(logs)
        BY <1>1, <1>6, <1>9, <3>1, <4>4, InstanceOf DEF LogsComplete, t
      <4>6. x.tx # t
        BY <1>3, <4>2, <4>4
      <4>. QED  BY <1>2, <4>5, <4>6 DEF t
    <3>. QED  BY <1>1, <2>5, <3>1 DEF LogsComplete
  <2>9. Handed(db, db', e, t)
    <3>1. e.kind \in Settling \cup {"CashOutApproved"} => Requests(db, e) # {}
      BY <1>6, <1>9, RequestIsThere
    <3>2. Handed(db, Handle(db, e, statement, t), e, t)
      BY <1>3, <1>9, <2>2, <3>1, InstanceHanded
    <3>. QED  BY <1>6, <3>2
  <2>10. /\ ShownOrAwaited(db', FinalLogs, ToSet(logs') \cup LogsFrom(to + 1))
         /\ "checkpointRead" \notin failed =>
              ShownOrAwaited(db', FinalLogs, LogsFrom(checkpoint[Instances] + 1))
    BY <1>6, <1>9, <2>9, RestIsShown
  <2>11. ShownAtCheckpoint'
    BY <1>1, <1>2, <1>6, <1>9, <2>5, <2>10 DEF ShownAtCheckpoint, LogsFrom
  <2>12. ShownAtPosition'
    <3>. DEFINE F == LogsFrom(to + 1)
    <3>1. F = { x \in FinalLogs : x.tx >= to + 1 }
      BY DEF LogsFrom
    <3>2. ShownOrAwaited(db', FinalLogs, ToSet(logs') \cup F)
      BY <2>10
    <3>. HIDE DEF F
    <3>3. step' = "save" => ToSet(logs') \cup F = F
      BY <1>2
    <3>4. step' = "save" => ShownOrAwaited(db', FinalLogs, F)
      BY <3>2, <3>3
    <3>. QED  BY <1>1, <1>2, <2>5, <3>1, <3>2, <3>4 DEF ShownAtPosition, LogsFrom
  <2>. QED  BY <2>6, <2>7, <2>8, <2>11, <2>12
<1>. QED  BY <1>8, <1>9

LEMMA InstancesInit ==
  ASSUME Init
  PROVE  InstanceInv
<1>1. IInv /\ SyncInv
  BY InitHolds, SyncInit
<1>2. pass = "idle" /\ checkpoint = [s \in Stream |-> 0] /\ db = EmptyTables
  BY DEF Init
<1>3. pass \notin {Registry, Instances} /\ checkpoint[Instances] + 1 = 1
  BY <1>2, SpendingKinds DEF Registry, Instances
<1>4. Linked(db)
  BY <1>2 DEF Linked, EmptyTables
<1>5. FinalLogs \subseteq LogsFrom(1)
  <2>1. \A l \in FinalLogs : l.tx \in 1..SafeHead
    BY <1>1, FinalLog
  <2>2. \A l \in FinalLogs : l.tx >= 1
    BY <1>1, <2>1, StateOf
  <2>. QED  BY <2>2 DEF LogsFrom
<1>6. ShownAtCheckpoint
  BY <1>3, <1>5 DEF ShownAtCheckpoint, ShownOrAwaited
<1>. QED
  BY <1>3, <1>4, <1>6 DEF InstanceInv, InstancesFollow, FilterNamed, ProtocolDone, FilterComplete,
                          LogsComplete, ShownAtPosition

LEMMA StutterInstances ==
  ASSUME InstanceInv, UNCHANGED vars
  PROVE  InstanceInv'
<1>1. /\ UNCHANGED chainVars
      /\ UNCHANGED <<db, checkpoint, pass, step, safeHead, from, to, logs, instances, failed>>
  BY DEF vars, chainVars, storedVars, processVars, faultVars
<1>2. /\ chain' = chain /\ SafeHead' = SafeHead /\ Final' = Final /\ FinalLogs' = FinalLogs
      /\ \A i : LogsFrom(i)' = LogsFrom(i)
  BY <1>1, StandsStill, FinalLogsStay
<1>3. (Holed' <=> Holed) /\ Linked(db') /\ FilterNamed'
  BY <1>1 DEF Holed, Lossy, InstanceInv, FilterNamed
<1>4. ProtocolDone => ProtocolDone'
  BY <1>1, <1>2 DEF ProtocolDone
<1>5. (FilterComplete => FilterComplete') /\ (LogsComplete => LogsComplete')
  BY <1>1, <1>2 DEF FilterComplete, LogsComplete
<1>6. ShownAtCheckpoint => ShownAtCheckpoint'
  BY <1>1, <1>2 DEF ShownAtCheckpoint, LogsFrom
<1>7. ShownAtPosition => ShownAtPosition'
  BY <1>1, <1>2 DEF ShownAtPosition, LogsFrom
<1>. QED  BY <1>3, <1>4, <1>5, <1>6, <1>7 DEF InstanceInv, InstancesFollow

(***************************************************************************)
(* The instances' rows follow the chain too, as long as no handler failed, *)
(* no replay was cut short and no pass over the protocol failed: every     *)
(* final log of an instance is shown by a row or still to be handled.      *)
(***************************************************************************)
THEOREM InstancesAreFollowed == Spec => [](IInv /\ SyncInv /\ InstanceInv)
<1>1. Init => InstanceInv
  BY InstancesInit
<1>2. IInv /\ SyncInv /\ InstanceInv /\ [Next]_vars => InstanceInv'
  BY ChainInstances, BeginTickInstances, EnterPassInstances, FetchInstances, HandleLogInstances,
     SaveCheckpointInstances, HangInstances, CrashInstances, StutterInstances DEF Next, IndexerStep
<1>. QED  BY <1>1, <1>2, ColumnsFollow, PTL DEF Spec
----------------------------------------------------------------------------
(* The instances' rows once their pass has caught up *)

\* Every final event of an instance is shown.
LEMMA CaughtUpShows ==
  ASSUME IInv, SyncInv, InstanceInv, CaughtUp("MasjidInstance"), ~Holed
  PROVE  \A b \in 1..SafeHead : \A e \in ToSet(chain[b]) :
           e.kind \in Spending => Shown(db, [event |-> e, tx |-> b])
<1>. DEFINE n == SafeHead
<1>1. pass # Instances /\ checkpoint[Instances] = n /\ n \in Nat
  <2>1. pass = "idle" /\ checkpoint[Instances] = n
    BY DEF CaughtUp, Instances
  <2>. QED  BY <2>1, StateOf DEF Instances
<1>2. ShownOrAwaited(db, FinalLogs, LogsFrom(n + 1))
  BY <1>1, InstanceOf
<1>3. \A l \in FinalLogs : l.tx \in Nat /\ l.tx <= n
  <2>1. \A l \in FinalLogs : l.tx \in 1..n
    BY FinalLog
  <2>. QED  BY <1>1, <2>1
<1>. HIDE DEF n
<1>4. \A l \in FinalLogs : l \notin LogsFrom(n + 1)
  BY <1>1, <1>3 DEF LogsFrom
<1>5. \A l \in FinalLogs : l.event.kind \in Spending => Shown(db, l)
  BY <1>2, <1>4 DEF ShownOrAwaited
<1>6. \A b \in 1..SafeHead : \A e \in ToSet(chain[b]) : [event |-> e, tx |-> b] \in FinalLogs
  BY FinalLog
<1>. QED  BY <1>5, <1>6

\* The donations.
LEMMA CashInsFollow ==
  ASSUME IInv, SyncInv, InstanceInv, CaughtUp("MasjidInstance"), ~Holed
  PROVE  db.cashIns = InstanceRows.cashIns
<1>. DEFINE Pairs == { x \in (1..SafeHead) \X Mosque : Donated(x[2]) \in ToSet(chain[x[1]]) }
            Row(c) == [tx |-> c[1], instanceAddr |-> c[2], linked |-> TRUE]
<1>1. InstanceRows.cashIns = { Row(c) : c \in Pairs }
  BY DEF InstanceRows
<1>2. ASSUME NEW r \in db.cashIns
      PROVE  r \in { Row(c) : c \in Pairs }
  <2>1. /\ r \in [tx : Nat, instanceAddr : Mosque, linked : BOOLEAN] /\ r.linked
        /\ [event |-> Donated(r.instanceAddr), tx |-> r.tx] \in FinalLogs
    BY StateOf DEF Tables, InstanceInv, Linked, Real, RealCashIns
  <2>2. r.tx \in 1..SafeHead /\ Donated(r.instanceAddr) \in ToSet(chain[r.tx])
    BY <2>1, FinalLog
  <2>3. <<r.tx, r.instanceAddr>> \in Pairs
    BY <2>1, <2>2
  <2>4. r = Row(<<r.tx, r.instanceAddr>>)
    BY <2>1
  <2>. HIDE DEF Pairs, Row
  <2>. QED  BY <2>3, <2>4
<1>3. ASSUME NEW c \in Pairs
      PROVE  Row(c) \in db.cashIns
  <2>. DEFINE b == c[1]
              m == c[2]
              e == Donated(m)
  <2>1. b \in 1..SafeHead /\ e \in ToSet(chain[b])
    OBVIOUS
  <2>2. e.kind = "CashIn" /\ e.instance = m
    BY DEF Donated
  <2>3. Row(c) = [tx |-> b, instanceAddr |-> e.instance, linked |-> TRUE]
    BY <2>2
  <2>. HIDE DEF b, m, e, Row, Pairs
  <2>4. Shown(db, [event |-> e, tx |-> b])
    BY <2>1, <2>2, CaughtUpShows DEF Spending
  <2>5. [tx |-> b, instanceAddr |-> e.instance, linked |-> TRUE] \in db.cashIns
    BY <2>2, <2>4 DEF Shown
  <2>. QED  BY <2>3, <2>5
<1>. HIDE DEF Row, Pairs
<1>4. \A r \in { Row(c) : c \in Pairs } : r \in db.cashIns
  BY <1>3
<1>. QED  BY <1>1, <1>2, <1>4

\* The approvals.
LEMMA ApprovalsFollow ==
  ASSUME IInv, SyncInv, InstanceInv, CaughtUp("MasjidInstance"), ~Holed
  PROVE  db.cashOutVotes = InstanceRows.cashOutVotes
<1>. DEFINE Votes == { x \in ToSet(Final) : x.kind = "CashOutApproved" }
            Row(e) == [instanceAddr |-> e.instance, requestId |-> e.requestId,
                       approver |-> e.approver]
<1>1. InstanceRows.cashOutVotes = { Row(e) : e \in Votes }
  BY DEF InstanceRows
<1>2. EventsIn(FinalLogs) = ToSet(Final)
  BY SyncOf, LogsAreEvents DEF FinalLogs, Final
<1>3. ASSUME NEW r \in db.cashOutVotes
      PROVE  r \in { Row(e) : e \in Votes }
  <2>. DEFINE e == Approved(r.instanceAddr, r.requestId, r.approver)
  <2>1. /\ r \in [instanceAddr : Mosque, requestId : 1..MaxRequests, approver : Account]
        /\ e \in ToSet(Final)
    BY <1>2, StateOf DEF Tables, Real, RealVotes
  <2>2. /\ e.kind = "CashOutApproved" /\ e.instance = r.instanceAddr
        /\ e.requestId = r.requestId /\ e.approver = r.approver
    BY DEF Approved
  <2>3. r = Row(e) /\ e \in Votes
    BY <2>1, <2>2
  <2>. HIDE DEF e, Row, Votes
  <2>. QED  BY <2>3
<1>4. ASSUME NEW e \in Votes
      PROVE  Row(e) \in db.cashOutVotes
  <2>1. PICK b \in 1..SafeHead : e \in ToSet(chain[b])
    BY FinalEvents
  <2>2. e.kind = "CashOutApproved"
    OBVIOUS
  <2>3. Shown(db, [event |-> e, tx |-> b])
    BY <2>1, <2>2, CaughtUpShows DEF Spending, Requesting
  <2>. QED  BY <2>2, <2>3 DEF Shown
<1>. HIDE DEF Row, Votes
<1>5. \A r \in { Row(e) : e \in Votes } : r \in db.cashOutVotes
  BY <1>4
<1>. QED  BY <1>1, <1>3, <1>5

\* The requests and what became of them.
LEMMA CashOutsFollow ==
  ASSUME IInv, SyncInv, InstanceInv, CaughtUp("MasjidInstance"), ~Holed
  PROVE  db.cashOuts = InstanceRows.cashOuts
<1>. DEFINE Proposals == { x \in ToSet(Final) : x.kind = "CashOutProposed" }
            Row(e) == [instanceAddr |-> e.instance, requestId |-> e.requestId,
                       linked |-> TRUE,
                       executed |-> Executed(e.instance, e.requestId) \in ToSet(Final),
                       canceled |-> Canceled(e.instance, e.requestId) \in ToSet(Final)]
<1>1. InstanceRows.cashOuts = { Row(e) : e \in Proposals }
  BY DEF InstanceRows
<1>2. EventsIn(FinalLogs) = ToSet(Final)
  BY SyncOf, LogsAreEvents DEF FinalLogs, Final
<1>3. ASSUME NEW e \in ToSet(Final), e.kind \in Spending
      PROVE  \E b : Shown(db, [event |-> e, tx |-> b])
  <2>1. PICK b \in 1..SafeHead : e \in ToSet(chain[b])
    BY FinalEvents
  <2>. QED  BY <1>3, <2>1, CaughtUpShows
<1>4. \A r, x \in db.cashOuts :
        r.instanceAddr = x.instanceAddr /\ r.requestId = x.requestId => r = x
  BY DEF InstanceInv, Linked
<1>5. ASSUME NEW r \in db.cashOuts, NEW e, e.instance = r.instanceAddr, e.requestId = r.requestId
      PROVE  r = Row(e)
  <2>1. /\ r \in [instanceAddr : Mosque, requestId : 1..MaxRequests, linked : BOOLEAN,
                  executed : BOOLEAN, canceled : BOOLEAN]
        /\ r.linked
        /\ r.executed => Executed(r.instanceAddr, r.requestId) \in ToSet(Final)
        /\ r.canceled => Canceled(r.instanceAddr, r.requestId) \in ToSet(Final)
    BY <1>2, StateOf DEF Tables, InstanceInv, Linked, Real, RealCashOuts
  <2>. DEFINE done == Executed(r.instanceAddr, r.requestId)
              gone == Canceled(r.instanceAddr, r.requestId)
  <2>2. /\ done.kind = "CashOutExecuted" /\ done.instance = r.instanceAddr
        /\ done.requestId = r.requestId
        /\ gone.kind = "CashOutCanceled" /\ gone.instance = r.instanceAddr
        /\ gone.requestId = r.requestId
    BY DEF Executed, Canceled
  <2>. HIDE DEF done, gone
  <2>3. \A f : f.instance = r.instanceAddr /\ f.requestId = r.requestId =>
          \A x \in Requests(db, f) : x = r
    BY <1>4 DEF Requests
  <2>4. done \in ToSet(Final) => r.executed
    <3>1. SUFFICES ASSUME done \in ToSet(Final) PROVE r.executed
      OBVIOUS
    <3>2. PICK b : Shown(db, [event |-> done, tx |-> b])
      BY <1>3, <2>2, <3>1 DEF Spending, Requesting, Settling
    <3>3. \E x \in Requests(db, done) : x.executed
      BY <2>2, <3>2 DEF Shown
    <3>. QED  BY <2>2, <2>3, <3>3
  <2>5. gone \in ToSet(Final) => r.canceled
    <3>1. SUFFICES ASSUME gone \in ToSet(Final) PROVE r.canceled
      OBVIOUS
    <3>2. PICK b : Shown(db, [event |-> gone, tx |-> b])
      BY <1>3, <2>2, <3>1 DEF Spending, Requesting, Settling
    <3>3. \E x \in Requests(db, gone) : x.canceled
      BY <2>2, <3>2 DEF Shown
    <3>. QED  BY <2>2, <2>3, <3>3
  <2>6. /\ r.executed = (Executed(e.instance, e.requestId) \in ToSet(Final))
        /\ r.canceled = (Canceled(e.instance, e.requestId) \in ToSet(Final))
    BY <1>5, <2>1, <2>4, <2>5 DEF done, gone
  <2>. QED  BY <1>5, <2>1, <2>6
<1>6. ASSUME NEW r \in db.cashOuts
      PROVE  r \in { Row(e) : e \in Proposals }
  <2>. DEFINE e == Proposed(r.instanceAddr, r.requestId)
  <2>1. e \in ToSet(Final)
    BY <1>2, StateOf DEF Real, RealCashOuts
  <2>2. e.kind = "CashOutProposed" /\ e.instance = r.instanceAddr /\ e.requestId = r.requestId
    BY DEF Proposed
  <2>3. r = Row(e) /\ e \in Proposals
    BY <1>5, <2>1, <2>2
  <2>. HIDE DEF e, Row, Proposals
  <2>. QED  BY <2>3
<1>7. ASSUME NEW e \in Proposals
      PROVE  Row(e) \in db.cashOuts
  <2>1. e.kind = "CashOutProposed" /\ e \in ToSet(Final)
    OBVIOUS
  <2>2. PICK b : Shown(db, [event |-> e, tx |-> b])
    BY <1>3, <2>1 DEF Spending, Requesting
  <2>3. PICK r : r \in Requests(db, e)
    BY <2>1, <2>2 DEF Shown
  <2>4. r \in db.cashOuts /\ e.instance = r.instanceAddr /\ e.requestId = r.requestId
    BY <2>3 DEF Requests
  <2>5. r = Row(e)
    BY <1>5, <2>4
  <2>. QED  BY <2>4, <2>5
<1>. HIDE DEF Row, Proposals
<1>8. \A r \in { Row(e) : e \in Proposals } : r \in db.cashOuts
  BY <1>7
<1>. QED  BY <1>1, <1>6, <1>8

(***************************************************************************)
(* Once the pass over the instances has caught up and no tick is running,  *)
(* the donations, the requests with what became of them and the approvals  *)
(* are those of the chain, each once and linked to its mosque, whatever    *)
(* crashed, failed or was replayed, as long as no handler failed, no       *)
(* replay was cut short and no pass over the protocol failed: for any      *)
(* chain the contracts can have written, any chunk size and number of      *)
(* faults, and with instances announced, blocks added and blocks replaced  *)
(* at any moment (instance.go 11-83, event_service.go 100-167).            *)
(***************************************************************************)
THEOREM InstancesAreSynced == Spec => []InstancesSynced
<1>1. IInv /\ SyncInv /\ InstanceInv => InstancesSynced
  BY CashInsFollow, CashOutsFollow, ApprovalsFollow DEF InstancesSynced, Holed
<1>. QED  BY <1>1, InstancesAreFollowed, PTL
=============================================================================
