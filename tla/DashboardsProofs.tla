-------------------------- MODULE DashboardsProofs ---------------------------
(***************************************************************************)
(* What the pages keep, proved for any number of calls, requests and       *)
(* mosques.  Each page has an inductive invariant: what PageCallsProofs    *)
(* says of its calls, the types of its own state, and what relates the two *)
(* to the chain.                                                           *)
(***************************************************************************)
EXTENDS Dashboards, FiniteSetTheorems, TLAPS

BC == INSTANCE PageCallsProofs
        WITH Hook <- Board!BoardHook, Inside <- Board!BoardHook,
             Target <- Masjid \X (Board!RequestId \cup {0})
RC == INSTANCE PageCallsProofs
        WITH Hook <- {Register!RegisterHook}, Inside <- {Register!RegisterHook}, Target <- Name
VC == INSTANCE PageCallsProofs
        WITH Hook <- {Verifier!AttestHook, Verifier!ManualHook}, Inside <- {}, Target <- Masjid
AC == INSTANCE PageCallsProofs
        WITH Hook <- Admin!AdminHook, Inside <- {}, Target <- Person

Call == 1..MaxCalls
Confirmations == Cardinality({c \in Call : call[c].at = "confirmed"})
----------------------------------------------------------------------------
(* The board *)

Instances == [verified : BOOLEAN, threshold : 1..MaxThreshold, count : 0..MaxRequests,
              request : [Board!RequestId -> Board!Request]]
Reads == [verified : BOOLEAN, threshold : 0..MaxThreshold, count : 0..MaxRequests]
Tables == [of : 0..MaxRequests, got : Board!Rows]

BoardTypes ==
  /\ page \in {"list", "dashboard"}
  /\ list \in {"loading", "failed", "loaded"}
  /\ masjids \subseteq Masjid /\ deployed \subseteq masjids
  /\ selected \in Masjid \cup {Nothing}
  /\ proposing \in BOOLEAN
  /\ chain \in [Masjid -> Instances]
  /\ troubles \in 0..MaxEvents
  /\ seen \in [Masjid -> Reads]
  /\ rows \in [Masjid -> Tables]

\* A request that was req may be now.
MayBecome(req, now) ==
  /\ req.settled # "open" => req.settled = now.settled
  /\ req.approvals <= now.approvals

\* What was read of an instance and its requests, however long ago, was so, and remains
\* so as far as a request's past is concerned.
ReadsAreHistory ==
  \A m \in Masjid :
    /\ seen[m].count <= chain[m].count
    /\ \A id \in DOMAIN rows[m].got :
         id <= chain[m].count /\ MayBecome(rows[m].got[id], chain[m].request[id])

\* Rows call for their request, and each runs one call; nothing is uploaded.
RowsRunOne ==
  /\ \A c \in Call :
       /\ call[c].at # "uploading"
       /\ call[c].at # "unused" /\ call[c].hook[1] # "propose" =>
            call[c].target[2] \in Board!RequestId
  /\ \A c, d \in Call : BC!Runs(c) /\ BC!Runs(d) /\ call[c].hook[2] = call[d].hook[2] => c = d

BoardInv == BC!CallInv /\ BoardTypes /\ ReadsAreHistory /\ RowsRunOne
----------------------------------------------------------------------------
(* The form for registering *)

\* No press follows the one that runs, or the one the form waits for or says has been
\* registered.
IsLast(c) == \A d \in Call : call[d].at # "unused" => d <= c

SpeaksOfLast ==
  /\ \A c \in Call : RC!Runs(c) => IsLast(c)
  /\ \A c \in Call :
       watched[Register!RegisterHook] = c /\ call[c].at \in {"confirming", "confirmed"} =>
         IsLast(c) /\ (call[c].at = "confirmed" => tx[c].status = "mined")

\* Presses are numbered as they come.
InOrder == \A c, d \in Call : d < c /\ call[c].at # "unused" => call[d].at # "unused"

RegisterInv ==
  /\ RC!CallInv
  /\ open \in BOOLEAN /\ taken \subseteq Name
  /\ \A c, d \in Call : RC!Runs(c) /\ RC!Runs(d) => c = d
  /\ SpeaksOfLast /\ InOrder
----------------------------------------------------------------------------
(* The verifiers' page *)

\* The lists that have not been answered, and those that may be asked for again without
\* another vote.
Owed == loads + (IF VC!IsSuccess(Verifier!AttestHook) THEN 2 ELSE 0)

\* Every confirmed vote may have asked for the list three times: when it was confirmed,
\* and twice when the button that forgets it was pressed.
VerifierInv ==
  /\ VC!CallInv
  /\ tab \in {"queue", "history"}
  /\ loads \in Nat /\ Owed <= 1 + 3 * Confirmations
  /\ loading \in BOOLEAN /\ listed \subseteq Masjid /\ voted \subseteq Account \X Masjid
----------------------------------------------------------------------------
(* The admin's page *)

\* The lists that have not been answered, and the one a label being saved will ask for.
Due == loads + (IF saving = Nothing THEN 0 ELSE 1)

\* Every confirmed call may have asked for the list twice, and every label once.
AdminInv ==
  /\ AC!CallInv
  /\ loads \in Nat /\ Due <= 1 + 2 * Confirmations + labels
  /\ loading \in BOOLEAN /\ failed \in BOOLEAN
  /\ verifiers \subseteq Person /\ saving \in Person \cup {Nothing}
  /\ labels \in 0..MaxLabels /\ registered \subseteq Person

IInv ==
  \/ site = "board"    /\ BoardInv
  \/ site = "register" /\ RegisterInv
  \/ site = "verifier" /\ VerifierInv
  \/ site = "admin"    /\ AdminInv
----------------------------------------------------------------------------
(* A page's hooks and calls are those PageCallsProofs speaks of. *)

\* Those of BoardPage, with the hooks of rows and forms.
LEMMA BoardCalls ==
  /\ Board!Call = Call /\ BC!Call = Call
  /\ Board!CallInit <=> BC!CallInit
  /\ Board!CallTypeOK <=> BC!CallTypeOK
  /\ \A a : Board!ChangeAccount(a) <=> BC!ChangeAccount(a)
  /\ \A h : Board!Busy(h) <=> BC!Busy(h)
  /\ \A h : Board!IsSuccess(h) <=> BC!IsSuccess(h)
  /\ \A c, h, t, stage : Board!Press(c, h, t, stage) <=> BC!Press(c, h, t, stage)
  /\ \A c : /\ Board!Simulate(c) <=> BC!Simulate(c)
            /\ \A stage : Board!Refuse(c, stage) <=> BC!Refuse(c, stage)
            /\ \A ok : Board!Included(c, ok) <=> BC!Included(c, ok)
            /\ Board!WalletSigns(c) <=> BC!WalletSigns(c)
            /\ Board!Confirmed(c) <=> BC!Confirmed(c)
            /\ Board!ReceiptFails(c) <=> BC!ReceiptFails(c)
  /\ \A hs : /\ Board!Unmount(hs) <=> BC!Unmount(hs)
             /\ Board!WatchedWithout(hs) = BC!WatchedWithout(hs)
             /\ \A calls : Board!CallWithout(calls, hs) = BC!CallWithout(calls, hs)
BY DEF Board!CallInit, BC!CallInit, Board!NoCall, BC!NoCall, Board!NoTx, BC!NoTx,
       Board!CallTypeOK, BC!CallTypeOK, Board!Call, BC!Call, Board!Running, BC!Running,
       Board!Ended, BC!Ended, Board!At, BC!At, Board!Stage, BC!Stage,
       Board!IsPending, BC!IsPending, Board!IsConfirming, BC!IsConfirming,
       Board!IsSuccess, BC!IsSuccess, Board!Busy, BC!Busy, Board!CallWithout, BC!CallWithout,
       Board!WatchedWithout, BC!WatchedWithout, Board!Unmount, BC!Unmount,
       Board!ChangeAccount, BC!ChangeAccount, Board!Press, BC!Press,
       Board!Simulate, BC!Simulate, Board!Refuse, BC!Refuse, Board!IsWatched, BC!IsWatched,
       Board!WalletSigns, BC!WalletSigns, Board!Included, BC!Included,
       Board!Confirmed, BC!Confirmed, Board!ReceiptFails, BC!ReceiptFails, Call

\* Those of RegisterPage, with its one hook.
LEMMA RegisterCalls ==
  /\ Register!Call = Call /\ RC!Call = Call
  /\ Register!CallInit <=> RC!CallInit
  /\ Register!CallTypeOK <=> RC!CallTypeOK
  /\ \A a : Register!ChangeAccount(a) <=> RC!ChangeAccount(a)
  /\ \A h : Register!Busy(h) <=> RC!Busy(h)
  /\ \A h : Register!IsSuccess(h) <=> RC!IsSuccess(h)
  /\ \A c, h, t, stage : Register!Press(c, h, t, stage) <=> RC!Press(c, h, t, stage)
  /\ \A c : /\ Register!Simulate(c) <=> RC!Simulate(c)
            /\ \A stage : Register!Refuse(c, stage) <=> RC!Refuse(c, stage)
            /\ \A ok : Register!Included(c, ok) <=> RC!Included(c, ok)
            /\ Register!WalletSigns(c) <=> RC!WalletSigns(c)
            /\ Register!Confirmed(c) <=> RC!Confirmed(c)
            /\ Register!ReceiptFails(c) <=> RC!ReceiptFails(c)
  /\ \A hs : /\ Register!Unmount(hs) <=> RC!Unmount(hs)
             /\ Register!WatchedWithout(hs) = RC!WatchedWithout(hs)
             /\ \A calls : Register!CallWithout(calls, hs) = RC!CallWithout(calls, hs)
BY DEF Register!CallInit, RC!CallInit, Register!NoCall, RC!NoCall, Register!NoTx, RC!NoTx,
       Register!CallTypeOK, RC!CallTypeOK, Register!Call, RC!Call,
       Register!Running, RC!Running, Register!Ended, RC!Ended, Register!At, RC!At,
       Register!Stage, RC!Stage, Register!IsPending, RC!IsPending,
       Register!IsConfirming, RC!IsConfirming, Register!IsSuccess, RC!IsSuccess,
       Register!Busy, RC!Busy, Register!CallWithout, RC!CallWithout,
       Register!WatchedWithout, RC!WatchedWithout, Register!Unmount, RC!Unmount,
       Register!ChangeAccount, RC!ChangeAccount, Register!Press, RC!Press,
       Register!Simulate, RC!Simulate, Register!Refuse, RC!Refuse,
       Register!IsWatched, RC!IsWatched, Register!WalletSigns, RC!WalletSigns,
       Register!Included, RC!Included, Register!Confirmed, RC!Confirmed,
       Register!ReceiptFails, RC!ReceiptFails, Call

\* Those of VerifierPage, whose two hooks do not simulate.
LEMMA VerifierCalls ==
  /\ Verifier!Call = Call /\ VC!Call = Call
  /\ Verifier!CallInit <=> VC!CallInit
  /\ Verifier!CallTypeOK <=> VC!CallTypeOK
  /\ \A a : Verifier!ChangeAccount(a) <=> VC!ChangeAccount(a)
  /\ \A h : Verifier!Busy(h) <=> VC!Busy(h)
  /\ \A h : Verifier!IsSuccess(h) <=> VC!IsSuccess(h)
  /\ \A c, h, t, stage : Verifier!Press(c, h, t, stage) <=> VC!Press(c, h, t, stage)
  /\ \A c : /\ Verifier!Simulate(c) <=> VC!Simulate(c)
            /\ \A stage : Verifier!Refuse(c, stage) <=> VC!Refuse(c, stage)
            /\ \A ok : Verifier!Included(c, ok) <=> VC!Included(c, ok)
            /\ Verifier!WalletSigns(c) <=> VC!WalletSigns(c)
            /\ Verifier!Confirmed(c) <=> VC!Confirmed(c)
            /\ Verifier!ReceiptFails(c) <=> VC!ReceiptFails(c)
  /\ \A hs : /\ Verifier!Unmount(hs) <=> VC!Unmount(hs)
             /\ Verifier!WatchedWithout(hs) = VC!WatchedWithout(hs)
             /\ \A calls : Verifier!CallWithout(calls, hs) = VC!CallWithout(calls, hs)
BY DEF Verifier!CallInit, VC!CallInit, Verifier!NoCall, VC!NoCall, Verifier!NoTx, VC!NoTx,
       Verifier!CallTypeOK, VC!CallTypeOK, Verifier!Call, VC!Call,
       Verifier!Running, VC!Running, Verifier!Ended, VC!Ended, Verifier!At, VC!At,
       Verifier!Stage, VC!Stage, Verifier!IsPending, VC!IsPending,
       Verifier!IsConfirming, VC!IsConfirming, Verifier!IsSuccess, VC!IsSuccess,
       Verifier!Busy, VC!Busy, Verifier!CallWithout, VC!CallWithout,
       Verifier!WatchedWithout, VC!WatchedWithout, Verifier!Unmount, VC!Unmount,
       Verifier!ChangeAccount, VC!ChangeAccount, Verifier!Press, VC!Press,
       Verifier!Simulate, VC!Simulate, Verifier!Refuse, VC!Refuse,
       Verifier!IsWatched, VC!IsWatched, Verifier!WalletSigns, VC!WalletSigns,
       Verifier!Included, VC!Included, Verifier!Confirmed, VC!Confirmed,
       Verifier!ReceiptFails, VC!ReceiptFails, Call

\* Those of AdminPage, whose hooks do not simulate.
LEMMA AdminCalls ==
  /\ Admin!Call = Call /\ AC!Call = Call
  /\ Admin!CallInit <=> AC!CallInit
  /\ Admin!CallTypeOK <=> AC!CallTypeOK
  /\ \A a : Admin!ChangeAccount(a) <=> AC!ChangeAccount(a)
  /\ \A h : Admin!Busy(h) <=> AC!Busy(h)
  /\ \A h : Admin!IsSuccess(h) <=> AC!IsSuccess(h)
  /\ \A c, h, t, stage : Admin!Press(c, h, t, stage) <=> AC!Press(c, h, t, stage)
  /\ \A c : /\ Admin!Simulate(c) <=> AC!Simulate(c)
            /\ \A stage : Admin!Refuse(c, stage) <=> AC!Refuse(c, stage)
            /\ \A ok : Admin!Included(c, ok) <=> AC!Included(c, ok)
            /\ Admin!WalletSigns(c) <=> AC!WalletSigns(c)
            /\ Admin!Confirmed(c) <=> AC!Confirmed(c)
            /\ Admin!ReceiptFails(c) <=> AC!ReceiptFails(c)
  /\ \A hs : /\ Admin!Unmount(hs) <=> AC!Unmount(hs)
             /\ Admin!WatchedWithout(hs) = AC!WatchedWithout(hs)
             /\ \A calls : Admin!CallWithout(calls, hs) = AC!CallWithout(calls, hs)
BY DEF Admin!CallInit, AC!CallInit, Admin!NoCall, AC!NoCall, Admin!NoTx, AC!NoTx,
       Admin!CallTypeOK, AC!CallTypeOK, Admin!Call, AC!Call, Admin!Running, AC!Running,
       Admin!Ended, AC!Ended, Admin!At, AC!At, Admin!Stage, AC!Stage,
       Admin!IsPending, AC!IsPending, Admin!IsConfirming, AC!IsConfirming,
       Admin!IsSuccess, AC!IsSuccess, Admin!Busy, AC!Busy, Admin!CallWithout, AC!CallWithout,
       Admin!WatchedWithout, AC!WatchedWithout, Admin!Unmount, AC!Unmount,
       Admin!ChangeAccount, AC!ChangeAccount, Admin!Press, AC!Press,
       Admin!Simulate, AC!Simulate, Admin!Refuse, AC!Refuse, Admin!IsWatched, AC!IsWatched,
       Admin!WalletSigns, AC!WalletSigns, Admin!Included, AC!Included,
       Admin!Confirmed, AC!Confirmed, Admin!ReceiptFails, AC!ReceiptFails, Call
----------------------------------------------------------------------------
(* The board: the chain and what was read of it. *)

\* What others and mined transactions do to an instance never undoes anything.
ChainGrows ==
  \A m \in Masjid :
    /\ chain[m].count <= chain'[m].count
    /\ \A id \in Board!RequestId : MayBecome(chain[m].request[id], chain'[m].request[id])

Bounds == MaxRequests \in Nat /\ MaxThreshold \in Nat \ {0} /\ MaxEvents \in Nat /\ MaxCalls \in Nat

\* The bounds are natural numbers.
LEMMA BoundsAreNat == Bounds
BY DashboardsAssumption DEF Bounds

\* An instance that rests undoes nothing.
LEMMA SameInstance ==
  ASSUME chain \in [Masjid -> Instances], NEW m \in Masjid
  PROVE  /\ chain[m].count \in Nat /\ chain[m].count <= chain[m].count
         /\ \A id \in Board!RequestId : MayBecome(chain[m].request[id], chain[m].request[id])
<1>1. chain[m] \in Instances
  OBVIOUS
<1>2. \A id \in Board!RequestId : chain[m].request[id].approvals \in Nat
  BY <1>1, BoundsAreNat DEF Instances, Board!Request, Bounds
<1>. QED  BY <1>1, <1>2, BoundsAreNat DEF Instances, MayBecome, Bounds

\* Whatever is done to one mosque's instance or to one of its requests.
LEMMA InstanceChanges ==
  ASSUME chain \in [Masjid -> Instances], NEW m \in Masjid, NEW i \in Instances,
         chain' = [chain EXCEPT ![m] = i],
         chain[m].count <= i.count,
         \A id \in Board!RequestId : MayBecome(chain[m].request[id], i.request[id])
  PROVE  chain' \in [Masjid -> Instances] /\ ChainGrows
<1>1. chain' \in [Masjid -> Instances]
  OBVIOUS
<1>2. ASSUME NEW n \in Masjid
      PROVE  /\ chain[n].count <= chain'[n].count
             /\ \A id \in Board!RequestId :
                  MayBecome(chain[n].request[id], chain'[n].request[id])
  <2>1. CASE n = m
    BY <2>1
  <2>2. CASE n # m
    <3>1. chain'[n] = chain[n]
      BY <2>2
    <3>. QED  BY <3>1, SameInstance
  <2>. QED  BY <2>1, <2>2
<1>. QED  BY <1>1, <1>2 DEF ChainGrows

\* One more request of an instance.
LEMMA CountGrows ==
  ASSUME chain \in [Masjid -> Instances], NEW m \in Masjid, chain[m].count < MaxRequests,
         chain' = [chain EXCEPT ![m].count = @ + 1]
  PROVE  chain' \in [Masjid -> Instances] /\ ChainGrows
<1>. DEFINE i == [chain[m] EXCEPT !.count = chain[m].count + 1]
<1>1. chain[m] \in Instances /\ chain[m].count \in 0..MaxRequests
  BY DEF Instances
<1>2. chain' = [chain EXCEPT ![m] = i]
  OBVIOUS
<1>3. i \in Instances /\ i.count = chain[m].count + 1 /\ i.request = chain[m].request
  BY <1>1, BoundsAreNat DEF Instances, Bounds
<1>. HIDE DEF i
<1>4. /\ chain[m].count <= i.count
      /\ \A id \in Board!RequestId : MayBecome(chain[m].request[id], i.request[id])
  BY <1>3, SameInstance
<1>. QED  BY <1>2, <1>3, <1>4, InstanceChanges

\* The status or the threshold of an instance changes.
LEMMA SettingsChange ==
  ASSUME chain \in [Masjid -> Instances], NEW m \in Masjid,
         \/ chain' = [chain EXCEPT ![m].verified = ~@]
         \/ \E t \in 1..MaxThreshold : chain' = [chain EXCEPT ![m].threshold = t]
  PROVE  chain' \in [Masjid -> Instances] /\ ChainGrows
<1>1. chain[m] \in Instances
  OBVIOUS
<1>3. CASE chain' = [chain EXCEPT ![m].verified = ~@]
  <2>. DEFINE i == [chain[m] EXCEPT !.verified = ~chain[m].verified]
  <2>1. chain' = [chain EXCEPT ![m] = i]
    BY <1>3
  <2>2. i \in Instances /\ i.count = chain[m].count /\ i.request = chain[m].request
    BY <1>1 DEF Instances
  <2>. HIDE DEF i
  <2>3. /\ chain[m].count <= i.count
        /\ \A id \in Board!RequestId : MayBecome(chain[m].request[id], i.request[id])
    BY <2>2, SameInstance
  <2>. QED  BY <2>1, <2>2, <2>3, InstanceChanges
<1>4. ASSUME NEW t \in 1..MaxThreshold, chain' = [chain EXCEPT ![m].threshold = t]
      PROVE  chain' \in [Masjid -> Instances] /\ ChainGrows
  <2>. DEFINE i == [chain[m] EXCEPT !.threshold = t]
  <2>1. chain' = [chain EXCEPT ![m] = i]
    BY <1>4
  <2>2. i \in Instances /\ i.count = chain[m].count /\ i.request = chain[m].request
    BY <1>1 DEF Instances
  <2>. HIDE DEF i
  <2>3. /\ chain[m].count <= i.count
        /\ \A id \in Board!RequestId : MayBecome(chain[m].request[id], i.request[id])
    BY <2>2, SameInstance
  <2>. QED  BY <2>1, <2>2, <2>3, InstanceChanges
<1>. QED  BY <1>3, <1>4

\* A request changes.
LEMMA RequestChanges ==
  ASSUME chain \in [Masjid -> Instances], NEW m \in Masjid, NEW id \in Board!RequestId,
         NEW req \in Board!Request, chain' = [chain EXCEPT ![m].request[id] = req],
         MayBecome(chain[m].request[id], req)
  PROVE  chain' \in [Masjid -> Instances] /\ ChainGrows
<1>. DEFINE i == [chain[m] EXCEPT !.request = [chain[m].request EXCEPT ![id] = req]]
<1>1. chain[m] \in Instances
  OBVIOUS
<1>2. chain[m].request \in [Board!RequestId -> Board!Request]
  BY <1>1 DEF Instances
<1>3. chain' = [chain EXCEPT ![m] = i]
  OBVIOUS
<1>4. /\ i \in Instances /\ i.count = chain[m].count
      /\ i.request = [chain[m].request EXCEPT ![id] = req]
  BY <1>1, <1>2 DEF Instances
<1>. HIDE DEF i
<1>5. \A n \in Board!RequestId : MayBecome(chain[m].request[n], i.request[n])
  BY <1>2, <1>4, SameInstance
<1>. QED  BY <1>3, <1>4, <1>5, SameInstance, InstanceChanges

\* Steps that leave the chain alone.
LEMMA RestGrows ==
  ASSUME BoardTypes, UNCHANGED chain
  PROVE  chain' \in [Masjid -> Instances] /\ ChainGrows
BY SameInstance DEF BoardTypes, ChainGrows

\* What the board's types say of one mosque.
LEMMA TableParts ==
  ASSUME BoardTypes, NEW m \in Masjid
  PROVE  /\ chain[m] \in Instances /\ chain[m].count \in 0..MaxRequests
         /\ seen[m] \in Reads /\ seen[m].count \in 0..MaxRequests
         /\ rows[m] \in Tables /\ rows[m].of \in 0..MaxRequests
         /\ DOMAIN rows[m].got \subseteq Board!RequestId
         /\ \A id \in DOMAIN rows[m].got : rows[m].got[id] \in Board!Row
         /\ \A id \in Board!RequestId : chain[m].request[id] \in Board!Request
<1>1. chain[m] \in Instances /\ seen[m] \in Reads /\ rows[m] \in Tables
  BY DEF BoardTypes
<1>2. PICK ids \in SUBSET Board!RequestId : rows[m].got \in [ids -> Board!Row]
  BY <1>1 DEF Tables, Board!Rows
<1>. QED  BY <1>1, <1>2 DEF Instances, Reads, Tables

\* What happens to a request adds up.
LEMMA BecomesTransitively ==
  ASSUME NEW r \in Board!Row, NEW s \in Board!Request, NEW t \in Board!Request,
         MayBecome(r, s), MayBecome(s, t)
  PROVE  MayBecome(r, t)
BY BoundsAreNat DEF MayBecome, Board!Row, Board!Request, Bounds

\* Whatever becomes of the chain, what was read stays its history.
LEMMA HistoryStays ==
  ASSUME BoardTypes, ReadsAreHistory, chain' \in [Masjid -> Instances], ChainGrows,
         UNCHANGED <<seen, rows>>
  PROVE  ReadsAreHistory'
<1>. SUFFICES ASSUME NEW m \in Masjid
              PROVE  /\ seen[m].count <= chain'[m].count
                     /\ \A id \in DOMAIN rows[m].got :
                          id <= chain'[m].count /\ MayBecome(rows[m].got[id], chain'[m].request[id])
  BY DEF ReadsAreHistory
<1>1. /\ seen[m].count <= chain[m].count /\ chain[m].count <= chain'[m].count
      /\ \A id \in DOMAIN rows[m].got :
           /\ id <= chain[m].count /\ MayBecome(rows[m].got[id], chain[m].request[id])
           /\ id \in Board!RequestId /\ rows[m].got[id] \in Board!Row
           /\ MayBecome(chain[m].request[id], chain'[m].request[id])
           /\ chain[m].request[id] \in Board!Request /\ chain'[m].request[id] \in Board!Request
  BY TableParts DEF ReadsAreHistory, ChainGrows, Instances
<1>2. seen[m].count \in Nat /\ chain[m].count \in Nat /\ chain'[m].count \in Nat
  BY TableParts, BoundsAreNat DEF Bounds, Instances
<1>3. ASSUME NEW id \in DOMAIN rows[m].got
      PROVE  id <= chain'[m].count /\ MayBecome(rows[m].got[id], chain'[m].request[id])
  <2>1. id \in Nat
    BY <1>1, BoundsAreNat DEF Board!RequestId, Bounds
  <2>. QED  BY <1>1, <1>2, <2>1, BecomesTransitively
<1>. QED  BY <1>1, <1>2, <1>3

\* The instance of the mosque on show is one that was listed, or there is none.
LEMMA InstanceIsMasjid ==
  ASSUME BoardTypes
  PROVE  Board!Instance \in Masjid \cup {Nothing}
BY DEF Board!Instance, BoardTypes

\* A read of an instance brings how it is, as far as there are results.
LEMMA InstanceRead ==
  ASSUME BoardTypes, ReadsAreHistory, NEW got, Board!ReadInstance(got)
  PROVE  seen' \in [Masjid -> Reads] /\ ReadsAreHistory'
<1>. DEFINE m == Board!Instance
            now == [verified  |-> "status" \in got /\ chain[m].verified,
                    threshold |-> Board!ThresholdOrZero(m, got),
                    count     |-> IF "count" \in got THEN chain[m].count ELSE 0]
<1>1. /\ m \in Masjid /\ seen' = [seen EXCEPT ![m] = now] /\ rows' = rows /\ chain' = chain
  BY InstanceIsMasjid DEF Board!ReadInstance
<1>2. chain[m] \in Instances /\ chain[m].count \in 0..MaxRequests
  BY <1>1, TableParts
<1>3. now \in Reads /\ now.count \in 0..chain[m].count
  BY <1>2, BoundsAreNat DEF Reads, Instances, Board!ThresholdOrZero, Bounds
<1>. HIDE DEF now, m
<1>4. seen' \in [Masjid -> Reads]
  BY <1>1, <1>3 DEF BoardTypes
<1>5. \A n \in Masjid : seen'[n].count <= chain[n].count
  BY <1>1, <1>2, <1>3, BoundsAreNat DEF ReadsAreHistory, BoardTypes, Bounds
<1>. QED  BY <1>1, <1>4, <1>5 DEF ReadsAreHistory

\* A read of the requests brings some of those that were counted, as they are.
LEMMA RequestsRead ==
  ASSUME BoardTypes, ReadsAreHistory, NEW got \in SUBSET Board!RequestId,
         Board!ReadRequests(got)
  PROVE  rows' \in [Masjid -> Tables] /\ ReadsAreHistory'
<1>. DEFINE m == Board!Instance
            ids == got \cap 1..seen[m].count
            now == [of |-> seen[m].count, got |-> [id \in ids |-> Board!ReadRequest(m, id)]]
<1>1. /\ m \in Masjid /\ rows' = [rows EXCEPT ![m] = now] /\ seen' = seen /\ chain' = chain
  BY InstanceIsMasjid DEF Board!ReadRequests
<1>2. /\ chain[m] \in Instances /\ chain[m].count \in 0..MaxRequests
      /\ seen[m].count \in 0..MaxRequests /\ seen[m].count <= chain[m].count
      /\ \A id \in Board!RequestId : chain[m].request[id] \in Board!Request
  BY <1>1, TableParts DEF ReadsAreHistory
<1>3. ids \subseteq Board!RequestId /\ \A id \in ids : id <= chain[m].count
  BY <1>2, BoundsAreNat DEF Bounds, Board!RequestId
<1>4. /\ now.of = seen[m].count /\ DOMAIN now.got = ids
      /\ \A id \in ids : now.got[id] = Board!RowOf(chain[m].request[id])
      /\ now.got \in [ids -> Board!Row]
  BY <1>2, <1>3 DEF Board!ReadRequest, Board!RowOf, Board!Row, Board!Request
<1>5. now \in Tables
  BY <1>2, <1>3, <1>4 DEF Tables, Board!Rows
<1>. HIDE DEF now, ids, m
<1>6. rows' \in [Masjid -> Tables]
  BY <1>1, <1>5 DEF BoardTypes
<1>7. ASSUME NEW n \in Masjid
      PROVE  \A id \in DOMAIN rows'[n].got :
               id <= chain[n].count /\ MayBecome(rows'[n].got[id], chain[n].request[id])
  <2>1. CASE n = m
    <3>1. rows'[n] = now
      BY <1>1, <2>1 DEF BoardTypes
    <3>2. \A id \in ids : MayBecome(Board!RowOf(chain[m].request[id]), chain[m].request[id])
      BY <1>1, <1>3, SameInstance DEF BoardTypes, MayBecome, Board!RowOf
    <3>. QED  BY <1>3, <1>4, <2>1, <3>1, <3>2
  <2>2. CASE n # m
    BY <1>1, <2>2 DEF BoardTypes, ReadsAreHistory
  <2>. QED  BY <2>1, <2>2
<1>. QED  BY <1>1, <1>6, <1>7 DEF ReadsAreHistory
----------------------------------------------------------------------------
(* The board: steps *)

\* A call that was pressed is about a mosque, and a row's about one of its requests.
LEMMA BoardTargets ==
  ASSUME BC!CallInv, RowsRunOne, NEW c \in Call, call[c].at # "unused"
  PROVE  /\ call[c].hook \in Board!BoardHook
         /\ call[c].target[1] \in Masjid
         /\ call[c].hook[1] # "propose" => call[c].target[2] \in Board!RequestId
<1>1. call[c].target \in Masjid \X (Board!RequestId \cup {0}) /\ call[c].hook \in Board!BoardHook
  BY BoardCalls DEF BC!CallInv, BC!SentAfterPrompt, BC!CallTypeOK
<1>. QED  BY <1>1 DEF RowsRunOne

\* What was sent was pressed.
LEMMA MinedIsUsed ==
  ASSUME BC!CallInv, NEW c \in Call, tx[c].status # "none"
  PROVE  call[c].at # "unused"
BY BoardCalls DEF BC!CallInv, BC!SentAfterPrompt

\* Steps that start no call of a row.
LEMMA BoardRests ==
  ASSUME BC!CallInv, RowsRunOne, BC!HistoryIsKept, BC!StartsOnly({})
  PROVE  RowsRunOne'
<1>1. \A c \in Call :
        /\ call[c].at # "unused" => call'[c].hook = call[c].hook /\ call'[c].target = call[c].target
        /\ call'[c].at # "unused" => call[c].at # "unused"
        /\ call'[c].at = "uploading" => call[c].at = "uploading"
        /\ BC!Runs(c)' => BC!Runs(c)
  BY BoardCalls DEF BC!HistoryIsKept, BC!StartsOnly
<1>2. \A c \in Call : BC!Runs(c) => call[c].at # "unused"
  BY DEF BC!Runs, BC!Running
<1>. QED  BY <1>1, <1>2 DEF RowsRunOne

\* A button is pressed: no call that runs has its hook, or the other hook of its row.
LEMMA BoardPresses ==
  ASSUME BC!CallInv, RowsRunOne,
         NEW c \in Call, NEW h \in Board!BoardHook, NEW t \in Masjid \X (Board!RequestId \cup {0}),
         Board!Press(c, h, t, "simulating"), ~Board!Busy(h),
         h[1] # "propose" => t[2] \in Board!RequestId,
         \A g \in Board!BoardHook : g[2] = h[2] => ~Board!Busy(g)
  PROVE  BC!CallInv' /\ RowsRunOne'
<1>1. /\ BC!CallInv' /\ BC!HistoryIsKept /\ BC!StartsOnly({c})
      /\ call'[c].hook = h /\ call'[c].target = t /\ call'[c].at = "simulating"
  BY BoardCalls, BC!ButtonPresses
<1>2. \A d \in Call : BC!Runs(d) => call[d].at # "unused" /\ call[d].hook[2] # h[2]
  <2>. SUFFICES ASSUME NEW d \in Call, BC!Runs(d)
                PROVE  call[d].at # "unused" /\ call[d].hook[2] # h[2]
    OBVIOUS
  <2>1. call[d].at # "unused"
    BY DEF BC!Runs, BC!Running
  <2>2. call[d].hook \in Board!BoardHook
    BY <2>1, BoardTargets
  <2>3. BC!Busy(call[d].hook)
    BY <2>2, BC!BusyHook, BoardCalls DEF RowsRunOne
  <2>. QED  BY <2>1, <2>2, <2>3, BoardCalls
<1>3. \A d \in Call \ {c} :
        /\ call[d].at # "unused" => call'[d].hook = call[d].hook /\ call'[d].target = call[d].target
        /\ call'[d].at # "unused" => call[d].at # "unused"
        /\ call'[d].at = "uploading" => call[d].at = "uploading"
        /\ BC!Runs(d)' => BC!Runs(d)
  BY <1>1, BoardCalls DEF BC!HistoryIsKept, BC!StartsOnly
<1>5. RowsRunOne'
  <2>1. \A d \in Call : d # c /\ BC!Runs(d)' => call'[d].hook[2] # call'[c].hook[2]
    BY <1>1, <1>2, <1>3
  <2>2. \A d, e \in Call :
          BC!Runs(d)' /\ BC!Runs(e)' /\ call'[d].hook[2] = call'[e].hook[2] => d = e
    BY <1>2, <1>3, <2>1 DEF RowsRunOne
  <2>3. \A d \in Call :
          /\ call'[d].at # "uploading"
          /\ call'[d].at # "unused" /\ call'[d].hook[1] # "propose" =>
               call'[d].target[2] \in Board!RequestId
    BY <1>1, <1>3 DEF RowsRunOne
  <2>. QED  BY <2>2, <2>3 DEF RowsRunOne
<1>. QED  BY <1>1, <1>5

\* A request is settled, or otherwise changed.
LEMMA Settles ==
  ASSUME chain \in [Masjid -> Instances], NEW m \in Masjid, NEW id \in Board!RequestId,
         NEW how \in {"executed", "canceled"}, chain' = Board!Settle(m, id, how),
         chain[m].request[id].settled = "open"
  PROVE  chain' \in [Masjid -> Instances] /\ ChainGrows
<1>. DEFINE old == chain[m].request[id]
            req == [old EXCEPT !.settled = how]
<1>1. chain[m] \in Instances /\ chain[m].request \in [Board!RequestId -> Board!Request]
  BY DEF Instances
<1>2. old \in Board!Request /\ old.approvals \in Nat
  BY <1>1, BoundsAreNat DEF Board!Request, Bounds
<1>3. req \in Board!Request /\ MayBecome(old, req)
  BY <1>2 DEF Board!Request, MayBecome
<1>4. chain' = [chain EXCEPT ![m].request[id] = req]
  BY DEF Board!Settle
<1>. HIDE DEF req
<1>. QED  BY <1>3, <1>4, RequestChanges

\* The transaction of a call is in a block.
LEMMA BoardMines ==
  ASSUME BC!CallInv, BoardTypes, RowsRunOne, NEW c \in Call, Board!Mine(c)
  PROVE  /\ BC!CallInv' /\ RowsRunOne'
         /\ chain' \in [Masjid -> Instances] /\ ChainGrows
<1>. DEFINE m == call[c].target[1]  id == call[c].target[2]
<1>1. CASE Board!Included(c, FALSE) /\ UNCHANGED chain
  <2>1. BC!CallInv' /\ BC!HistoryIsKept /\ BC!StartsOnly({})
    BY <1>1, BC!Blocks, BoardCalls
  <2>2. chain' \in [Masjid -> Instances] /\ ChainGrows
    BY <1>1, RestGrows
  <2>. QED  BY <2>1, <2>2, BoardRests
<1>2. CASE /\ tx[c].status = "pending" /\ Board!Accepts(c) /\ Board!Included(c, TRUE)
           /\ chain' = CASE call[c].hook[1] = "propose" -> [chain EXCEPT ![m].count = @ + 1]
                         [] call[c].hook[1] = "execute" -> Board!Settle(m, id, "executed")
                         [] OTHER                       -> Board!Settle(m, id, "canceled")
  <2>1. BC!CallInv' /\ UNCHANGED call
    BY <1>2, BC!Blocks, BoardCalls
  <2>2. /\ call[c].at # "unused" /\ call[c].hook \in Board!BoardHook /\ m \in Masjid
        /\ call[c].hook[1] # "propose" => id \in Board!RequestId
    BY <1>2, MinedIsUsed, BoardTargets
  <2>3. chain \in [Masjid -> Instances]
    BY DEF BoardTypes
  <2>4. call[c].hook[1] # "propose" => chain[m].request[id].settled = "open"
    BY <1>2, <2>2 DEF Board!Accepts
  <2>5. chain' \in [Masjid -> Instances] /\ ChainGrows
    <3>1. CASE call[c].hook[1] = "propose"
      <4>1. chain[m].count < MaxRequests
        <5>1. chain[m].count \in 0..MaxRequests
          BY <2>2, TableParts
        <5>. QED  BY <1>2, <3>1 DEF Board!Accepts
      <4>. QED  BY <1>2, <2>2, <2>3, <3>1, <4>1, CountGrows
    <3>2. CASE call[c].hook[1] # "propose"
      <4>1. PICK how \in {"executed", "canceled"} : chain' = Board!Settle(m, id, how)
        BY <1>2, <3>2
      <4>. QED  BY <2>2, <2>3, <2>4, <3>2, <4>1, Settles
    <3>. QED  BY <3>1, <3>2
  <2>6. RowsRunOne'
    BY <2>1 DEF RowsRunOne, BC!Runs
  <2>. QED  BY <2>1, <2>5, <2>6
<1>. QED  BY <1>1, <1>2 DEF Board!Mine

\* Others change an instance.
LEMMA OthersAct ==
  ASSUME BoardTypes, NEW m \in Masjid, Board!Outside(m)
  PROVE  chain' \in [Masjid -> Instances] /\ ChainGrows
<1>1. chain \in [Masjid -> Instances] /\ chain[m].count \in 0..MaxRequests
  BY TableParts DEF BoardTypes
<1>2. CASE \/ chain' = [chain EXCEPT ![m].verified = ~@]
           \/ \E t \in 1..MaxThreshold \ {chain[m].threshold} :
                chain' = [chain EXCEPT ![m].threshold = t]
  BY <1>1, <1>2, SettingsChange
<1>3. CASE chain[m].count < MaxRequests /\ chain' = [chain EXCEPT ![m].count = @ + 1]
  BY <1>1, <1>3, CountGrows
<1>4. ASSUME NEW id \in 1..chain[m].count, chain[m].request[id].settled = "open",
             \/ chain' = [chain EXCEPT ![m].request[id].expired = TRUE]
             \/ /\ chain[m].request[id].approvals < MaxThreshold
                /\ chain' = [chain EXCEPT ![m].request[id].approvals = @ + 1]
             \/ chain' = Board!Settle(m, id, "canceled")
      PROVE  chain' \in [Masjid -> Instances] /\ ChainGrows
  <2>. DEFINE old == chain[m].request[id]
  <2>1. id \in Board!RequestId
    BY <1>1, BoundsAreNat DEF Board!RequestId, Bounds
  <2>2. old \in Board!Request /\ old.approvals \in 0..MaxThreshold
    BY <2>1, TableParts DEF Board!Request
  <2>3. CASE chain' = [chain EXCEPT ![m].request[id].expired = TRUE]
    <3>. DEFINE req == [old EXCEPT !.expired = TRUE]
    <3>1. chain' = [chain EXCEPT ![m].request[id] = req]
      BY <2>3
    <3>2. /\ req \in Board!Request
          /\ req.approvals = old.approvals /\ req.settled = old.settled
      BY <2>2 DEF Board!Request
    <3>. HIDE DEF req
    <3>3. MayBecome(old, req)
      BY <2>2, <3>2, BoundsAreNat DEF MayBecome, Bounds
    <3>. QED  BY <1>1, <2>1, <3>1, <3>2, <3>3, RequestChanges
  <2>4. CASE /\ chain[m].request[id].approvals < MaxThreshold
             /\ chain' = [chain EXCEPT ![m].request[id].approvals = @ + 1]
    <3>. DEFINE req == [old EXCEPT !.approvals = old.approvals + 1]
    <3>1. chain' = [chain EXCEPT ![m].request[id] = req]
      BY <2>4
    <3>2. req \in Board!Request /\ MayBecome(old, req)
      BY <2>2, <2>4, BoundsAreNat DEF Board!Request, MayBecome, Bounds
    <3>. HIDE DEF req
    <3>. QED  BY <1>1, <2>1, <3>1, <3>2, RequestChanges
  <2>5. CASE chain' = Board!Settle(m, id, "canceled")
    BY <1>1, <1>4, <2>1, <2>5, Settles
  <2>. QED  BY <1>4, <2>3, <2>4, <2>5
<1>. QED  BY <1>2, <1>3, <1>4 DEF Board!Outside

\* The Cardinality that BoardPage takes from FiniteSets is the one of the theorems.
LEMMA SameCardinality == \A S : Board!Cardinality(S) = Cardinality(S)
BY DEF Board!Cardinality, Cardinality

\* As long as BoardPage counts another trouble, the count is below its bound.
LEMMA TroublesBounded ==
  ASSUME troubles \in 0..MaxEvents, Board!Trouble
  PROVE  troubles' \in 0..MaxEvents
<1>1. Board!Presses \in Nat
  <2>1. IsFiniteSet(Board!Call)
    BY FS_Interval, BoundsAreNat DEF Board!Call, Bounds
  <2>2. IsFiniteSet({c \in Board!Call : call[c].at # "unused"})
    BY <2>1, FS_Subset
  <2>3. Board!Presses = Cardinality({c \in Board!Call : call[c].at # "unused"})
    BY SameCardinality DEF Board!Presses
  <2>. QED  BY <2>2, <2>3, FS_CardinalityType
<1>. QED  BY <1>1, BoundsAreNat DEF Board!Trouble, Bounds

\* The invariant holds when app/board opens.
LEMMA BoardStarts ==
  ASSUME Board!Init
  PROVE  BoardInv
<1>1. Board!CallInit /\ Board!BoardHook # {}
  BY DEF Board!Init, Board!BoardHook
<1>2. BC!CallInv
  BY <1>1, BoardCalls, BC!InitCalls
<1>3. \A c \in Call : call[c].at = "unused"
  BY <1>1 DEF Board!CallInit, Board!NoCall, Board!Call, Call
<1>4. \A m \in Masjid, id \in Board!RequestId :
        [Board!NewRequest EXCEPT !.approvals = IF id <= Begun[m] THEN 1 ELSE 0] \in Board!Request
  <2>1. Board!NewRequest \in Board!Request /\ {0, 1} \subseteq 0..MaxThreshold
    BY BoundsAreNat DEF Board!NewRequest, Board!Request, Bounds
  <2>2. \A r \in Board!Request, k \in 0..MaxThreshold :
          [r EXCEPT !.approvals = k] \in Board!Request
    BY DEF Board!Request
  <2>. QED  BY <2>1, <2>2
<1>5. chain \in [Masjid -> Instances]
  BY <1>4, BoundsAreNat, DashboardsAssumption DEF Board!Init, Instances, Bounds
<1>6. Board!NoRead \in Reads /\ Board!NoRows \in Tables /\ DOMAIN Board!NoRows.got = {}
  <2>1. Board!NoRows.got \in [{} -> Board!Row] /\ {} \in SUBSET Board!RequestId
    BY DEF Board!NoRows
  <2>2. Board!NoRows.got \in Board!Rows
    BY <2>1 DEF Board!Rows
  <2>3. Board!NoRows \in Tables
    BY <2>2, BoundsAreNat DEF Board!NoRows, Tables, Bounds
  <2>4. Board!NoRead \in Reads
    BY BoundsAreNat DEF Board!NoRead, Reads, Bounds
  <2>. QED  BY <2>1, <2>3, <2>4
<1>7. BoardTypes
  <2>1. /\ page = "list" /\ list = "loading" /\ masjids = {} /\ deployed = {} /\ selected = Nothing
        /\ proposing = FALSE /\ troubles = 0
        /\ seen = [m \in Masjid |-> Board!NoRead] /\ rows = [m \in Masjid |-> Board!NoRows]
    BY DEF Board!Init
  <2>2. seen \in [Masjid -> Reads] /\ rows \in [Masjid -> Tables]
    BY <1>6, <2>1
  <2>3. troubles \in 0..MaxEvents
    BY <2>1, BoundsAreNat DEF Bounds
  <2>4. masjids \subseteq Masjid /\ deployed \subseteq masjids /\ selected \in Masjid \cup {Nothing} /\ proposing \in BOOLEAN
    BY <2>1
  <2>. QED  BY <1>5, <2>1, <2>2, <2>3, <2>4 DEF BoardTypes
<1>8. ReadsAreHistory
  <2>1. \A m \in Masjid : /\ seen[m] = Board!NoRead /\ rows[m] = Board!NoRows
                          /\ chain[m].count \in Nat
    BY <1>5, BoundsAreNat DEF Board!Init, Instances, Bounds
  <2>. QED  BY <1>6, <2>1 DEF ReadsAreHistory, Board!NoRead
<1>9. RowsRunOne
  BY <1>3 DEF RowsRunOne, BC!Runs, BC!Running
<1>. QED  BY <1>2, <1>7, <1>8, <1>9 DEF BoardInv

\* Components go, or nothing becomes of the calls.
LEMMA BoardUnmounts ==
  ASSUME BoardInv, UNCHANGED <<account, tx, chain>>,
         UNCHANGED <<call, watched>> \/ \E hs : Board!Unmount(hs)
  PROVE  /\ BC!CallInv' /\ RowsRunOne'
         /\ chain' \in [Masjid -> Instances] /\ ChainGrows
<1>1. chain' \in [Masjid -> Instances] /\ ChainGrows
  BY RestGrows DEF BoardInv
<1>2. BC!CallInv' /\ BC!HistoryIsKept /\ BC!Quiet
  <2>1. CASE UNCHANGED <<call, watched>>
    BY <2>1, BC!CallsRest DEF BoardInv, BC!callVars
  <2>2. ASSUME NEW hs, Board!Unmount(hs)
        PROVE  BC!CallInv' /\ BC!HistoryIsKept /\ BC!Quiet
    BY <2>2, BoardCalls, BC!Unmountings DEF BoardInv
  <2>. QED  BY <2>1, <2>2
<1>. QED  BY <1>1, <1>2, BoardRests DEF BoardInv, BC!Quiet

\* What a step of the calls, the wallet or the chain leaves alone.
LEMMA BoardCallSteps ==
  ASSUME BoardInv, BC!CallInv', RowsRunOne',
         chain' \in [Masjid -> Instances], ChainGrows, troubles' \in 0..MaxEvents,
         UNCHANGED <<page, list, masjids, deployed, selected>>, proposing' \in BOOLEAN,
         UNCHANGED <<seen, rows>>
  PROVE  BoardInv'
<1>1. BoardTypes'
  BY DEF BoardInv, BoardTypes
<1>2. ReadsAreHistory'
  BY HistoryStays DEF BoardInv
<1>. QED  BY <1>1, <1>2 DEF BoardInv

\* The steps of one call.
LEMMA BoardCallStep ==
  ASSUME BoardInv, NEW c \in Call,
         \/ Board!CallStep(c) \/ Board!Sign(c) \/ Board!PageRefuse(c, "prompting")
  PROVE  BoardInv'
<1>. USE DEF Board!pageVars, Board!shownVars, Board!chainVars
<1>0. troubles \in 0..MaxEvents /\ proposing \in BOOLEAN
  BY DEF BoardInv, BoardTypes
<1>1. CASE Board!PageSimulate(c)
  <2>1. BC!CallInv' /\ BC!HistoryIsKept /\ BC!Quiet
    BY <1>1, BoardCalls, BC!Simulations DEF BoardInv, Board!PageSimulate
  <2>2. UNCHANGED <<page, list, masjids, deployed, selected, proposing, seen, rows, chain, troubles>>
    BY <1>1 DEF Board!PageSimulate
  <2>3. chain' \in [Masjid -> Instances] /\ ChainGrows
    BY <2>2, RestGrows DEF BoardInv
  <2>. QED  BY <1>0, <2>1, <2>2, <2>3, BoardRests, BoardCallSteps DEF BoardInv, BC!Quiet
<1>2. ASSUME NEW stage \in {"simulating", "prompting"}, Board!PageRefuse(c, stage)
      PROVE  BoardInv'
  <2>1. BC!CallInv' /\ BC!HistoryIsKept /\ BC!Quiet
    BY <1>2, BoardCalls, BC!Refusals DEF BoardInv, Board!PageRefuse
  <2>2. UNCHANGED <<page, list, masjids, deployed, selected, proposing, seen, rows, chain, troubles>>
    BY <1>2 DEF Board!PageRefuse
  <2>3. chain' \in [Masjid -> Instances] /\ ChainGrows
    BY <2>2, RestGrows DEF BoardInv
  <2>. QED  BY <1>0, <2>1, <2>2, <2>3, BoardRests, BoardCallSteps DEF BoardInv, BC!Quiet
<1>3. CASE Board!Mine(c)
  <2>1. UNCHANGED <<page, list, masjids, deployed, selected, proposing, seen, rows, troubles>>
    BY <1>3 DEF Board!Mine
  <2>2. /\ BC!CallInv' /\ RowsRunOne'
        /\ chain' \in [Masjid -> Instances] /\ ChainGrows
    BY <1>3, BoardMines DEF BoardInv
  <2>. QED  BY <1>0, <2>1, <2>2, BoardCallSteps
<1>4. CASE Board!Receipt(c)
  <2>1. BC!CallInv' /\ BC!HistoryIsKept /\ BC!Quiet
    BY <1>4, BoardCalls, BC!Confirmations DEF BoardInv, Board!Receipt
  <2>2. UNCHANGED <<page, list, masjids, deployed, selected, proposing, seen, rows, chain, troubles>>
    BY <1>4 DEF Board!Receipt
  <2>3. chain' \in [Masjid -> Instances] /\ ChainGrows
    BY <2>2, RestGrows DEF BoardInv
  <2>. QED  BY <1>0, <2>1, <2>2, <2>3, BoardRests, BoardCallSteps DEF BoardInv, BC!Quiet
<1>5. CASE Board!Sign(c)
  <2>1. /\ UNCHANGED <<page, list, masjids, deployed, selected, seen, rows, chain, troubles>>
        /\ proposing' \in BOOLEAN
    BY <1>0, <1>5 DEF Board!Sign
  <2>2. BC!CallInv' /\ BC!HistoryIsKept /\ BC!Quiet
    <3>1. CASE Board!WalletSigns(c)
      BY <3>1, BoardCalls, BC!Signatures DEF BoardInv
    <3>2. CASE /\ call[c].at = "prompting"
               /\ tx' = [tx EXCEPT ![c].status = "pending"]
               /\ call' = Board!CallWithout([call EXCEPT ![c].at = "confirming"], {Board!ProposeHook})
               /\ watched' = Board!WatchedWithout({Board!ProposeHook})
               /\ UNCHANGED account
      <4>1. /\ call' = BC!CallWithout([call EXCEPT ![c].at = "confirming"], {Board!ProposeHook})
            /\ watched' = BC!WatchedWithout({Board!ProposeHook})
        BY <3>2, BoardCalls
      <4>. QED  BY <3>2, <4>1, BoardCalls, BC!SignatureCloses DEF BoardInv
    <3>. QED  BY <1>5, <3>1, <3>2 DEF Board!Sign
  <2>3. chain' \in [Masjid -> Instances] /\ ChainGrows
    BY <2>1, RestGrows DEF BoardInv
  <2>. QED  BY <1>0, <2>1, <2>2, <2>3, BoardRests, BoardCallSteps DEF BoardInv, BC!Quiet
<1>. QED  BY <1>1, <1>2, <1>3, <1>4, <1>5 DEF Board!CallStep

\* The steps of the page, which press a button or change what is shown.
LEMMA BoardPageStep ==
  ASSUME BoardInv, BC!CallInv', RowsRunOne', BoardTypes', ReadsAreHistory'
  PROVE  BoardInv'
BY DEF BoardInv

\* Steps that read nothing anew keep what was read and its history.
LEMMA BoardPageStays ==
  ASSUME BoardInv, chain' \in [Masjid -> Instances], ChainGrows, UNCHANGED <<seen, rows>>,
         page' \in {"list", "dashboard"}, list' \in {"loading", "failed", "loaded"},
         masjids' \subseteq Masjid, deployed' \subseteq masjids', selected' \in Masjid \cup {Nothing},
         proposing' \in BOOLEAN, troubles' \in 0..MaxEvents
  PROVE  BoardTypes' /\ ReadsAreHistory'
BY HistoryStays DEF BoardInv, BoardTypes

\* Every step of BoardPage keeps the board's invariant.
LEMMA BoardStep ==
  ASSUME BoardInv, Board!Next \/ UNCHANGED <<account, call, tx, watched, boardVars>>
  PROVE  BoardInv'
<1>. USE DEF Board!pageVars, Board!shownVars, Board!chainVars
<1>1. /\ page \in {"list", "dashboard"} /\ list \in {"loading", "failed", "loaded"}
      /\ masjids \subseteq Masjid /\ deployed \subseteq masjids
      /\ selected \in Masjid \cup {Nothing} /\ proposing \in BOOLEAN
      /\ troubles \in 0..MaxEvents
  BY DEF BoardInv, BoardTypes
<1>2. \A condition : Board!TroubleIf(condition) => troubles' \in 0..MaxEvents
  BY <1>1, TroublesBounded DEF Board!TroubleIf
<1>3. ASSUME Board!TogglePropose
      PROVE  BoardInv'
  <2>1. UNCHANGED <<account, tx, page, list, masjids, deployed, selected, seen, rows, chain, troubles>>
        /\ proposing' \in BOOLEAN
        /\ (UNCHANGED <<call, watched>> \/ \E hs : Board!Unmount(hs))
    BY <1>1, <1>3 DEF Board!TogglePropose
  <2>. QED  BY <1>1, <2>1, BoardUnmounts, BoardPageStays, BoardPageStep
<1>4. ASSUME Board!Leave
      PROVE  BoardInv'
  <2>1. /\ UNCHANGED <<account, tx, list, masjids, deployed, seen, rows, chain, troubles>>
        /\ page' = "list" /\ selected' = Nothing /\ proposing' = FALSE
        /\ \E hs : Board!Unmount(hs)
    BY <1>4 DEF Board!Leave
  <2>. QED  BY <1>1, <2>1, BoardUnmounts, BoardPageStays, BoardPageStep
<1>5. ASSUME NEW l \in {"failed", "loaded"}, NEW ms \in Lists, NEW ds \in SUBSET ms,
             Board!LoadMasjids(l, ms, ds)
      PROVE  BoardInv'
  <2>1. /\ UNCHANGED <<account, tx, page, selected, proposing, seen, rows, chain>>
        /\ list' = l /\ masjids' = ms /\ deployed' = ds /\ troubles' \in 0..MaxEvents
        /\ (UNCHANGED <<call, watched>> \/ \E hs : Board!Unmount(hs))
    BY <1>2, <1>5 DEF Board!LoadMasjids, Board!Show
  <2>2. ms \subseteq Masjid
    BY DashboardsAssumption
  <2>. QED  BY <1>1, <2>1, <2>2, BoardUnmounts, BoardPageStays, BoardPageStep
<1>6. ASSUME NEW sel \in Masjid \cup {Nothing}, Board!OpenDashboard(sel)
      PROVE  BoardInv'
  <2>1. /\ UNCHANGED <<account, call, tx, watched, list, masjids, deployed, proposing, seen, rows, chain, troubles>>
        /\ page' = "dashboard" /\ selected' = sel
    BY <1>6 DEF Board!OpenDashboard
  <2>. QED  BY <1>1, <2>1, BoardUnmounts, BoardPageStays, BoardPageStep
<1>7. ASSUME NEW got, Board!ReadInstance(got)
      PROVE  BoardInv'
  <2>1. /\ UNCHANGED <<account, tx, page, list, masjids, deployed, selected, proposing, rows, chain>>
        /\ troubles' \in 0..MaxEvents
        /\ \E hs : Board!Unmount(hs)
    BY <1>2, <1>7 DEF Board!ReadInstance, Board!ShowRows
  <2>2. seen' \in [Masjid -> Reads] /\ ReadsAreHistory'
    BY <1>7, InstanceRead DEF BoardInv
  <2>3. BoardTypes'
    BY <2>1, <2>2 DEF BoardInv, BoardTypes
  <2>. QED  BY <2>1, <2>2, <2>3, BoardUnmounts, BoardPageStep
<1>8. ASSUME NEW got \in SUBSET Board!RequestId, Board!ReadRequests(got)
      PROVE  BoardInv'
  <2>1. /\ UNCHANGED <<account, tx, page, list, masjids, deployed, selected, proposing, seen, chain>>
        /\ troubles' \in 0..MaxEvents
        /\ \E hs : Board!Unmount(hs)
    BY <1>2, <1>8 DEF Board!ReadRequests, Board!ShowRows
  <2>2. rows' \in [Masjid -> Tables] /\ ReadsAreHistory'
    BY <1>8, RequestsRead DEF BoardInv
  <2>3. BoardTypes'
    BY <2>1, <2>2 DEF BoardInv, BoardTypes
  <2>. QED  BY <2>1, <2>2, <2>3, BoardUnmounts, BoardPageStep
<1>9. ASSUME NEW m \in Masjid, Board!Select(m)
      PROVE  BoardInv'
  <2>1. /\ UNCHANGED <<account, tx, page, list, masjids, deployed, proposing, seen, rows, chain, troubles>>
        /\ selected' = m /\ \E hs : Board!Unmount(hs)
    BY <1>9 DEF Board!Select, Board!Show
  <2>. QED  BY <1>1, <2>1, BoardUnmounts, BoardPageStays, BoardPageStep
<1>10. ASSUME NEW m \in Masjid, Board!Outside(m)
       PROVE  BoardInv'
  <2>1. /\ UNCHANGED <<account, call, tx, watched, page, list, masjids, deployed, selected, proposing, seen, rows>>
        /\ troubles' \in 0..MaxEvents
    BY <1>1, <1>10, TroublesBounded DEF Board!Outside
  <2>2. chain' \in [Masjid -> Instances] /\ ChainGrows
    BY <1>10, OthersAct DEF BoardInv
  <2>3. BC!CallInv' /\ BC!HistoryIsKept /\ BC!Quiet
    BY <2>1, BC!CallsRest DEF BoardInv, BC!callVars
  <2>. QED  BY <1>1, <2>1, <2>2, <2>3, BoardRests, BoardPageStays, BoardPageStep
            DEF BoardInv, BC!Quiet
<1>11. ASSUME NEW a \in Account \cup {Nobody}, Board!Wallet(a)
       PROVE  BoardInv'
  <2>1. /\ UNCHANGED <<page, list, masjids, deployed, selected, proposing, seen, rows, chain>>
        /\ troubles' \in 0..MaxEvents
    BY <1>1, <1>11, TroublesBounded DEF Board!Wallet
  <2>2. chain' \in [Masjid -> Instances] /\ ChainGrows
    BY <2>1, RestGrows DEF BoardInv
  <2>3. BC!CallInv' /\ BC!HistoryIsKept /\ BC!Quiet
    BY <1>11, BoardCalls, BC!WalletChanges DEF BoardInv, Board!Wallet
  <2>. QED  BY <1>1, <2>1, <2>2, <2>3, BoardRests, BoardPageStays, BoardPageStep
            DEF BoardInv, BC!Quiet
<1>12. ASSUME NEW c \in Call, Board!Propose(c)
       PROVE  BoardInv'
  <2>1. /\ UNCHANGED <<page, list, masjids, deployed, selected, proposing, seen, rows, chain, troubles>>
        /\ Board!Press(c, Board!ProposeHook, <<Board!Instance, 0>>, "simulating")
        /\ Board!Instance \in Masjid /\ ~Board!Busy(Board!ProposeHook)
    BY <1>12, InstanceIsMasjid DEF Board!Propose, BoardInv
  <2>2. /\ Board!ProposeHook \in Board!BoardHook /\ Board!ProposeHook[1] = "propose"
        /\ \A g \in Board!BoardHook : g[2] = Board!ProposeHook[2] => g = Board!ProposeHook
    BY DEF Board!BoardHook, Board!RowHook, Board!ProposeHook, Board!RequestId
  <2>3. BC!CallInv' /\ RowsRunOne'
    BY <2>1, <2>2, BoardPresses DEF BoardInv
  <2>4. chain' \in [Masjid -> Instances] /\ ChainGrows
    BY <2>1, RestGrows DEF BoardInv
  <2>. QED  BY <1>1, <2>1, <2>3, <2>4, BoardPageStays, BoardPageStep
<1>13. ASSUME NEW c \in Call, NEW b \in {"execute", "cancel"}, NEW id \in Board!RequestId,
              Board!PressRow(c, b, id)
       PROVE  BoardInv'
  <2>1. /\ UNCHANGED <<page, list, masjids, deployed, selected, proposing, seen, rows, chain, troubles>>
        /\ Board!Press(c, <<b, id>>, <<Board!Instance, id>>, "simulating")
        /\ Board!Instance \in Masjid /\ ~Board!RowBusy(id)
    BY <1>13, InstanceIsMasjid DEF Board!PressRow, Board!MayPressRow, BoardInv
  <2>2. /\ <<b, id>> \in Board!BoardHook
        /\ \A g \in Board!BoardHook : g[2] = id => g \in {<<"execute", id>>, <<"cancel", id>>}
    BY DEF Board!BoardHook, Board!RowHook, Board!ProposeHook, Board!RequestId
  <2>3. \A g \in Board!BoardHook : g[2] = <<b, id>>[2] => ~Board!Busy(g)
    BY <2>1, <2>2 DEF Board!RowBusy
  <2>4. BC!CallInv' /\ RowsRunOne'
    BY <2>1, <2>2, <2>3, BoardPresses DEF BoardInv
  <2>5. chain' \in [Masjid -> Instances] /\ ChainGrows
    BY <2>1, RestGrows DEF BoardInv
  <2>. QED  BY <1>1, <2>1, <2>4, <2>5, BoardPageStays, BoardPageStep
<1>14. ASSUME NEW c \in Call,
              Board!CallStep(c) \/ Board!Sign(c) \/ Board!PageRefuse(c, "prompting")
       PROVE  BoardInv'
  BY <1>14, BoardCallStep
<1>15. CASE UNCHANGED <<account, call, tx, watched, boardVars>>
  <2>1. UNCHANGED <<account, call, tx, watched, page, list, masjids, deployed, selected, proposing,
                    seen, rows, chain, troubles>>
    BY <1>15 DEF boardVars
  <2>. QED  BY <1>1, <2>1, BoardUnmounts, BoardPageStays, BoardPageStep
<1>. QED
  BY <1>3, <1>4, <1>5, <1>6, <1>7, <1>8, <1>9, <1>10, <1>11, <1>12, <1>13, <1>14, <1>15,
     BoardCalls DEF Board!Next

\* The invariant is what the properties of Dashboards say of the board.
LEMMA BoardHolds ==
  ASSUME BoardInv
  PROVE  /\ Board!TypeOK /\ Board!RowsAreHistory
         /\ \A c, d \in Call :
              BC!Runs(c) /\ BC!Runs(d) /\ call[c].hook[2] = call[d].hook[2] => c = d
<1>1. Board!TypeOK
  BY BoardCalls DEF BoardInv, BC!CallInv, BoardTypes, Board!TypeOK, Instances, Reads, Tables
<1>2. Board!RowsAreHistory
  <2>1. \A m \in Masjid : Board!RowsOf(m) \subseteq DOMAIN rows[m].got
    BY DEF Board!RowsOf
  <2>. QED  BY <2>1 DEF BoardInv, ReadsAreHistory, MayBecome, Board!RowsAreHistory
<1>. QED  BY <1>1, <1>2 DEF BoardInv, RowsRunOne
----------------------------------------------------------------------------
(* The form for registering *)

\* The form waits for no call but one that its component ran, and says of none that it is
\* registered but of the one it has waited for.
SpeaksOfItsOwn ==
  \A c \in Call :
    watched'[Register!RegisterHook] = c /\ call'[c].at \in {"confirming", "confirmed"} =>
      \/ call'[c].at = "confirming" /\ RC!Runs(c)
      \/ /\ watched[Register!RegisterHook] = c /\ call[c].at \in {"confirming", "confirmed"}
         /\ call'[c].at = "confirmed" => call[c].at = "confirmed" \/ tx[c].status = "mined"

\* Steps that start no call.
LEMMA RegisterRests ==
  ASSUME RegisterInv, RC!CallInv', RC!HistoryIsKept, RC!StartsOnly({}), SpeaksOfItsOwn,
         open' \in BOOLEAN, taken' \subseteq Name
  PROVE  RegisterInv'
<1>1. \A c \in Call :
        /\ call[c].at # "unused" <=> call'[c].at # "unused"
        /\ tx[c].status = "mined" => tx'[c].status = "mined"
        /\ RC!Runs(c)' => RC!Runs(c)
  BY RegisterCalls DEF RC!HistoryIsKept, RC!StartsOnly
<1>2. \A c \in Call : IsLast(c) => IsLast(c)'
  BY <1>1 DEF IsLast
<1>3. SpeaksOfLast'
  BY <1>1, <1>2 DEF RegisterInv, SpeaksOfLast, SpeaksOfItsOwn
<1>4. InOrder'
  BY <1>1 DEF RegisterInv, InOrder
<1>. QED  BY <1>1, <1>3, <1>4 DEF RegisterInv

\* A step that brings no call to its confirmation, and no such call to the hook, has it
\* speak of nothing new.
LEMMA SilentSteps ==
  ASSUME RegisterInv, RC!HistoryIsKept,
         \A c \in Call : call'[c].at = call[c].at \/ call'[c].at \notin {"confirming", "confirmed"},
         \/ UNCHANGED watched
         \/ \E c \in Call : /\ call'[c].at \notin {"confirming", "confirmed"}
                           /\ watched'[Register!RegisterHook] = c
         \/ watched'[Register!RegisterHook] = 0
  PROVE  SpeaksOfItsOwn
<1>1. \A c \in Call : c # 0
  BY DEF Call
<1>. QED  BY <1>1 DEF SpeaksOfItsOwn

\* The form is busy while a call runs.
LEMMA FormIsBusy ==
  ASSUME RegisterInv, NEW c \in Call, RC!Runs(c)
  PROVE  Register!IsBusy
<1>1. call[c].at # "unused" /\ call[c].hook = Register!RegisterHook
  BY RegisterCalls DEF RC!Runs, RC!Running, RegisterInv, RC!CallInv, RC!CallTypeOK
<1>2. call[c].at # "uploading" => RC!Busy(Register!RegisterHook)
  BY <1>1, RC!BusyHook, RegisterCalls DEF RegisterInv
<1>. QED  BY <1>2, RegisterCalls DEF Register!IsBusy, Register!Uploading, RC!Runs

\* A registration is in a block (Mine), and has its name or not.
LEMMA RegisterMines ==
  ASSUME RegisterInv, NEW c \in Call, Register!Mine(c)
  PROVE  RegisterInv'
<1>. DEFINE ok == Register!Accepts(c)
<1>1. ok \in BOOLEAN /\ Register!Included(c, ok) /\ tx[c].status = "pending"
  BY DEF Register!Mine, Register!Accepts
<1>2. /\ taken' = IF ok THEN taken \cup {call[c].target} ELSE taken
      /\ UNCHANGED open
  BY DEF Register!Mine
<1>. HIDE DEF ok
<1>3. RC!CallInv' /\ RC!HistoryIsKept /\ RC!StartsOnly({}) /\ UNCHANGED <<call, watched>>
  BY <1>1, RC!Blocks, RegisterCalls DEF RegisterInv
<1>4. call[c].target \in Name
  BY <1>1, RegisterCalls DEF RegisterInv, RC!CallInv, RC!SentAfterPrompt
<1>5. taken' \subseteq Name /\ open' \in BOOLEAN
  BY <1>2, <1>4 DEF RegisterInv
<1>6. SpeaksOfItsOwn
  BY <1>3, SilentSteps
<1>. QED  BY <1>3, <1>5, <1>6, RegisterRests

\* The form is sent (Submit), which it can be only while no call of it runs and it says
\* nothing of the one before.
LEMMA RegisterSubmits ==
  ASSUME RegisterInv, NEW c \in Call, NEW name \in Name, Register!Submit(c, name)
  PROVE  RegisterInv'
<1>. DEFINE h == Register!RegisterHook
<1>1. /\ Register!Press(c, h, name, "uploading")
      /\ ~Register!IsBusy /\ ~RC!IsSuccess(h)
      /\ UNCHANGED <<open, taken>>
  BY RegisterCalls DEF Register!Submit, Register!MaySubmit
<1>2. /\ RC!CallInv' /\ RC!HistoryIsKept /\ RC!StartsOnly({c})
      /\ call'[c].at = "uploading"
  BY <1>1, RegisterCalls, RC!ButtonPresses DEF RegisterInv
<1>3. \A d \in Call : ~RC!Runs(d)
  BY <1>1, FormIsBusy
<1>4. \A d, e \in Call : RC!Runs(d)' /\ RC!Runs(e)' => d = e
  BY <1>2, <1>3, RegisterCalls DEF RC!StartsOnly
<1>5. /\ call[c].at = "unused" /\ \A d \in 1..(c - 1) : call[d].at # "unused"
      /\ watched' = watched /\ \A d \in Call : d # c => call'[d] = call[d]
  BY <1>1, RegisterCalls DEF RegisterInv, RC!Press, RC!CallInv, RC!CallTypeOK
<1>6. \A d \in Call : call[d].at # "unused" => d < c
  BY <1>5, BoundsAreNat DEF RegisterInv, InOrder, Call, Bounds
<1>7. IsLast(c)'
  <2>1. \A d \in Call : call'[d].at # "unused" => d < c \/ d = c
    BY <1>5, <1>6
  <2>. QED  BY <2>1, BoundsAreNat DEF IsLast, Call, Bounds
<1>8. \A d \in Call : watched'[h] = d => call'[d].at \notin {"confirming", "confirmed"}
  <2>. SUFFICES ASSUME NEW d \in Call, watched[h] = d, d # c
                PROVE  call[d].at \notin {"confirming", "confirmed"}
    BY <1>2, <1>5
  <2>1. d # 0 /\ RC!Stage(h) = call[d].at
    BY DEF Call, RC!Stage
  <2>2. ~RC!Busy(h)
    BY <1>1, RegisterCalls DEF Register!IsBusy
  <2>. QED  BY <1>1, <2>1, <2>2 DEF RC!Busy, RC!IsConfirming, RC!IsSuccess
<1>9. SpeaksOfLast'
  <2>1. \A d \in Call : RC!Runs(d)' => d = c
    BY <1>2, <1>3, RegisterCalls DEF RC!StartsOnly
  <2>. QED  BY <1>7, <1>8, <2>1 DEF SpeaksOfLast
<1>10. InOrder'
  <2>1. \A d \in Call : call'[d].at # "unused" => d <= c
    BY <1>7 DEF IsLast
  <2>2. \A d \in Call : d < c => call'[d].at # "unused"
    BY <1>5, BoundsAreNat DEF Call, Bounds
  <2>. QED  BY <2>1, <2>2, BoundsAreNat DEF InOrder, Call, Bounds
<1>. QED  BY <1>1, <1>2, <1>4, <1>9, <1>10 DEF RegisterInv

\* The invariant holds when app/board/register opens.
LEMMA RegisterStarts ==
  ASSUME Register!Init
  PROVE  RegisterInv
<1>1. RC!CallInv
  BY RegisterCalls, RC!InitCalls DEF Register!Init
<1>2. \A c \in Call : call[c].at = "unused"
  BY DEF Register!Init, Register!CallInit, Register!NoCall, Register!Call, Call
<1>3. SpeaksOfLast /\ InOrder
  BY <1>2 DEF SpeaksOfLast, InOrder, RC!Runs, RC!Running
<1>. QED  BY <1>1, <1>2, <1>3 DEF RegisterInv, Register!Init, RC!Runs, RC!Running

\* Every step of RegisterPage keeps its invariant.
LEMMA RegisterStep ==
  ASSUME RegisterInv, Register!Next \/ UNCHANGED <<account, call, tx, watched, registerVars>>
  PROVE  RegisterInv'
<1>. DEFINE h == Register!RegisterHook
<1>1. RC!CallInv /\ open \in BOOLEAN /\ taken \subseteq Name
  BY DEF RegisterInv
<1>0. /\ call \in [Call -> RC!Calls]
      /\ \A c \in Call, stage \in RC!StageName : RC!At(call[c], stage).at = stage
  BY <1>1, RegisterCalls, RC!TypeParts, RC!AtType DEF RC!CallInv
<1>. DEFINE EndsAt(c, stage) ==
              call'[c].at = stage /\ \A d \in Call : d # c => call'[d] = call[d]
<1>15. ASSUME NEW c \in Call, NEW stage \in RC!StageName,
              call' = [call EXCEPT ![c] = RC!At(@, stage)]
       PROVE  EndsAt(c, stage)
  BY <1>0, <1>15
<1>16. {"prompting", "confirming", "confirmed", "refused", "lost", "over"} \subseteq RC!StageName
  BY RC!Stages
<1>2. CASE Register!Leave
  <2>1. Register!Unmount({h}) /\ UNCHANGED <<account, tx, taken>> /\ open' \in BOOLEAN
    BY <1>2 DEF Register!Leave
  <2>2. RC!CallInv' /\ RC!HistoryIsKept /\ RC!Quiet
    BY <1>1, <2>1, RegisterCalls, RC!Unmountings
  <2>3. watched'[h] = 0
    BY <2>1 DEF Register!Unmount, Register!WatchedWithout
  <2>4. SpeaksOfItsOwn
    BY <2>3 DEF SpeaksOfItsOwn, Call
  <2>. QED  BY <1>1, <2>1, <2>2, <2>4, RegisterRests DEF RC!Quiet
<1>3. ASSUME UNCHANGED <<account, call, tx, watched>>, open' \in BOOLEAN, taken' \subseteq Name
      PROVE  RegisterInv'
  <2>1. RC!CallInv' /\ RC!HistoryIsKept /\ RC!Quiet
    BY <1>1, <1>3, RC!CallsRest DEF RC!callVars
  <2>2. SpeaksOfItsOwn
    BY <1>3, <2>1, SilentSteps
  <2>. QED  BY <1>3, <2>1, <2>2, RegisterRests DEF RC!Quiet
<1>4. ASSUME NEW a \in Account \cup {Nobody}, Register!Wallet(a)
      PROVE  RegisterInv'
  <2>1. /\ Register!ChangeAccount(a) /\ UNCHANGED <<open, taken>>
        /\ UNCHANGED <<call, watched>>
    BY <1>4 DEF Register!Wallet, Register!ChangeAccount
  <2>2. RC!CallInv' /\ RC!HistoryIsKept /\ RC!Quiet
    BY <1>1, <2>1, RegisterCalls, RC!WalletChanges
  <2>3. SpeaksOfItsOwn
    BY <2>1, <2>2, SilentSteps
  <2>. QED  BY <1>1, <2>1, <2>2, <2>3, RegisterRests DEF RC!Quiet
<1>5. ASSUME NEW c \in Call, NEW name \in Name, Register!Submit(c, name)
      PROVE  RegisterInv'
  BY <1>5, RegisterSubmits
<1>6. ASSUME NEW c \in Call, Register!Uploaded(c)
      PROVE  RegisterInv'
  <2>1. /\ call[c].at = "uploading"
        /\ call' = [call EXCEPT ![c] = RC!At(@, "simulating")]
        /\ watched' = IF call[c].live THEN [watched EXCEPT ![h] = c] ELSE watched
        /\ UNCHANGED <<account, tx, open, taken>>
    BY <1>6 DEF Register!Uploaded, Register!At, RC!At, Register!Ended, RC!Ended
  <2>2. call[c].hook = h
    BY <1>1, RegisterCalls DEF RC!CallInv, RC!CallTypeOK
  <2>3. call[c].live => \A d \in Call : RC!Runs(d) => d = c
    BY <2>1 DEF RegisterInv, RC!Runs
  <2>4. RC!CallInv' /\ RC!HistoryIsKept /\ RC!Quiet
    BY <1>1, <2>1, <2>2, <2>3, RegisterCalls, RC!Uploads
  <2>5. /\ call'[c].at = "simulating" /\ \A d \in Call : d # c => call'[d] = call[d]
        /\ UNCHANGED watched \/ watched'[h] = c
    BY <1>1, <2>1, RegisterCalls DEF RC!At, RC!CallInv, RC!CallTypeOK
  <2>6. SpeaksOfItsOwn
    BY <2>4, <2>5, SilentSteps
  <2>. QED  BY <1>1, <2>1, <2>4, <2>6, RegisterRests DEF RC!Quiet
<1>7. ASSUME NEW c \in Call, NEW stage \in {"uploading", "simulating", "prompting"},
             Register!Refuse(c, stage), UNCHANGED <<open, taken>>
      PROVE  RegisterInv'
  <2>1. RC!CallInv' /\ RC!HistoryIsKept /\ RC!Quiet
    BY <1>1, <1>7, RegisterCalls, RC!Refusals
  <2>2. /\ call'[c].at = "refused" /\ \A d \in Call : d # c => call'[d] = call[d]
        /\ UNCHANGED watched
    BY <1>7, <1>15, <1>16, RegisterCalls DEF RC!Refuse
  <2>3. SpeaksOfItsOwn
    BY <2>1, <2>2, SilentSteps
  <2>. QED  BY <1>1, <1>7, <2>1, <2>3, RegisterRests DEF RC!Quiet
<1>8. ASSUME NEW c \in Call, Register!PageSimulate(c)
      PROVE  RegisterInv'
  <2>1. Register!Simulate(c) /\ UNCHANGED <<open, taken>>
    BY <1>8 DEF Register!PageSimulate
  <2>2. RC!CallInv' /\ RC!HistoryIsKept /\ RC!Quiet
    BY <1>1, <2>1, RegisterCalls, RC!Simulations
  <2>3. call[c].hook = h
    BY <1>1, RegisterCalls DEF RC!CallInv, RC!CallTypeOK
  <2>4. /\ \A d \in Call : call'[d].at = call[d].at \/ call'[d].at = "prompting"
        /\ UNCHANGED watched
    <3>1. RC!Simulate(c) /\ Call = RC!Call
      BY <2>1, RegisterCalls
    <3>2. /\ call' = [b \in Call |-> IF b = c THEN RC!At(call[b], "prompting") ELSE call[b]]
          /\ UNCHANGED watched
      BY <2>3, <3>1 DEF RC!Simulate
    <3>. QED  BY <1>0, <1>16, <3>2
  <2>5. SpeaksOfItsOwn
    BY <2>2, <2>4, SilentSteps
  <2>. QED  BY <1>1, <2>1, <2>2, <2>5, RegisterRests DEF RC!Quiet
<1>9. ASSUME NEW c \in Call, Register!Mine(c)
      PROVE  RegisterInv'
  BY <1>9, RegisterMines
<1>10. ASSUME NEW c \in Call, Register!Receipt(c)
       PROVE  RegisterInv'
  <2>1. (RC!Confirmed(c) \/ RC!ReceiptFails(c)) /\ UNCHANGED <<open, taken>>
    BY <1>10, RegisterCalls DEF Register!Receipt
  <2>2. RC!CallInv' /\ RC!HistoryIsKept /\ RC!Quiet
    BY <1>1, <2>1, RC!Confirmations, RegisterCalls
  <2>3. /\ call[c].at = "confirming" /\ UNCHANGED watched
        /\ call'[c].at = "lost" \/ tx[c].status = "mined"
        /\ \A d \in Call : d # c => call'[d] = call[d]
    BY <1>15, <1>16, <2>1 DEF RC!Confirmed, RC!ReceiptFails
  <2>4. SpeaksOfItsOwn
    BY <2>3 DEF SpeaksOfItsOwn
  <2>. QED  BY <1>1, <2>1, <2>2, <2>4, RegisterRests DEF RC!Quiet
<1>11. ASSUME NEW c \in Call, Register!Sign(c)
       PROVE  RegisterInv'
  <2>1. RC!WalletSigns(c) /\ UNCHANGED <<open, taken>>
    BY <1>11, RegisterCalls DEF Register!Sign
  <2>2. RC!CallInv' /\ RC!HistoryIsKept /\ RC!Quiet
    BY <1>1, <2>1, RegisterCalls, RC!Signatures
  <2>3. /\ call[c].at = "prompting" /\ UNCHANGED watched
        /\ call'[c].at = "over" \/ (call'[c].at = "confirming" /\ call[c].live)
        /\ \A d \in Call : d # c => call'[d] = call[d]
    BY <1>15, <1>16, <2>1 DEF RC!WalletSigns, RC!IsWatched
  <2>4. SpeaksOfItsOwn
    BY <2>3 DEF SpeaksOfItsOwn, RC!Runs, RC!Running
  <2>. QED  BY <1>1, <2>1, <2>2, <2>4, RegisterRests DEF RC!Quiet
<1>12. CASE UNCHANGED <<account, call, tx, watched, registerVars>>
  BY <1>1, <1>3, <1>12 DEF registerVars
<1>13. CASE Register!Return
  BY <1>1, <1>3, <1>13 DEF Register!Return
<1>14. ASSUME NEW name \in Name, Register!Outside(name)
       PROVE  RegisterInv'
  BY <1>1, <1>3, <1>14 DEF Register!Outside
<1>. QED
  BY <1>2, <1>4, <1>5, <1>6, <1>7, <1>8, <1>9, <1>10, <1>11, <1>12, <1>13, <1>14, RegisterCalls
     DEF Register!Next, Register!CallStep, Register!UploadFails, Register!PageRefuse
----------------------------------------------------------------------------
(* How many calls have been confirmed bounds how often a list was asked for. *)

\* Confirmed calls stay confirmed, so that their number only grows.
LEMMA ConfirmationsGrow ==
  ASSUME \A c \in Call : call[c].at = "confirmed" => call'[c].at = "confirmed"
  PROVE  /\ Confirmations \in 0..MaxCalls /\ Confirmations' \in 0..MaxCalls
         /\ Confirmations <= Confirmations'
         /\ \A c \in Call : call[c].at # "confirmed" /\ call'[c].at = "confirmed" =>
              Confirmations + 1 <= Confirmations'
<1>. DEFINE before == {c \in Call : call[c].at = "confirmed"}
            after  == {c \in Call : call'[c].at = "confirmed"}
<1>1. IsFiniteSet(Call) /\ Cardinality(Call) = MaxCalls
  BY FS_Interval, BoundsAreNat DEF Call, Bounds
<1>2. before \subseteq Call /\ after \subseteq Call /\ before \subseteq after
  OBVIOUS
<1>3. Confirmations = Cardinality(before) /\ Confirmations' = Cardinality(after)
  BY DEF Confirmations
<1>. HIDE DEF before, after
<1>4. /\ IsFiniteSet(before) /\ IsFiniteSet(after)
      /\ Cardinality(before) \in Nat /\ Cardinality(after) \in Nat
  BY <1>1, <1>2, FS_Subset, FS_CardinalityType
<1>5. /\ Cardinality(before) <= MaxCalls /\ Cardinality(after) <= MaxCalls
      /\ Cardinality(before) <= Cardinality(after)
  BY <1>1, <1>2, <1>4, FS_Subset
<1>6. ASSUME NEW c \in Call, call[c].at # "confirmed", call'[c].at = "confirmed"
      PROVE  Cardinality(before) + 1 <= Cardinality(after)
  <2>1. c \notin before /\ before \cup {c} \subseteq after
    BY <1>2, <1>6 DEF before, after
  <2>2. Cardinality(before \cup {c}) = Cardinality(before) + 1
    BY <1>4, <2>1, FS_AddElement
  <2>. QED  BY <1>4, <2>1, <2>2, FS_Subset
<1>. QED  BY <1>3, <1>4, <1>5, <1>6, BoundsAreNat DEF Bounds
----------------------------------------------------------------------------
(* The verifiers' page *)

\* A vote is in a block (Mine), and counted or not.
LEMMA VerifierMines ==
  ASSUME VerifierInv, NEW c \in Call, Verifier!Mine(c)
  PROVE  VC!CallInv' /\ VC!HistoryIsKept /\ voted' \subseteq Account \X Masjid
         /\ UNCHANGED <<call, watched, tab, loads, loading, listed>>
<1>1. VC!CallInv /\ voted \subseteq Account \X Masjid
  BY DEF VerifierInv
<1>2. UNCHANGED <<tab, loads, loading, listed>>
  BY DEF Verifier!Mine
<1>3. CASE Verifier!Included(c, FALSE) /\ UNCHANGED voted
  <2>1. VC!CallInv' /\ VC!HistoryIsKept /\ UNCHANGED <<call, watched>>
    BY <1>1, <1>3, VC!Blocks, VerifierCalls
  <2>. QED  BY <1>1, <1>2, <1>3, <2>1
<1>4. CASE /\ tx[c].status = "pending" /\ Verifier!Accepts(tx[c].by, call[c].target)
           /\ Verifier!Included(c, TRUE)
           /\ voted' = voted \cup {<<tx[c].by, call[c].target>>}
  <2>1. VC!CallInv' /\ VC!HistoryIsKept /\ UNCHANGED <<call, watched>>
    BY <1>1, <1>4, VC!Blocks, VerifierCalls
  <2>2. tx[c].by # Nobody
    BY <1>4 DEF Verifier!Accepts
  <2>3. tx[c].by \in Account /\ call[c].target \in Masjid
    BY <1>1, <1>4, <2>2, VerifierCalls DEF VC!CallInv, VC!CallTypeOK, VC!SentAfterPrompt
  <2>. QED  BY <1>1, <1>2, <1>4, <2>1, <2>3
<1>. QED  BY <1>3, <1>4 DEF Verifier!Mine

\* Steps after which no more lists are owed than there were, or one confirmed vote more.
LEMMA VerifierSteps ==
  ASSUME VerifierInv, VC!CallInv', VC!HistoryIsKept,
         tab' \in {"queue", "history"}, loads' \in Nat, loading' \in BOOLEAN,
         listed' \subseteq Masjid, voted' \subseteq Account \X Masjid,
         \/ Owed' <= Owed \/ Owed' <= 1
         \/ /\ Owed' <= Owed + 3
            /\ \E c \in Call : call[c].at # "confirmed" /\ call'[c].at = "confirmed"
  PROVE  VerifierInv'
<1>1. \A c \in Call : call[c].at = "confirmed" => call'[c].at = "confirmed"
  BY VerifierCalls DEF VC!HistoryIsKept
<1>2. /\ Confirmations \in Nat /\ Confirmations' \in Nat /\ Confirmations <= Confirmations'
      /\ \A c \in Call : call[c].at # "confirmed" /\ call'[c].at = "confirmed" =>
           Confirmations + 1 <= Confirmations'
  BY <1>1, ConfirmationsGrow, BoundsAreNat DEF Bounds
<1>3. Owed \in Nat /\ Owed' \in Nat /\ Owed <= 1 + 3 * Confirmations
  <2>1. /\ (IF VC!IsSuccess(Verifier!AttestHook) THEN 2 ELSE 0) \in Nat
        /\ (IF VC!IsSuccess(Verifier!AttestHook)' THEN 2 ELSE 0) \in Nat
    OBVIOUS
  <2>2. loads \in Nat /\ loads' \in Nat /\ Owed <= 1 + 3 * Confirmations
    BY DEF VerifierInv
  <2>3. Owed' = loads' + 2 \/ Owed' = loads' + 0
    <3>1. CASE VC!IsSuccess(Verifier!AttestHook)'
      BY <3>1 DEF Owed
    <3>2. CASE ~VC!IsSuccess(Verifier!AttestHook)'
      BY <3>2 DEF Owed
    <3>. QED  BY <3>1, <3>2
  <2>4. Owed = loads + (IF VC!IsSuccess(Verifier!AttestHook) THEN 2 ELSE 0)
    BY DEF Owed
  <2>5. Owed \in Nat
    BY <2>1, <2>2, <2>4
  <2>6. Owed' \in Nat
    BY <2>1, <2>2, <2>3
  <2>. QED  BY <2>2, <2>5, <2>6
<1>4. Owed' <= 1 + 3 * Confirmations'
  <2>. DEFINE o == Owed  p == Owed'  n == Confirmations  k == Confirmations'
  <2>1. /\ o \in Nat /\ p \in Nat /\ n \in Nat /\ k \in Nat /\ o <= 1 + 3 * n /\ n <= k
        /\ p <= o \/ p <= 1 \/ (p <= o + 3 /\ n + 1 <= k)
    BY <1>2, <1>3
  <2>. HIDE DEF o, p, n, k
  <2>2. p <= 1 + 3 * k
    BY <2>1
  <2>. QED  BY <2>2 DEF p, k
<1>. QED  BY <1>4 DEF VerifierInv

\* What is owed, in the two cases; both of a state and of the next.
LEMMA OwedCases ==
  /\ VC!IsSuccess(Verifier!AttestHook) => Owed = loads + 2
  /\ ~VC!IsSuccess(Verifier!AttestHook) => Owed = loads + 0
  /\ VC!IsSuccess(Verifier!AttestHook)' => Owed' = loads' + 2
  /\ ~VC!IsSuccess(Verifier!AttestHook)' => Owed' = loads' + 0
BY DEF Owed

\* Steps of calls that ask for no list, and make no hook report success.
LEMMA VerifierRests ==
  ASSUME VerifierInv, VC!CallInv', VC!HistoryIsKept,
         UNCHANGED <<tab, loads, loading, listed, voted>>,
         VC!IsSuccess(Verifier!AttestHook)' => VC!IsSuccess(Verifier!AttestHook)
  PROVE  VerifierInv'
<1>2. loads \in Nat /\ loads' = loads
  BY DEF VerifierInv
<1>3. Owed' <= Owed
  <2>1. CASE VC!IsSuccess(Verifier!AttestHook)'
    BY <1>2, <2>1, OwedCases
  <2>2. CASE ~VC!IsSuccess(Verifier!AttestHook)'
    BY <1>2, <2>2, OwedCases
  <2>. QED  BY <2>1, <2>2
<1>. QED  BY <1>3, VerifierSteps DEF VerifierInv

\* The invariant holds when app/verifier opens.
LEMMA VerifierStarts ==
  ASSUME Verifier!Init
  PROVE  VerifierInv
<1>1. VC!CallInv
  BY VerifierCalls, VC!InitCalls DEF Verifier!Init
<1>3. Owed = 1 /\ loads \in Nat
  <2>1. ~VC!IsSuccess(Verifier!AttestHook)
    BY DEF Verifier!Init, Verifier!CallInit, VC!IsSuccess, VC!Stage
  <2>. QED  BY <2>1, OwedCases DEF Verifier!Init
<1>4. Confirmations \in Nat
  <2>0. IsFiniteSet(Call)
    BY FS_Interval, BoundsAreNat DEF Call, Bounds
  <2>1. IsFiniteSet({c \in Call : call[c].at = "confirmed"})
    BY <2>0, FS_Subset
  <2>. QED  BY <2>1, FS_CardinalityType DEF Confirmations
<1>. QED  BY <1>1, <1>3, <1>4 DEF VerifierInv, Verifier!Init

\* Every step of VerifierPage keeps its invariant.
LEMMA VerifierStep ==
  ASSUME VerifierInv,
         Verifier!Next \/ UNCHANGED <<account, call, tx, watched, listVars, verifierVars>>
  PROVE  VerifierInv'
<1>. DEFINE h == Verifier!AttestHook
<1>1. /\ VC!CallInv /\ loads \in Nat /\ Owed <= 1 + 3 * Confirmations
      /\ tab \in {"queue", "history"} /\ loading \in BOOLEAN
      /\ listed \subseteq Masjid /\ voted \subseteq Account \X Masjid
  BY DEF VerifierInv
<1>2. CASE UNCHANGED <<account, call, tx, watched, listVars, verifierVars>>
  <2>1. UNCHANGED <<account, call, tx, watched, tab, loads, loading, listed, voted>>
    BY <1>2 DEF listVars, verifierVars
  <2>2. VC!CallInv' /\ VC!HistoryIsKept
    BY <1>1, <2>1, VC!CallsRest DEF VC!callVars
  <2>3. VC!IsSuccess(h)' => VC!IsSuccess(h)
    BY <2>1 DEF VC!IsSuccess, VC!Stage
  <2>. QED  BY <2>1, <2>2, <2>3, VerifierRests
<1>3. ASSUME UNCHANGED <<account, call, tx, watched, tab, voted>>, loads > 0, loads' = loads - 1,
             loading' = FALSE, listed' \subseteq Masjid
      PROVE  VerifierInv'
  <2>1. VC!CallInv' /\ VC!HistoryIsKept
    BY <1>1, <1>3, VC!CallsRest DEF VC!callVars
  <2>2. VC!IsSuccess(h)' <=> VC!IsSuccess(h)
    BY <1>3 DEF VC!IsSuccess, VC!Stage
  <2>3. loads' \in Nat /\ Owed' <= Owed
    <3>1. CASE VC!IsSuccess(h)
      BY <1>1, <1>3, <2>2, <3>1, OwedCases
    <3>2. CASE ~VC!IsSuccess(h)
      BY <1>1, <1>3, <2>2, <3>2, OwedCases
    <3>. QED  BY <3>1, <3>2
  <2>. QED  BY <1>1, <1>3, <2>1, <2>3, VerifierSteps
<1>4. CASE Verifier!Load
  BY <1>1, <1>3, <1>4 DEF Verifier!Load, Verifier!Answer, Verifier!AnswerFails
<1>5. ASSUME NEW t \in {"queue", "history"}, Verifier!OpenTab(t)
      PROVE  VerifierInv'
  <2>1. /\ tab' = t /\ loads' = 1 /\ loading' = TRUE /\ listed' = {}
        /\ Verifier!Unmount({h, Verifier!ManualHook}) /\ UNCHANGED <<account, tx, voted>>
    BY <1>5 DEF Verifier!OpenTab
  <2>2. VC!CallInv' /\ VC!HistoryIsKept
    BY <1>1, <2>1, VerifierCalls, VC!Unmountings
  <2>3. ~VC!IsSuccess(h)'
    BY <2>1 DEF Verifier!Unmount, Verifier!WatchedWithout, VC!IsSuccess, VC!Stage
  <2>4. Owed' <= 1
    BY <2>1, <2>3, OwedCases
  <2>. QED  BY <1>1, <2>1, <2>2, <2>4, VerifierSteps
<1>6. CASE Verifier!AttestAnother
  <2>1. /\ watched' = [watched EXCEPT ![h] = 0] /\ loads' = loads + 2
        /\ loading' \in BOOLEAN /\ VC!IsSuccess(h)
        /\ UNCHANGED <<account, call, tx, tab, listed, voted>>
    BY <1>1, <1>6, VerifierCalls DEF Verifier!AttestAnother, Verifier!Reload
  <2>2. VC!CallInv' /\ VC!HistoryIsKept
    BY <1>1, <2>1, VC!Resets
  <2>3. ~VC!IsSuccess(h)'
    BY <1>1, <2>1 DEF VC!IsSuccess, VC!Stage, VC!CallInv, VC!CallTypeOK
  <2>4. loads' \in Nat /\ Owed' <= Owed
    BY <1>1, <2>1, <2>3, OwedCases
  <2>. QED  BY <1>1, <2>1, <2>2, <2>4, VerifierSteps
<1>7. ASSUME NEW a \in Account \cup {Nobody}, Verifier!Wallet(a)
      PROVE  VerifierInv'
  <2>1. VC!CallInv' /\ VC!HistoryIsKept
    BY <1>1, <1>7, VerifierCalls, VC!WalletChanges DEF Verifier!Wallet
  <2>2. UNCHANGED <<call, watched, tab, loads, loading, listed, voted>>
    BY <1>7 DEF Verifier!Wallet, Verifier!ChangeAccount
  <2>3. VC!IsSuccess(h)' => VC!IsSuccess(h)
    BY <2>2 DEF VC!IsSuccess, VC!Stage
  <2>. QED  BY <2>1, <2>2, <2>3, VerifierRests
<1>8. ASSUME NEW c \in Call, NEW m \in Masjid, NEW g \in {h, Verifier!ManualHook},
             Verifier!Press(c, g, m, "simulating"),
             UNCHANGED <<tab, loads, loading, listed, voted>>
      PROVE  VerifierInv'
  <2>1. VC!CallInv' /\ VC!HistoryIsKept
    BY <1>1, <1>8, VerifierCalls, VC!ButtonPresses
  <2>2. /\ watched' = watched /\ \A d \in Call : d # c => call'[d] = call[d]
        /\ call'[c].at = "simulating"
    BY <1>1, <1>8, VerifierCalls DEF VC!Press, VC!CallInv, VC!CallTypeOK
  <2>3. VC!IsSuccess(h)' => VC!IsSuccess(h)
    BY <1>1, <2>2, VerifierCalls DEF VC!IsSuccess, VC!Stage, VC!CallInv, VC!CallTypeOK
  <2>. QED  BY <1>8, <2>1, <2>3, VerifierRests
<1>9. ASSUME NEW c \in Call, Verifier!PageSimulate(c)
      PROVE  VerifierInv'
  <2>. DEFINE again == VC!IsSuccess(h) /\ call[c].hook = h /\ call[c].live
  <2>1. /\ VC!Simulate(c) /\ loads' = loads + (IF again THEN 1 ELSE 0)
        /\ loading' \in BOOLEAN /\ UNCHANGED <<tab, listed, voted>>
    BY <1>1, <1>9, VerifierCalls DEF Verifier!PageSimulate, Verifier!Reload
  <2>2. VC!CallInv' /\ VC!HistoryIsKept
    BY <1>1, <2>1, VerifierCalls, VC!Simulations
  <2>3. VC!IsSuccess(h)' => VC!IsSuccess(h)
    BY <1>1, <2>1, VerifierCalls, VC!NoneSucceeds
  <2>4. again => ~VC!IsSuccess(h)'
    <3>. SUFFICES ASSUME again
                  PROVE  ~VC!IsSuccess(h)'
      OBVIOUS
    <3>1. watched'[h] = c /\ c # 0
      BY <1>1, <2>1 DEF VC!Simulate, VC!CallInv, VC!CallTypeOK, Call
    <3>2. call'[c].at = "prompting"
      BY <1>1, <2>1, VerifierCalls, VC!PromptingNow
    <3>. QED  BY <3>1, <3>2 DEF VC!IsSuccess, VC!Stage
  <2>5. loads' \in Nat /\ Owed' <= Owed
    <3>1. CASE again
      BY <1>1, <2>1, <2>4, <3>1, OwedCases
    <3>2. CASE ~again
      BY <1>1, <2>1, <2>3, <3>2, OwedCases
    <3>. QED  BY <3>1, <3>2
  <2>. QED  BY <1>1, <2>1, <2>2, <2>5, VerifierSteps
<1>10. ASSUME NEW c \in Call, NEW stage \in {"simulating", "prompting"},
              Verifier!PageRefuse(c, stage)
       PROVE  VerifierInv'
  <2>1. VC!Refuse(c, stage) /\ UNCHANGED <<tab, loads, loading, listed, voted>>
    BY <1>10, VerifierCalls DEF Verifier!PageRefuse
  <2>2. VC!CallInv' /\ VC!HistoryIsKept
    BY <1>1, <2>1, VerifierCalls, VC!Refusals
  <2>3. VC!IsSuccess(h)' => VC!IsSuccess(h)
    BY <1>1, <2>1, VerifierCalls, VC!NoneSucceeds
  <2>. QED  BY <2>1, <2>2, <2>3, VerifierRests
<1>11. ASSUME NEW c \in Call, Verifier!Sign(c)
       PROVE  VerifierInv'
  <2>1. VC!WalletSigns(c) /\ UNCHANGED <<tab, loads, loading, listed, voted>>
    BY <1>11, VerifierCalls DEF Verifier!Sign
  <2>2. VC!CallInv' /\ VC!HistoryIsKept
    BY <1>1, <2>1, VerifierCalls, VC!Signatures
  <2>3. VC!IsSuccess(h)' => VC!IsSuccess(h)
    BY <1>1, <2>1, VerifierCalls, VC!NoneSucceeds
  <2>. QED  BY <2>1, <2>2, <2>3, VerifierRests
<1>12. ASSUME NEW c \in Call, Verifier!Mine(c)
       PROVE  VerifierInv'
  <2>1. /\ VC!CallInv' /\ VC!HistoryIsKept /\ voted' \subseteq Account \X Masjid
        /\ UNCHANGED <<call, watched, tab, loads, loading, listed>>
    BY <1>12, VerifierMines
  <2>2. VC!IsSuccess(h)' <=> VC!IsSuccess(h)
    BY <2>1 DEF VC!IsSuccess, VC!Stage
  <2>3. Owed' <= Owed
    <3>1. CASE VC!IsSuccess(h)
      BY <1>1, <2>1, <2>2, <3>1, OwedCases
    <3>2. CASE ~VC!IsSuccess(h)
      BY <1>1, <2>1, <2>2, <3>2, OwedCases
    <3>. QED  BY <3>1, <3>2
  <2>. QED  BY <1>1, <2>1, <2>3, VerifierSteps
<1>13. ASSUME NEW c \in Call, Verifier!Receipt(c)
       PROVE  VerifierInv'
  <2>1. UNCHANGED <<tab, listed, voted>>
    BY <1>13 DEF Verifier!Receipt
  <2>2. /\ VC!CallInv' /\ VC!HistoryIsKept
        /\ VC!Confirmed(c) => call[c].at # "confirmed" /\ call'[c].at = "confirmed"
    BY <1>1, <1>13, VerifierCalls, VC!Confirmations DEF Verifier!Receipt
  <2>3. CASE VC!Confirmed(c) /\ Verifier!Reload(IF call[c].hook = h THEN 1 ELSE 0)
    <3>1. loads' \in {loads, loads + 1} /\ loading' \in BOOLEAN
      BY <1>1, <2>3 DEF Verifier!Reload
    <3>2. Owed' \in {loads', loads' + 2} /\ Owed \in {loads, loads + 2} /\ loads' \in Nat
      BY <1>1, <3>1, OwedCases
    <3>3. Owed' <= Owed + 3
      <4>. DEFINE o == Owed  p == Owed'  l == loads  k == loads'
      <4>1. l \in Nat /\ k \in {l, l + 1} /\ p \in {k, k + 2} /\ o \in {l, l + 2}
        BY <1>1, <3>1, <3>2
      <4>. HIDE DEF o, p, l, k
      <4>2. p <= o + 3
        BY <4>1
      <4>. QED  BY <4>2 DEF o, p
    <3>. QED  BY <1>1, <2>1, <2>2, <2>3, <3>1, <3>2, <3>3, VerifierSteps
  <2>4. CASE VC!ReceiptFails(c) /\ Verifier!Reload(0)
    <3>1. loads' = loads /\ loading' = loading
      BY <1>1, <2>4 DEF Verifier!Reload
    <3>2. VC!IsSuccess(h)' => VC!IsSuccess(h)
      BY <1>1, <2>4, VerifierCalls, VC!NoneSucceeds
    <3>. QED  BY <2>1, <2>2, <3>1, <3>2, VerifierRests
  <2>. QED  BY <1>13, <2>3, <2>4, VerifierCalls DEF Verifier!Receipt
<1>. QED
  BY <1>2, <1>4, <1>5, <1>6, <1>7, <1>8, <1>9, <1>10, <1>11, <1>12, <1>13, VerifierCalls
     DEF Verifier!Next, Verifier!CallStep, Verifier!Attest, Verifier!ManualAttest
----------------------------------------------------------------------------
(* The admin's page *)

\* What is due, in the two cases; both of a state and of the next.
LEMMA DueCases ==
  /\ saving = Nothing => Due = loads + 0
  /\ saving # Nothing => Due = loads + 1
  /\ saving' = Nothing => Due' = loads' + 0
  /\ saving' # Nothing => Due' = loads' + 1
BY DEF Due

\* Steps after which no more lists are due than there were, or one label or one confirmed
\* call more.
LEMMA AdminSteps ==
  ASSUME AdminInv, AC!CallInv', AC!HistoryIsKept,
         loads' \in Nat, loading' \in BOOLEAN, failed' \in BOOLEAN,
         verifiers' \subseteq Person, saving' \in Person \cup {Nothing},
         labels' \in 0..MaxLabels, registered' \subseteq Person, labels <= labels',
         \/ Due' <= Due
         \/ Due' <= Due + 1 /\ labels' = labels + 1
         \/ /\ Due' <= Due + 2
            /\ \E c \in Call : call[c].at # "confirmed" /\ call'[c].at = "confirmed"
  PROVE  AdminInv'
<1>1. \A c \in Call : call[c].at = "confirmed" => call'[c].at = "confirmed"
  BY AdminCalls DEF AC!HistoryIsKept
<1>2. /\ Confirmations \in Nat /\ Confirmations' \in Nat /\ Confirmations <= Confirmations'
      /\ \A c \in Call : call[c].at # "confirmed" /\ call'[c].at = "confirmed" =>
           Confirmations + 1 <= Confirmations'
  BY <1>1, ConfirmationsGrow, BoundsAreNat DEF Bounds
<1>3. /\ loads \in Nat /\ Due <= 1 + 2 * Confirmations + labels
      /\ labels \in Nat /\ labels' \in Nat
  <2>1. MaxLabels \in Nat
    BY DashboardsAssumption
  <2>. QED  BY <2>1 DEF AdminInv
<1>4. Due \in Nat /\ Due' \in Nat
  BY <1>3, DueCases
<1>5. Due' <= 1 + 2 * Confirmations' + labels'
  <2>. DEFINE o == Due  p == Due'  n == Confirmations  k == Confirmations'  l == labels  m == labels'
  <2>1. /\ o \in Nat /\ p \in Nat /\ n \in Nat /\ k \in Nat /\ l \in Nat /\ m \in Nat
        /\ o <= 1 + 2 * n + l /\ n <= k /\ l <= m
        /\ p <= o \/ (p <= o + 1 /\ m = l + 1) \/ (p <= o + 2 /\ n + 1 <= k)
    BY <1>2, <1>3, <1>4
  <2>. HIDE DEF o, p, n, k, l, m
  <2>2. p <= 1 + 2 * k + m
    BY <2>1
  <2>. QED  BY <2>2 DEF p, k, m
<1>. QED  BY <1>5 DEF AdminInv

\* Steps of calls that ask for no list.
LEMMA AdminRests ==
  ASSUME AdminInv, AC!CallInv', AC!HistoryIsKept,
         UNCHANGED <<loads, loading, failed, verifiers, saving, labels>>,
         registered' \subseteq Person
  PROVE  AdminInv'
<1>1. Due' = Due
  BY DEF Due
<1>2. Due \in Nat /\ labels \in Nat
  BY DueCases, DashboardsAssumption DEF AdminInv
<1>3. Due' <= Due /\ labels <= labels'
  BY <1>1, <1>2
<1>. QED  BY <1>3, AdminSteps DEF AdminInv

\* Steps that unmount components, and ask for a list or answer one.
LEMMA AdminUnmounts ==
  ASSUME AdminInv, NEW hs, Admin!Unmount(hs), UNCHANGED <<account, tx, labels, registered>>,
         loads' \in Nat, loading' \in BOOLEAN, failed' \in BOOLEAN,
         verifiers' \subseteq Person, saving' \in Person \cup {Nothing}, Due' <= Due
  PROVE  AdminInv'
<1>1. AC!CallInv' /\ AC!HistoryIsKept
  BY AdminCalls, AC!Unmountings DEF AdminInv
<1>2. labels \in Nat
  BY DashboardsAssumption DEF AdminInv
<1>. QED  BY <1>1, <1>2, AdminSteps DEF AdminInv

\* The invariant holds when app/admin opens.
LEMMA AdminStarts ==
  ASSUME Admin!Init
  PROVE  AdminInv
<1>1. AC!CallInv
  <2>1. Admin!AdminHook # {}
    BY DEF Admin!AdminHook
  <2>. QED  BY <2>1, AdminCalls, AC!InitCalls DEF Admin!Init
<1>2. Due = 1 /\ loads \in Nat
  BY DueCases DEF Admin!Init
<1>3. Confirmations \in Nat
  <2>1. IsFiniteSet(Call)
    BY FS_Interval, BoundsAreNat DEF Call, Bounds
  <2>2. IsFiniteSet({c \in Call : call[c].at = "confirmed"})
    BY <2>1, FS_Subset
  <2>. QED  BY <2>2, FS_CardinalityType DEF Confirmations
<1>4. MaxLabels \in Nat
  BY DashboardsAssumption
<1>5. Due <= 1 + 2 * Confirmations + labels
  <2>1. labels = 0
    BY DEF Admin!Init
  <2>. QED  BY <1>2, <1>3, <2>1
<1>6. /\ loading = TRUE /\ failed = FALSE /\ verifiers = {} /\ saving = Nothing /\ labels = 0
      /\ registered = {}
  BY DEF Admin!Init
<1>7. labels \in 0..MaxLabels
  BY <1>4, <1>6
<1>. QED  BY <1>1, <1>2, <1>5, <1>6, <1>7 DEF AdminInv

\* Every step of AdminPage keeps its invariant.
LEMMA AdminStep ==
  ASSUME AdminInv,
         Admin!Next \/ UNCHANGED <<account, call, tx, watched, listVars, adminVars>>
  PROVE  AdminInv'
<1>1. /\ AC!CallInv /\ loads \in Nat /\ Due <= 1 + 2 * Confirmations + labels
      /\ loading \in BOOLEAN /\ failed \in BOOLEAN
      /\ verifiers \subseteq Person /\ saving \in Person \cup {Nothing}
      /\ labels \in Nat /\ labels <= MaxLabels /\ registered \subseteq Person
  BY DashboardsAssumption DEF AdminInv
<1>2. CASE UNCHANGED <<account, call, tx, watched, listVars, adminVars>>
  <2>1. UNCHANGED <<account, call, tx, watched, loads, loading, failed, verifiers, saving,
                    labels, registered>>
    BY <1>2 DEF listVars, adminVars
  <2>2. AC!CallInv' /\ AC!HistoryIsKept
    BY <1>1, <2>1, AC!CallsRest DEF AC!callVars
  <2>. QED  BY <1>1, <2>1, <2>2, AdminRests
<1>3. ASSUME NEW vs \in SUBSET Person, Admin!Answer(vs)
      PROVE  AdminInv'
  <2>1. /\ loads > 0 /\ loads' = loads - 1 /\ loading' = FALSE /\ verifiers' = vs
        /\ Admin!Unmount({"remove"} \X (verifiers \ vs))
        /\ UNCHANGED <<account, tx, failed, saving, labels, registered>>
    BY <1>3 DEF Admin!Answer
  <2>2. loads' \in Nat /\ Due' <= Due
    BY <1>1, <2>1, DueCases
  <2>. QED  BY <1>1, <2>1, <2>2, AdminUnmounts
<1>4. CASE Admin!AnswerFails
  <2>1. /\ loads > 0 /\ loads' = loads - 1 /\ loading' = FALSE /\ failed' = TRUE
        /\ Admin!Unmount(Admin!AdminHook)
        /\ UNCHANGED <<account, tx, verifiers, saving, labels, registered>>
    BY <1>4 DEF Admin!AnswerFails
  <2>2. loads' \in Nat /\ Due' <= Due
    BY <1>1, <2>1, DueCases
  <2>. QED  BY <1>1, <2>1, <2>2, AdminUnmounts
<1>5. CASE Admin!LabelSaved
  <2>1. /\ saving # Nothing /\ saving' = Nothing /\ loads' = loads + 1 /\ loading' = TRUE
        /\ Admin!Unmount(Admin!AdminHook)
        /\ UNCHANGED <<account, tx, failed, verifiers, labels, registered>>
    BY <1>5 DEF Admin!LabelSaved, Admin!Refresh
  <2>2. loads' \in Nat /\ Due' <= Due
    BY <1>1, <2>1, DueCases
  <2>. QED  BY <1>1, <2>1, <2>2, AdminUnmounts
<1>6. CASE Admin!LabelRefused
  <2>1. /\ saving # Nothing /\ saving' = Nothing
        /\ UNCHANGED <<account, call, tx, watched, loads, loading, failed, verifiers, labels,
                       registered>>
    BY <1>6 DEF Admin!LabelRefused
  <2>2. AC!CallInv' /\ AC!HistoryIsKept
    BY <1>1, <2>1, AC!CallsRest DEF AC!callVars
  <2>3. Due' <= Due
    BY <1>1, <2>1, DueCases
  <2>4. labels' \in 0..MaxLabels /\ labels <= labels'
    BY <1>1, <2>1, DashboardsAssumption
  <2>. QED  BY <1>1, <2>1, <2>2, <2>3, <2>4, AdminSteps
<1>7. ASSUME NEW v \in Person, Admin!SaveLabel(v)
      PROVE  AdminInv'
  <2>1. /\ saving = Nothing /\ saving' = v /\ labels < MaxLabels /\ labels' = labels + 1
        /\ UNCHANGED <<account, call, tx, watched, loads, loading, failed, verifiers,
                       registered>>
    BY <1>7 DEF Admin!SaveLabel
  <2>2. AC!CallInv' /\ AC!HistoryIsKept
    BY <1>1, <2>1, AC!CallsRest DEF AC!callVars
  <2>3. Due' <= Due + 1
    BY <1>1, <2>1, DueCases
  <2>4. labels' \in 0..MaxLabels /\ labels <= labels'
    BY <1>1, <2>1, DashboardsAssumption
  <2>. QED  BY <1>1, <2>1, <2>2, <2>3, <2>4, AdminSteps
<1>8. ASSUME NEW a \in Account \cup {Nobody}, Admin!Wallet(a)
      PROVE  AdminInv'
  BY <1>1, <1>8, AdminCalls, AC!WalletChanges, AdminRests DEF Admin!Wallet
<1>9. ASSUME NEW c \in Call, NEW v \in Person, NEW h \in Admin!AdminHook,
             Admin!Press(c, h, v, "simulating"),
             UNCHANGED <<loads, loading, failed, verifiers, saving, labels, registered>>
      PROVE  AdminInv'
  BY <1>1, <1>9, AdminCalls, AC!ButtonPresses, AdminRests
<1>10. ASSUME NEW c \in Call, Admin!PageSimulate(c)
       PROVE  AdminInv'
  BY <1>1, <1>10, AdminCalls, AC!Simulations, AdminRests DEF Admin!PageSimulate
<1>11. ASSUME NEW c \in Call, NEW stage \in {"simulating", "prompting"},
              Admin!PageRefuse(c, stage)
       PROVE  AdminInv'
  BY <1>1, <1>11, AdminCalls, AC!Refusals, AdminRests DEF Admin!PageRefuse
<1>12. ASSUME NEW c \in Call, Admin!Sign(c)
       PROVE  AdminInv'
  BY <1>1, <1>12, AdminCalls, AC!Signatures, AdminRests DEF Admin!Sign
<1>13. ASSUME NEW c \in Call, Admin!Mine(c)
       PROVE  AdminInv'
  <2>1. UNCHANGED <<loads, loading, failed, verifiers, saving, labels>>
    BY <1>13 DEF Admin!Mine
  <2>2. AC!CallInv' /\ AC!HistoryIsKept
    BY <1>1, <1>13, AdminCalls, AC!Blocks DEF Admin!Mine
  <2>3. tx[c].status = "pending" => call[c].target \in Person
    BY <1>1, AdminCalls DEF AC!CallInv, AC!SentAfterPrompt
  <2>4. registered' \subseteq Person
    BY <1>1, <1>13, <2>3 DEF Admin!Mine
  <2>. QED  BY <2>1, <2>2, <2>4, AdminRests
<1>14. ASSUME NEW c \in Call, Admin!Receipt(c)
       PROVE  AdminInv'
  <2>1. UNCHANGED <<failed, verifiers, saving, labels, registered>>
    BY <1>14 DEF Admin!Receipt
  <2>2. CASE Admin!ReceiptFails(c) /\ UNCHANGED <<loads, loading>>
    <3>1. AC!CallInv' /\ AC!HistoryIsKept
      BY <1>1, <2>2, AdminCalls, AC!Confirmations
    <3>. QED  BY <1>1, <2>1, <2>2, <3>1, AdminRests
  <2>3. CASE /\ call[c].at = "confirming" /\ loads' = loads + 2 /\ loading' = TRUE
             /\ call' = Admin!CallWithout([call EXCEPT ![c] = Admin!At(@, "confirmed")],
                                          Admin!AdminHook)
             /\ watched' = Admin!WatchedWithout(Admin!AdminHook)
             /\ UNCHANGED <<account, tx>>
    <3>1. Admin!At(call[c], "confirmed") = AC!At(call[c], "confirmed")
      BY DEF Admin!At, AC!At, Admin!Ended, AC!Ended
    <3>2. /\ call' = AC!CallWithout([call EXCEPT ![c] = AC!At(@, "confirmed")], Admin!AdminHook)
          /\ watched' = AC!WatchedWithout(Admin!AdminHook)
      BY <2>3, <3>1, AdminCalls
    <3>3. AC!CallInv' /\ AC!HistoryIsKept /\ call'[c].at = "confirmed"
      BY <1>1, <2>3, <3>2, AdminCalls, AC!SuccessUnmounts
    <3>4. loads' \in Nat /\ Due' <= Due + 2
      BY <1>1, <2>1, <2>3, DueCases
    <3>5. call[c].at # "confirmed"
      BY <2>3
    <3>6. labels' \in 0..MaxLabels /\ labels <= labels'
      BY <1>1, <2>1, DashboardsAssumption
    <3>. QED  BY <1>1, <2>1, <2>3, <3>3, <3>4, <3>5, <3>6, AdminSteps
  <2>. QED  BY <1>14, <2>2, <2>3 DEF Admin!Receipt, Admin!Refresh
<1>15. /\ Admin!AddHook \in Admin!AdminHook
       /\ \A v \in Person : <<"remove", v>> \in Admin!AdminHook
  BY DEF Admin!AdminHook, Admin!RemoveHook
<1>. QED
  BY <1>2, <1>3, <1>4, <1>5, <1>6, <1>7, <1>8, <1>9, <1>10, <1>11, <1>12, <1>13, <1>14, <1>15,
     AdminCalls
     DEF Admin!Next, Admin!Load, Admin!CallStep, Admin!PressAdd, Admin!PressRemove
----------------------------------------------------------------------------
(* What the properties of Dashboards say of each page *)

\* No more calls are confirmed than there are.
LEMMA ConfirmationsBounded == Confirmations \in 0..MaxCalls
<1>. DEFINE before == {c \in Call : call[c].at = "confirmed"}
<1>1. IsFiniteSet(Call) /\ Cardinality(Call) = MaxCalls
  BY FS_Interval, BoundsAreNat DEF Call, Bounds
<1>2. before \subseteq Call
  OBVIOUS
<1>3. Cardinality(before) \in Nat /\ Cardinality(before) <= MaxCalls
  BY <1>1, <1>2, FS_Subset, FS_CardinalityType
<1>. QED  BY <1>3, BoundsAreNat DEF Confirmations, Bounds

\* The invariant is what the properties of Dashboards say of the form for registering.
LEMMA RegisterHolds ==
  ASSUME RegisterInv
  PROVE  /\ Register!TypeOK
         /\ \A c, d \in Call : RC!Runs(c) /\ RC!Runs(d) => c = d
         /\ RC!IsSuccess(Register!RegisterHook) =>
              LET c == watched[Register!RegisterHook] IN
              tx[c].status = "mined" /\ IsLast(c)
<1>1. /\ Register!TypeOK
      /\ \A c, d \in Call : RC!Runs(c) /\ RC!Runs(d) => c = d
  BY RegisterCalls DEF RegisterInv, RC!CallInv, Register!TypeOK
<1>2. ASSUME RC!IsSuccess(Register!RegisterHook)
      PROVE  LET c == watched[Register!RegisterHook] IN tx[c].status = "mined" /\ IsLast(c)
  <2>1. watched[Register!RegisterHook] \in Call \cup {0}
    BY RegisterCalls DEF RegisterInv, RC!CallInv, RC!CallTypeOK
  <2>2. /\ watched[Register!RegisterHook] # 0
        /\ call[watched[Register!RegisterHook]].at = "confirmed"
    BY <1>2 DEF RC!IsSuccess, RC!Stage
  <2>. QED  BY <2>1, <2>2 DEF RegisterInv, SpeaksOfLast
<1>. QED  BY <1>1, <1>2

\* A list that is awaited was asked for when the page opened or by a vote; there are no
\* more votes than calls.
LEMMA VerifierHolds ==
  ASSUME VerifierInv
  PROVE  Verifier!TypeOK
<1>1. loads <= Owed
  BY OwedCases DEF VerifierInv
<1>2. loads \in 0..(1 + 3 * MaxCalls)
  <2>. DEFINE l == loads  o == Owed  n == Confirmations  k == MaxCalls
  <2>1. o = l + 2 \/ o = l + 0
    BY OwedCases
  <2>2. l \in Nat /\ o <= 1 + 3 * n /\ n \in 0..k /\ k \in Nat
    BY ConfirmationsBounded, BoundsAreNat DEF VerifierInv, Bounds
  <2>. HIDE DEF l, o, n, k
  <2>3. l \in 0..(1 + 3 * k)
    BY <2>1, <2>2
  <2>. QED  BY <2>3 DEF l, k
<1>. QED  BY <1>2, VerifierCalls DEF VerifierInv, VC!CallInv, Verifier!TypeOK

\* A list that is awaited was asked for when the page opened, by a call or by a label.
LEMMA AdminHolds ==
  ASSUME AdminInv
  PROVE  Admin!TypeOK
<1>1. loads \in 0..(1 + 2 * MaxCalls + MaxLabels)
  <2>. DEFINE l == loads  o == Due  n == Confirmations  k == MaxCalls  m == labels  b == MaxLabels
  <2>1. o = l + 1 \/ o = l + 0
    BY DueCases
  <2>2. /\ l \in Nat /\ o <= 1 + 2 * n + m /\ n \in 0..k /\ k \in Nat
        /\ m \in 0..b /\ b \in Nat
    BY ConfirmationsBounded, DashboardsAssumption DEF AdminInv
  <2>. HIDE DEF l, o, n, k, m, b
  <2>3. l \in 0..(1 + 2 * k + b)
    BY <2>1, <2>2
  <2>. QED  BY <2>3 DEF l, k, b
<1>. QED  BY <1>1, AdminCalls DEF AdminInv, AC!CallInv, Admin!TypeOK
----------------------------------------------------------------------------
(* The page that is open *)

\* Whichever page opens starts with its invariant.
LEMMA StartsInvariant ==
  ASSUME Init
  PROVE  IInv
BY BoardStarts, RegisterStarts, VerifierStarts, AdminStarts DEF Init, IInv

\* Only the page that is open takes steps, and the invariant is about no other.
LEMMA StepKeepsInvariant ==
  ASSUME IInv, [Next]_vars
  PROVE  IInv'
<1>1. CASE OnBoard /\ Board!Next
  <2>1. site = "board" /\ site' = "board"
    BY <1>1 DEF OnBoard
  <2>. QED  BY <1>1, <2>1, BoardStep DEF IInv
<1>2. CASE OnRegister /\ Register!Next
  <2>1. site = "register" /\ site' = "register"
    BY <1>2 DEF OnRegister
  <2>. QED  BY <1>2, <2>1, RegisterStep DEF IInv
<1>3. CASE OnVerifier /\ Verifier!Next
  <2>1. site = "verifier" /\ site' = "verifier"
    BY <1>3 DEF OnVerifier
  <2>. QED  BY <1>3, <2>1, VerifierStep DEF IInv
<1>4. CASE OnAdmin /\ Admin!Next
  <2>1. site = "admin" /\ site' = "admin"
    BY <1>4 DEF OnAdmin
  <2>. QED  BY <1>4, <2>1, AdminStep DEF IInv
<1>5. CASE UNCHANGED vars
  <2>1. UNCHANGED <<site, account, call, tx, watched, boardVars, registerVars, listVars,
                    verifierVars, adminVars>>
    BY <1>5 DEF vars
  <2>2. CASE site = "board" /\ BoardInv
    BY <2>1, <2>2, BoardStep DEF IInv
  <2>3. CASE site = "register" /\ RegisterInv
    BY <2>1, <2>3, RegisterStep DEF IInv
  <2>4. CASE site = "verifier" /\ VerifierInv
    BY <2>1, <2>4, VerifierStep DEF IInv
  <2>5. CASE site = "admin" /\ AdminInv
    BY <2>1, <2>5, AdminStep DEF IInv
  <2>. QED  BY <2>2, <2>3, <2>4, <2>5 DEF IInv
<1>. QED  BY <1>1, <1>2, <1>3, <1>4, <1>5 DEF Next

\* Whichever page is open keeps its invariant, however its calls, its wallet and the
\* answers it awaits are interleaved.
THEOREM Invariant == Spec => []IInv
<1>1. Init => IInv
  BY StartsInvariant
<1>2. IInv /\ [Next]_vars => IInv'
  BY StepKeepsInvariant
<1>. QED  BY <1>1, <1>2, PTL DEF Spec

\* The pages' state has its types; above all, app/verifier and app/admin never await more
\* answers for their lists than votes, calls and labels can have asked for.
THEOREM Typing == Spec => []TypeOK
<1>1. IInv => TypeOK
  BY BoardHolds, RegisterHolds, VerifierHolds, AdminHolds DEF IInv, TypeOK
<1>. QED  BY <1>1, Invariant, PTL

\* board/ui.tsx shows only what has happened to a request, however old the read and
\* whichever of the reads behind it failed.
THEOREM RowsShowHistory == Spec => []RowsAreHistory
<1>1. IInv => RowsAreHistory
  BY BoardHolds DEF IInv, RowsAreHistory
<1>. QED  BY <1>1, Invariant, PTL

\* A row of the board and the form for registering run one call at a time, as long as
\* they are mounted.
THEOREM ComponentsRunOne == Spec => []OneCallPerComponent
<1>1. ASSUME IInv, NEW c \in Call, NEW d \in Call, site \in {"board", "register"},
             call[c].live, call[d].live, call[c].hook[2] = call[d].hook[2],
             {call[c].at, call[d].at} \subseteq {"uploading", "simulating", "prompting", "confirming"}
      PROVE  c = d
  <2>1. CASE site = "board"
    BY <1>1, <2>1, BoardHolds DEF IInv, BC!Runs, BC!Running
  <2>2. CASE site = "register"
    BY <1>1, <2>2, RegisterHolds DEF IInv, RC!Runs, RC!Running
  <2>. QED  BY <1>1, <2>1, <2>2
<1>2. IInv => OneCallPerComponent
  BY <1>1 DEF OneCallPerComponent, Call
<1>. QED  BY <1>2, Invariant, PTL

\* What board/register says is registered is what was asked for last and is in a block,
\* whatever uploads of forms that were left come to an end meanwhile.
THEOREM FormSpeaksOfLast == Spec => []SuccessIsOfLastPress
<1>1. IInv => SuccessIsOfLastPress
  BY RegisterHolds, RegisterCalls DEF IInv, SuccessIsOfLastPress, IsLast, Call
<1>. QED  BY <1>1, Invariant, PTL
=============================================================================
