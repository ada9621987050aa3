--------------------------- MODULE PageCallsProofs ---------------------------
(***************************************************************************)
(* What every page keeps of its calls, whatever hooks it has: proved once, *)
(* and instantiated for each page by DashboardsProofs.                     *)
(***************************************************************************)
EXTENDS PageCalls, TLAPS

StageName == {"unused", "uploading"} \cup Running \cup Ended
Calls == [at : StageName, hook : Hook, target : Target \cup {Nothing}, live : BOOLEAN]
Txs == [status : {"none", "pending", "mined", "reverted"}, by : Account \cup {Nobody}]

\* A transaction has been sent only by a call that was past the wallet's prompt, a call is
\* about something, and what nobody pressed belongs to no component.
SentAfterPrompt ==
  \A c \in Call :
    /\ tx[c].status # "none" => call[c].at \in {"confirming", "confirmed", "lost", "over"}
    /\ call[c].at = "unused" => ~call[c].live
    /\ call[c].at # "unused" => call[c].target \in Target

\* The call that a mounted component runs by a hook that simulates inside is the one the
\* hook's state is about.
InsideIsWatched ==
  \A c \in Call :
    call[c].live /\ call[c].at \in Running /\ call[c].hook \in Inside =>
      watched[call[c].hook] = c

CallInv == CallTypeOK /\ SentAfterPrompt /\ InsideIsWatched

\* A mounted component runs the call.
Runs(c) == call[c].live /\ call[c].at \in {"uploading"} \cup Running

\* A step leaves alone what a call is about, who has sent it and what has become of it.
HistoryIsKept ==
  \A c \in Call :
    /\ call[c].at # "unused" =>
         /\ call'[c].hook = call[c].hook /\ call'[c].target = call[c].target
         /\ call'[c].at # "unused"
    /\ tx[c].status # "none" => tx'[c].by = tx[c].by
    /\ tx[c].status = "mined" => tx'[c].status = "mined"
    /\ call[c].at = "confirmed" => call'[c].at = "confirmed"

\* A step that puts no transaction into a block.
NothingMined == \A c \in Call : tx'[c].status = "mined" => tx[c].status = "mined"

\* A step that starts no call but those in cs.
StartsOnly(cs) ==
  \A c \in Call \ cs :
    /\ Runs(c)' => Runs(c) /\ call'[c].hook = call[c].hook
    /\ call'[c].at = "uploading" => call[c].at = "uploading"
    /\ call'[c].at # "unused" => call[c].at # "unused"

Quiet == NothingMined /\ StartsOnly({})
----------------------------------------------------------------------------
\* CallTypeOK of PageCalls, in the names used below.
LEMMA TypeParts ==
  CallTypeOK <=> /\ account \in Account \cup {Nobody}
                 /\ call \in [Call -> Calls]
                 /\ tx \in [Call -> Txs]
                 /\ watched \in [Hook -> Call \cup {0}]
BY DEF CallTypeOK, Calls, Txs, StageName

\* At gives a call its stage and nothing else, and lets a component go of one that ended.
LEMMA AtType ==
  ASSUME NEW k \in Calls, NEW stage \in StageName
  PROVE  /\ At(k, stage) \in Calls
         /\ At(k, stage).at = stage
         /\ At(k, stage).hook = k.hook /\ At(k, stage).target = k.target
         /\ (At(k, stage).live <=> k.live /\ stage \notin Ended)
<1>. DEFINE l == k.live /\ stage \notin Ended
<1>1. l \in BOOLEAN
  OBVIOUS
<1>2. At(k, stage) = [k EXCEPT !.at = stage, !.live = l]
  BY DEF At
<1>. HIDE DEF l
<1>3. [k EXCEPT !.at = stage, !.live = l] \in Calls
  BY <1>1 DEF Calls
<1>. QED  BY <1>1, <1>2, <1>3 DEF Calls, l

\* The stages a call goes through, one by one.
LEMMA Stages == StageName = {"unused", "uploading", "simulating", "prompting", "confirming",
                             "confirmed", "refused", "lost", "over"}
BY DEF StageName, Running, Ended

\* Before any press, on a page that has hooks at all.
LEMMA InitCalls ==
  ASSUME Hook # {}, CallInit
  PROVE  CallInv
<1>1. NoCall(CHOOSE h \in Hook : TRUE) \in Calls /\ NoTx \in Txs
  BY DEF NoCall, NoTx, Calls, Txs, StageName
<1>2. CallTypeOK
  BY <1>1, TypeParts DEF CallInit
<1>3. SentAfterPrompt /\ InsideIsWatched
  BY DEF SentAfterPrompt, InsideIsWatched, CallInit, NoCall, NoTx, Running
<1>. QED  BY <1>2, <1>3 DEF CallInv

\* The wallet turns to another account (ChangeAccount): no call is touched.
LEMMA WalletChanges ==
  ASSUME CallInv, NEW a \in Account \cup {Nobody}, ChangeAccount(a)
  PROVE  CallInv' /\ HistoryIsKept /\ Quiet
<1>1. CallInv'
  BY DEF CallInv, ChangeAccount, CallTypeOK, SentAfterPrompt, InsideIsWatched
<1>2. HistoryIsKept /\ Quiet
  BY DEF ChangeAccount, HistoryIsKept, Quiet, NothingMined, StartsOnly, Runs
<1>. QED  BY <1>1, <1>2

\* A call ends.
LEMMA CallEnds ==
  ASSUME CallInv, NEW c \in Call, NEW stage \in Ended,
         call[c].at \in {"uploading"} \cup Running,
         tx[c].status # "none" => stage \in {"confirmed", "lost", "over"},
         call' = [call EXCEPT ![c] = At(@, stage)],
         UNCHANGED <<account, tx, watched>>
  PROVE  CallInv' /\ HistoryIsKept /\ Quiet /\ call'[c].at = stage
<1>1. call \in [Call -> Calls] /\ tx \in [Call -> Txs]
  BY TypeParts DEF CallInv
<1>2. /\ At(call[c], stage) \in Calls
      /\ At(call[c], stage).at = stage /\ At(call[c], stage).hook = call[c].hook
      /\ At(call[c], stage).target = call[c].target
      /\ (At(call[c], stage).live <=> call[c].live /\ stage \notin Ended)
  BY <1>1, AtType DEF StageName
<1>3. call' \in [Call -> Calls]
  BY <1>1, <1>2
<1>4. CallTypeOK'
  BY <1>3 DEF CallInv, CallTypeOK, Calls, StageName
<1>5. SentAfterPrompt'
  <2>1. \A d \in Call : d # c => call'[d] = call[d] /\ tx'[d] = tx[d]
    BY <1>1
  <2>2. /\ call'[c].at = stage /\ stage # "unused" /\ ~call'[c].live /\ tx'[c] = tx[c]
        /\ call'[c].target = call[c].target /\ call[c].at # "unused"
    BY <1>1, <1>2 DEF Ended, Running
  <2>. QED  BY <2>1, <2>2 DEF CallInv, SentAfterPrompt
<1>6. InsideIsWatched'
  BY <1>1, <1>2 DEF CallInv, InsideIsWatched, Ended, Call, Running
<1>7. HistoryIsKept /\ Quiet
  <2>1. \A d \in Call : d # c => call'[d] = call[d]
    BY <1>1
  <2>2. call'[c].at = stage /\ ~call'[c].live /\ call'[c].hook = call[c].hook
        /\ call'[c].target = call[c].target
    BY <1>1, <1>2
  <2>3. /\ call[c].at # "confirmed" /\ call[c].at # "unused" /\ tx' = tx
        /\ stage # "uploading" /\ stage # "unused"
    BY DEF Running, Ended
  <2>. QED
    BY <2>1, <2>2, <2>3 DEF HistoryIsKept, Quiet, NothingMined, StartsOnly, Runs
<1>. QED  BY <1>1, <1>2, <1>4, <1>5, <1>6, <1>7 DEF CallInv

\* A simulation, a node or the wallet refuses a call (Refuse).
LEMMA Refusals ==
  ASSUME CallInv, NEW c \in Call, NEW stage \in {"uploading", "simulating", "prompting"},
         Refuse(c, stage)
  PROVE  CallInv' /\ HistoryIsKept /\ Quiet
<1>1. tx[c].status = "none"
  BY DEF CallInv, SentAfterPrompt, Refuse
<1>. QED  BY <1>1, CallEnds, Stages DEF Refuse, Ended, Running

\* The receipt of a call arrives (Confirmed), or never will (ReceiptFails).
LEMMA Confirmations ==
  ASSUME CallInv, NEW c \in Call, Confirmed(c) \/ ReceiptFails(c)
  PROVE  /\ CallInv' /\ HistoryIsKept /\ Quiet
         /\ Confirmed(c) => call[c].at # "confirmed" /\ call'[c].at = "confirmed"
<1>1. CASE Confirmed(c)
  BY <1>1, CallEnds, Stages DEF Confirmed, Ended, Running
<1>2. CASE ReceiptFails(c)
  BY <1>2, CallEnds, Stages DEF ReceiptFails, Confirmed, Ended, Running
<1>. QED  BY <1>1, <1>2

\* A button starts a call (Press); the hook of a mutation must be idle.
LEMMA ButtonPresses ==
  ASSUME CallInv, NEW c \in Call, NEW h \in Hook, NEW t \in Target,
         NEW stage \in {"uploading", "simulating"}, Press(c, h, t, stage),
         h \in Inside /\ stage = "simulating" => ~Busy(h)
  PROVE  /\ CallInv' /\ HistoryIsKept /\ NothingMined /\ StartsOnly({c})
         /\ tx[c].status = "none"
         /\ call'[c].hook = h /\ call'[c].target = t /\ call'[c].at = stage
<1>1. call \in [Call -> Calls] /\ tx \in [Call -> Txs] /\ watched \in [Hook -> Call \cup {0}]
  BY TypeParts DEF CallInv
<1>. DEFINE new == [at |-> stage, hook |-> h, target |-> t, live |-> TRUE]
<1>2. new \in Calls
  BY Stages DEF Calls
<1>3. call' = [call EXCEPT ![c] = new] /\ UNCHANGED <<account, tx>>
  BY DEF Press
<1>4. watched' = IF h \in Inside /\ stage = "simulating" THEN [watched EXCEPT ![h] = c]
                 ELSE watched
  BY DEF Press
<1>5. tx[c].status = "none" /\ call[c].at = "unused"
  BY DEF Press, CallInv, SentAfterPrompt
<1>. HIDE DEF new
<1>6. CallTypeOK'
  BY <1>1, <1>2, <1>3, <1>4 DEF CallInv, CallTypeOK, Calls, StageName
<1>7. SentAfterPrompt'
  BY <1>1, <1>3, <1>5 DEF CallInv, SentAfterPrompt, new
<1>8. InsideIsWatched'
  <2>. SUFFICES ASSUME NEW d \in Call, call'[d].live, call'[d].at \in Running,
                       call'[d].hook \in Inside
                PROVE  watched'[call'[d].hook] = d
    BY DEF InsideIsWatched
  <2>1. CASE d = c
    BY <2>1, <1>1, <1>3, <1>4 DEF new, Running
  <2>2. CASE d # c
    <3>1. call'[d] = call[d] /\ watched[call[d].hook] = d
      BY <2>2, <1>1, <1>3 DEF CallInv, InsideIsWatched
    <3>2. ASSUME call[d].hook = h, stage = "simulating"
          PROVE  FALSE
      <4>1. d # 0
        BY DEF Call
      <4>2. Stage(h) \in Running
        BY <3>1, <3>2, <4>1 DEF Stage
      <4>. QED  BY <4>2, <3>1, <3>2 DEF Busy, IsPending, IsConfirming, Running
    <3>. QED  BY <3>1, <3>2, <1>1, <1>4
  <2>. QED  BY <2>1, <2>2
<1>9. HistoryIsKept /\ NothingMined /\ StartsOnly({c})
  <2>1. \A d \in Call : d # c => call'[d] = call[d]
    BY <1>1, <1>3
  <2>2. tx' = tx
    BY <1>3
  <2>. QED
    BY <1>5, <2>1, <2>2 DEF HistoryIsKept, NothingMined, StartsOnly, Runs
<1>10. call'[c].hook = h /\ call'[c].target = t /\ call'[c].at = stage
  BY <1>1, <1>3 DEF new
<1>. QED  BY <1>5, <1>6, <1>7, <1>8, <1>9, <1>10 DEF CallInv

\* A simulation succeeds and the wallet is asked (Simulate); a hook that turns to the call
\* leaves the one whose receipt it awaited.
LEMMA Simulations ==
  ASSUME CallInv, NEW c \in Call, Simulate(c)
  PROVE  CallInv' /\ HistoryIsKept /\ Quiet
<1>. DEFINE h == call[c].hook
            turns == h \notin Inside /\ call[c].live
            left == IF turns /\ IsConfirming(h) THEN {watched[h]} ELSE {}
<1>1. call \in [Call -> Calls] /\ tx \in [Call -> Txs] /\ watched \in [Hook -> Call \cup {0}]
  BY TypeParts DEF CallInv
<1>2. /\ call[c].at = "simulating" /\ account \in Account
      /\ call' = [b \in Call |-> IF b = c THEN At(call[b], "prompting")
                                 ELSE IF b \in left THEN At(call[b], "over")
                                 ELSE call[b]]
      /\ tx' = [tx EXCEPT ![c].by = account]
      /\ watched' = IF turns THEN [watched EXCEPT ![h] = c] ELSE watched
      /\ UNCHANGED account
  BY DEF Simulate, CallInv, CallTypeOK
<1>. HIDE DEF left
<1>3. tx[c].status = "none"
  BY <1>2 DEF CallInv, SentAfterPrompt
<1>4. \A b \in Call : b \in left => call[b].at = "confirming"
  BY DEF left, IsConfirming, Stage
<1>5. \A b \in Call :
        /\ call'[b] \in Calls
        /\ call'[b].hook = call[b].hook /\ call'[b].target = call[b].target
        /\ call'[b].at = IF b = c THEN "prompting" ELSE IF b \in left THEN "over"
                         ELSE call[b].at
        /\ call'[b].live => call[b].live
  <2>. SUFFICES ASSUME NEW b \in Call
                PROVE  /\ call'[b] \in Calls
                       /\ call'[b].hook = call[b].hook /\ call'[b].target = call[b].target
                       /\ call'[b].at = IF b = c THEN "prompting"
                                        ELSE IF b \in left THEN "over" ELSE call[b].at
                       /\ call'[b].live => call[b].live
    OBVIOUS
  <2>1. call[b] \in Calls /\ "prompting" \in StageName /\ "over" \in StageName
    BY <1>1, Stages
  <2>2. call'[b] = IF b = c THEN At(call[b], "prompting")
                   ELSE IF b \in left THEN At(call[b], "over") ELSE call[b]
    BY <1>2
  <2>3. CASE b = c
    BY <2>1, <2>2, <2>3, AtType
  <2>4. CASE b # c /\ b \in left
    BY <2>1, <2>2, <2>4, AtType
  <2>5. CASE b # c /\ b \notin left
    BY <2>1, <2>2, <2>5
  <2>. QED  BY <2>3, <2>4, <2>5
<1>6. call' \in [Call -> Calls]
  BY <1>2, <1>5
<1>7. \A b \in Call : /\ tx'[b] \in Txs /\ tx'[b].status = tx[b].status
                      /\ b # c => tx'[b] = tx[b]
  BY <1>1, <1>2 DEF Txs
<1>8. CallTypeOK'
  <2>1. tx' \in [Call -> Txs]
    BY <1>1, <1>2, <1>7
  <2>2. watched' \in [Hook -> Call \cup {0}]
    BY <1>1, <1>2
  <2>. QED  BY <2>1, <2>2, <1>6, <1>2 DEF CallTypeOK, Calls, Txs, StageName
<1>9. SentAfterPrompt'
  BY <1>3, <1>4, <1>5, <1>7, <1>2 DEF CallInv, SentAfterPrompt
<1>10. InsideIsWatched'
  <2>. SUFFICES ASSUME NEW d \in Call, call'[d].live, call'[d].at \in Running,
                       call'[d].hook \in Inside
                PROVE  watched'[call'[d].hook] = d
    BY DEF InsideIsWatched
  <2>1. call[d].live /\ call[d].at \in Running /\ call[d].hook = call'[d].hook
    BY <1>5, <1>2 DEF Running
  <2>2. watched[call[d].hook] = d
    BY <2>1 DEF CallInv, InsideIsWatched
  <2>3. h # call[d].hook \/ ~turns
    BY <2>1
  <2>. QED  BY <2>1, <2>2, <2>3, <1>1, <1>2
<1>11. HistoryIsKept /\ Quiet
  <2>1. /\ call[c].at \notin {"confirmed", "unused"}
        /\ \A b \in Call : b \in left => call[b].at \notin {"confirmed", "unused"}
    BY <1>2, <1>4
  <2>2. \A b \in Call : Runs(b)' => Runs(b)
    BY <1>2, <1>5 DEF Runs, Running
  <2>3. \A b \in Call : call'[b].at = "uploading" => call[b].at = "uploading"
    BY <1>5
  <2>4. \A b \in Call : call[b].at = "confirmed" => call'[b].at = "confirmed"
    BY <2>1, <1>5
  <2>5. \A b \in Call : call[b].at = "unused" <=> call'[b].at = "unused"
    BY <2>1, <1>5
  <2>. QED  BY <1>3, <1>5, <1>7, <2>2, <2>3, <2>4, <2>5
            DEF HistoryIsKept, Quiet, NothingMined, StartsOnly
<1>. QED  BY <1>8, <1>9, <1>10, <1>11 DEF CallInv

\* The wallet signs (WalletSigns): the receipt is awaited, or nobody does.
LEMMA Signatures ==
  ASSUME CallInv, NEW c \in Call, WalletSigns(c)
  PROVE  CallInv' /\ HistoryIsKept /\ Quiet
<1>. DEFINE stage == IF IsWatched(c) THEN "confirming" ELSE "over"
<1>1. call \in [Call -> Calls] /\ tx \in [Call -> Txs]
  BY TypeParts DEF CallInv
<1>2. /\ call[c].at = "prompting"
      /\ call' = [call EXCEPT ![c] = At(@, stage)]
      /\ tx' = [tx EXCEPT ![c].status = "pending"]
      /\ UNCHANGED <<account, watched>>
  BY DEF WalletSigns
<1>3. stage \in StageName /\ stage \in {"confirming", "over"}
  BY Stages
<1>. HIDE DEF stage
<1>4. /\ At(call[c], stage) \in Calls
      /\ At(call[c], stage).at = stage /\ At(call[c], stage).hook = call[c].hook
      /\ At(call[c], stage).target = call[c].target
      /\ (At(call[c], stage).live <=> call[c].live /\ stage \notin Ended)
  BY <1>1, <1>3, AtType
<1>5. call' \in [Call -> Calls] /\ tx' \in [Call -> Txs]
  <2>1. [tx[c] EXCEPT !.status = "pending"] \in Txs
    BY <1>1 DEF Txs
  <2>. QED  BY <2>1, <1>1, <1>2, <1>4
<1>6. CallTypeOK'
  BY <1>5, <1>2 DEF CallInv, CallTypeOK, Calls, Txs, StageName
<1>7. tx[c].status = "none" /\ tx'[c].status = "pending" /\ tx'[c].by = tx[c].by
  BY <1>1, <1>2 DEF CallInv, SentAfterPrompt, Txs
<1>8. SentAfterPrompt'
  <2>1. \A d \in Call : d # c => call'[d] = call[d] /\ tx'[d] = tx[d]
    BY <1>1, <1>2
  <2>2. /\ call'[c].at \in {"confirming", "over"} /\ call'[c].target = call[c].target
        /\ call[c].at # "unused"
    BY <1>1, <1>2, <1>3, <1>4
  <2>. QED  BY <2>1, <2>2 DEF CallInv, SentAfterPrompt
<1>9. InsideIsWatched'
  BY <1>1, <1>2, <1>4 DEF CallInv, InsideIsWatched, Running, Ended
<1>10. HistoryIsKept /\ Quiet
  <2>1. \A d \in Call : d # c => call'[d] = call[d] /\ tx'[d] = tx[d]
    BY <1>1, <1>2
  <2>2. /\ call'[c].at = stage /\ call'[c].hook = call[c].hook
        /\ call'[c].target = call[c].target /\ (call'[c].live => call[c].live)
    BY <1>1, <1>2, <1>4
  <2>. QED  BY <1>2, <1>3, <1>7, <2>1, <2>2
            DEF HistoryIsKept, Quiet, NothingMined, StartsOnly, Runs, Running
<1>. QED  BY <1>6, <1>8, <1>9, <1>10 DEF CallInv

\* A block changes nothing but the transaction in it.
LEMMA Blocks ==
  ASSUME CallInv, NEW c \in Call, NEW ok \in BOOLEAN, Included(c, ok)
  PROVE  /\ CallInv' /\ HistoryIsKept /\ StartsOnly({})
         /\ \A d \in Call : tx'[d].status = "mined" /\ tx[d].status # "mined" => ok /\ d = c
         /\ tx[c].status = "pending" /\ tx'[c].by = tx[c].by
         /\ UNCHANGED <<account, call, watched>>
<1>. DEFINE status == IF ok THEN "mined" ELSE "reverted"
<1>1. call \in [Call -> Calls] /\ tx \in [Call -> Txs]
  BY TypeParts DEF CallInv
<1>2. /\ tx[c].status = "pending" /\ tx' = [tx EXCEPT ![c].status = status]
      /\ UNCHANGED <<account, call, watched>>
  BY DEF Included
<1>3. [tx[c] EXCEPT !.status = status] \in Txs /\ status \in {"mined", "reverted"}
  BY <1>1 DEF Txs
<1>4. tx' \in [Call -> Txs] /\ tx'[c].by = tx[c].by /\ tx'[c].status = status
  BY <1>1, <1>2, <1>3 DEF Txs
<1>5. CallTypeOK'
  BY <1>4, <1>2 DEF CallInv, CallTypeOK, Txs, Call
<1>6. SentAfterPrompt'
  BY <1>1, <1>2 DEF CallInv, SentAfterPrompt
<1>7. InsideIsWatched'
  BY <1>2 DEF CallInv, InsideIsWatched
<1>8. HistoryIsKept /\ StartsOnly({})
  BY <1>1, <1>2, <1>4 DEF HistoryIsKept, StartsOnly, Runs
<1>. QED  BY <1>1, <1>2, <1>4, <1>5, <1>6, <1>7, <1>8 DEF CallInv

\* Whatever hooks go, their calls belong to nobody.
LEMMA WithoutType ==
  ASSUME NEW calls \in [Call -> Calls], NEW hs
  PROVE  /\ CallWithout(calls, hs) \in [Call -> Calls]
         /\ \A c \in Call :
              /\ CallWithout(calls, hs)[c].hook = calls[c].hook
              /\ CallWithout(calls, hs)[c].target = calls[c].target
              /\ CallWithout(calls, hs)[c].at \in {calls[c].at, "over"}
              /\ CallWithout(calls, hs)[c].at # calls[c].at => calls[c].at = "confirming"
              /\ CallWithout(calls, hs)[c].live => calls[c].live /\ calls[c].hook \notin hs
<1>1. ASSUME NEW c \in Call
      PROVE  /\ CallWithout(calls, hs)[c] \in Calls
             /\ CallWithout(calls, hs)[c].hook = calls[c].hook
             /\ CallWithout(calls, hs)[c].target = calls[c].target
             /\ CallWithout(calls, hs)[c].at \in {calls[c].at, "over"}
             /\ CallWithout(calls, hs)[c].at # calls[c].at => calls[c].at = "confirming"
             /\ CallWithout(calls, hs)[c].live => calls[c].live /\ calls[c].hook \notin hs
  <2>1. calls[c] \in Calls
    OBVIOUS
  <2>2. [calls[c] EXCEPT !.live = FALSE] \in Calls
    BY <2>1 DEF Calls
  <2>3. "over" \in StageName /\ "over" \in Ended
    BY Stages DEF Ended
  <2>. QED  BY <2>1, <2>2, <2>3, AtType DEF CallWithout, Calls
<1>. QED  BY <1>1 DEF CallWithout

\* Hooks go, in a step that may also change calls otherwise, to what calls says.
LEMMA HooksGo ==
  ASSUME CallInv, NEW calls \in [Call -> Calls], NEW hs,
         call' = CallWithout(calls, hs), watched' = WatchedWithout(hs),
         account' = account, tx' \in [Call -> Txs],
         \A d \in Call :
           /\ calls[d].hook = call[d].hook /\ calls[d].target = call[d].target
           /\ calls[d].at \in {"uploading"} \cup Running /\ calls[d].live =>
                call[d].live /\ call[d].at \in Running \cup {calls[d].at}
           /\ calls[d].at \in {"uploading", "unused"} => call[d].at = calls[d].at
           /\ calls[d].live => call[d].live
           /\ call[d].at \in {"unused", "confirmed"} => calls[d].at = call[d].at,
         \A d \in Call :
           /\ tx'[d].status # "none" =>
                calls[d].at \in {"confirming", "confirmed", "lost", "over"}
           /\ tx[d].status # "none" => tx'[d] = tx[d]
           /\ tx'[d].status = "mined" => tx[d].status = "mined"
  PROVE  CallInv' /\ HistoryIsKept /\ Quiet
<1>1. call \in [Call -> Calls] /\ watched \in [Hook -> Call \cup {0}]
  BY TypeParts DEF CallInv
<1>2. /\ call' \in [Call -> Calls]
      /\ \A c \in Call :
           /\ call'[c].hook = calls[c].hook /\ call'[c].target = calls[c].target
           /\ call'[c].at \in {calls[c].at, "over"}
           /\ call'[c].at # calls[c].at => calls[c].at = "confirming"
           /\ call'[c].live => calls[c].live /\ calls[c].hook \notin hs
  BY WithoutType
<1>3. CallTypeOK'
  <2>1. watched' \in [Hook -> Call \cup {0}]
    BY <1>1 DEF WatchedWithout
  <2>. QED  BY <1>2, <2>1 DEF CallInv, CallTypeOK, Calls, Txs, StageName
<1>4. SentAfterPrompt'
  <2>1. \A d \in Call : tx'[d].status # "none" =>
          call'[d].at \in {"confirming", "confirmed", "lost", "over"}
    BY <1>2
  <2>2. \A d \in Call : /\ call'[d].at = "unused" => ~call'[d].live
                        /\ call'[d].at # "unused" => call'[d].target \in Target
    BY <1>2 DEF CallInv, SentAfterPrompt
  <2>. QED  BY <2>1, <2>2 DEF SentAfterPrompt
<1>5. InsideIsWatched'
  <2>. SUFFICES ASSUME NEW d \in Call, call'[d].live, call'[d].at \in Running,
                       call'[d].hook \in Inside
                PROVE  watched'[call'[d].hook] = d
    BY DEF InsideIsWatched
  <2>1. calls[d].live /\ calls[d].at \in Running /\ call[d].hook \notin hs
    BY <1>2 DEF Running
  <2>2. call[d].live /\ call[d].at \in Running /\ call[d].hook \in Hook
    BY <1>1, <2>1 DEF Calls
  <2>. QED  BY <1>2, <2>1, <2>2 DEF CallInv, InsideIsWatched, WatchedWithout
<1>6. HistoryIsKept /\ Quiet
  <2>1. \A d \in Call : Runs(d)' => Runs(d)
    BY <1>2 DEF Runs, Running
  <2>2. \A d \in Call : /\ call'[d].at = "uploading" => call[d].at = "uploading"
                        /\ call[d].at = "confirmed" => call'[d].at = "confirmed"
                        /\ call[d].at = "unused" <=> call'[d].at = "unused"
    BY <1>2
  <2>. QED  BY <1>2, <2>1, <2>2 DEF HistoryIsKept, Quiet, NothingMined, StartsOnly
<1>. QED  BY <1>3, <1>4, <1>5, <1>6 DEF CallInv

\* Components go, and with them their hooks (Unmount).
LEMMA Unmountings ==
  ASSUME CallInv, NEW hs, Unmount(hs), UNCHANGED <<account, tx>>
  PROVE  CallInv' /\ HistoryIsKept /\ Quiet
<1>1. call \in [Call -> Calls] /\ tx \in [Call -> Txs]
  BY TypeParts DEF CallInv
<1>. QED  BY <1>1, HooksGo DEF Unmount, CallInv, SentAfterPrompt

----------------------------------------------------------------------------
(* Steps that only one page has. *)

\* A hook is busy with the call a mounted component runs by it.
LEMMA BusyHook ==
  ASSUME CallInv, NEW c \in Call, Runs(c), call[c].at # "uploading", call[c].hook \in Inside
  PROVE  Busy(call[c].hook)
<1>1. watched[call[c].hook] = c /\ c # 0
  BY DEF CallInv, InsideIsWatched, Runs, Call
<1>2. Stage(call[c].hook) = call[c].at
  BY <1>1 DEF Stage
<1>. QED  BY <1>2 DEF Busy, IsPending, IsConfirming, Runs, Running

\* RegisterPage: the upload has ended, and the mutation starts.
LEMMA Uploads ==
  ASSUME CallInv, NEW c \in Call, call[c].at = "uploading",
         call[c].live => \A d \in Call : Runs(d) => d = c,
         call' = [call EXCEPT ![c] = At(@, "simulating")],
         watched' = IF call[c].live THEN [watched EXCEPT ![call[c].hook] = c] ELSE watched,
         UNCHANGED <<account, tx>>
  PROVE  CallInv' /\ HistoryIsKept /\ Quiet
<1>1. call \in [Call -> Calls] /\ watched \in [Hook -> Call \cup {0}]
  BY TypeParts DEF CallInv
<1>2. /\ At(call[c], "simulating") \in Calls
      /\ At(call[c], "simulating").at = "simulating"
      /\ At(call[c], "simulating").hook = call[c].hook
      /\ At(call[c], "simulating").target = call[c].target
      /\ At(call[c], "simulating").live <=> call[c].live
  BY <1>1, AtType, Stages DEF Ended
<1>3. /\ call' \in [Call -> Calls] /\ \A d \in Call : d # c => call'[d] = call[d]
      /\ call'[c] = At(call[c], "simulating")
  BY <1>1, <1>2
<1>4. tx[c].status = "none"
  BY DEF CallInv, SentAfterPrompt
<1>5. CallTypeOK'
  <2>1. watched' \in [Hook -> Call \cup {0}]
    BY <1>1
  <2>. QED  BY <1>3, <2>1 DEF CallInv, CallTypeOK, Calls, StageName
<1>6. SentAfterPrompt'
  BY <1>2, <1>3, <1>4 DEF CallInv, SentAfterPrompt
<1>7. InsideIsWatched'
  <2>. SUFFICES ASSUME NEW d \in Call, call'[d].live, call'[d].at \in Running,
                       call'[d].hook \in Inside
                PROVE  watched'[call'[d].hook] = d
    BY DEF InsideIsWatched
  <2>1. CASE d = c
    <3>1. call[c].live /\ call'[d].hook = call[c].hook /\ call[c].hook \in Hook
      BY <1>1, <1>2, <1>3, <2>1 DEF Calls
    <3>. QED  BY <1>1, <2>1, <3>1
  <2>2. CASE d # c
    <3>1. call'[d] = call[d] /\ Runs(d) /\ watched[call[d].hook] = d
      BY <1>3, <2>2 DEF Runs, CallInv, InsideIsWatched
    <3>2. ~call[c].live
      BY <2>2, <3>1
    <3>. QED  BY <3>1, <3>2
  <2>. QED  BY <2>1, <2>2
<1>8. HistoryIsKept /\ Quiet
  <2>1. /\ call'[c].at = "simulating" /\ call'[c].hook = call[c].hook
        /\ call'[c].target = call[c].target /\ (call'[c].live <=> call[c].live)
    BY <1>2, <1>3
  <2>. QED  BY <1>3, <1>4, <2>1 DEF HistoryIsKept, Quiet, NothingMined, StartsOnly, Runs
<1>. QED  BY <1>5, <1>6, <1>7, <1>8 DEF CallInv

\* BoardPage: the wallet signs, and the form goes with all its calls.
LEMMA SignatureCloses ==
  ASSUME CallInv, NEW c \in Call, NEW hs, call[c].at = "prompting",
         tx' = [tx EXCEPT ![c].status = "pending"],
         call' = CallWithout([call EXCEPT ![c].at = "confirming"], hs),
         watched' = WatchedWithout(hs), UNCHANGED account
  PROVE  CallInv' /\ HistoryIsKept /\ Quiet
<1>1. call \in [Call -> Calls] /\ tx \in [Call -> Txs] /\ watched \in [Hook -> Call \cup {0}]
  BY TypeParts DEF CallInv
<1>. DEFINE calls == [call EXCEPT ![c].at = "confirming"]
<1>2. [call[c] EXCEPT !.at = "confirming"] \in Calls
  BY <1>1, Stages DEF Calls
<1>3. /\ calls \in [Call -> Calls] /\ \A d \in Call : d # c => calls[d] = call[d]
      /\ calls[c].at = "confirming" /\ calls[c].hook = call[c].hook
      /\ calls[c].target = call[c].target /\ (calls[c].live <=> call[c].live)
  BY <1>1, <1>2 DEF Calls
<1>. HIDE DEF calls
<1>4. [tx[c] EXCEPT !.status = "pending"] \in Txs
  BY <1>1 DEF Txs
<1>5. /\ tx' \in [Call -> Txs] /\ tx[c].status = "none"
      /\ \A d \in Call : d # c => tx'[d] = tx[d]
      /\ tx'[c].status = "pending"
  BY <1>1, <1>4 DEF Txs, CallInv, SentAfterPrompt
<1>6. call' = CallWithout(calls, hs)
  BY DEF calls
<1>7. \A d \in Call :
        /\ calls[d].hook = call[d].hook /\ calls[d].target = call[d].target
        /\ calls[d].at \in {"uploading"} \cup Running /\ calls[d].live =>
             call[d].live /\ call[d].at \in Running \cup {calls[d].at}
        /\ calls[d].at \in {"uploading", "unused"} => call[d].at = calls[d].at
        /\ calls[d].live => call[d].live
        /\ call[d].at \in {"unused", "confirmed"} => calls[d].at = call[d].at
  BY <1>3 DEF Running
<1>8. \A d \in Call :
        /\ tx'[d].status # "none" =>
             calls[d].at \in {"confirming", "confirmed", "lost", "over"}
        /\ tx[d].status # "none" => tx'[d] = tx[d]
        /\ tx'[d].status = "mined" => tx[d].status = "mined"
  BY <1>3, <1>5 DEF CallInv, SentAfterPrompt
<1>. QED  BY <1>3, <1>5, <1>6, <1>7, <1>8, HooksGo

\* AdminPage: the receipt is there, and everything that is mounted goes.
LEMMA SuccessUnmounts ==
  ASSUME CallInv, NEW c \in Call, NEW hs, call[c].at = "confirming",
         call' = CallWithout([call EXCEPT ![c] = At(@, "confirmed")], hs),
         watched' = WatchedWithout(hs), UNCHANGED <<account, tx>>
  PROVE  CallInv' /\ HistoryIsKept /\ Quiet /\ call'[c].at = "confirmed"
<1>1. call \in [Call -> Calls] /\ watched \in [Hook -> Call \cup {0}]
  BY TypeParts DEF CallInv
<1>. DEFINE calls == [call EXCEPT ![c] = At(@, "confirmed")]
<1>2. /\ At(call[c], "confirmed") \in Calls
      /\ At(call[c], "confirmed").at = "confirmed"
      /\ At(call[c], "confirmed").hook = call[c].hook
      /\ At(call[c], "confirmed").target = call[c].target
      /\ ~At(call[c], "confirmed").live
  BY <1>1, AtType, Stages DEF Ended
<1>3. /\ calls \in [Call -> Calls] /\ \A d \in Call : d # c => calls[d] = call[d]
      /\ calls[c].at = "confirmed" /\ calls[c].hook = call[c].hook
      /\ calls[c].target = call[c].target /\ ~calls[c].live
  BY <1>1, <1>2
<1>. HIDE DEF calls
<1>4. call' = CallWithout(calls, hs) /\ tx \in [Call -> Txs]
  BY TypeParts DEF calls, CallInv
<1>5. CallInv' /\ HistoryIsKept /\ Quiet
  BY <1>3, <1>4, HooksGo DEF CallInv, SentAfterPrompt, Running
<1>6. call'[c].at = "confirmed"
  BY <1>3, <1>4, WithoutType
<1>. QED  BY <1>5, <1>6

\* VerifierPage: a hook that does not simulate inside is reset.
LEMMA Resets ==
  ASSUME CallInv, NEW h \in Hook \ Inside, watched' = [watched EXCEPT ![h] = 0],
         UNCHANGED <<account, call, tx>>
  PROVE  CallInv' /\ HistoryIsKept /\ Quiet
<1>1. watched \in [Hook -> Call \cup {0}]
  BY DEF CallInv, CallTypeOK
<1>2. CallInv'
  BY <1>1 DEF CallInv, CallTypeOK, SentAfterPrompt, InsideIsWatched
<1>. QED  BY <1>2 DEF HistoryIsKept, Quiet, NothingMined, StartsOnly, Runs

\* Only a receipt makes a hook report success.
LEMMA NoneSucceeds ==
  ASSUME CallInv, NEW c \in Call,
         \/ Simulate(c) \/ WalletSigns(c) \/ ReceiptFails(c)
         \/ \E stage \in {"simulating", "prompting"} : Refuse(c, stage),
         NEW h \in Hook, IsSuccess(h)'
  PROVE  IsSuccess(h)
<1>1. call \in [Call -> Calls] /\ watched \in [Hook -> Call \cup {0}] /\ 0 \notin Call
  BY TypeParts DEF CallInv, Call
<1>2. watched'[h] # 0 /\ call'[watched'[h]].at = "confirmed"
  BY DEF IsSuccess, Stage
<1>3. \A stage \in StageName : At(call[c], stage).at = stage
  BY <1>1, AtType
<1>4. CASE Simulate(c)
  <2>1. /\ call'[c].at = "prompting"
        /\ \A d \in Call : call'[d].at = "confirmed" => call[d].at = "confirmed"
    <3>1. \A d \in Call, stage \in {"prompting", "over"} : At(call[d], stage).at = stage
      BY <1>1, AtType, Stages
    <3>. QED  BY <1>4, <3>1 DEF Simulate
  <2>2. watched'[h] = watched[h] \/ watched'[h] = c
    BY <1>1, <1>4 DEF Simulate
  <2>. QED  BY <1>1, <1>2, <2>1, <2>2 DEF IsSuccess, Stage
<1>5. CASE ~Simulate(c)
  <2>1. watched' = watched
    BY <1>5 DEF WalletSigns, ReceiptFails, Refuse
  <2>2. PICK stage \in {"confirming", "over", "lost", "refused"} :
          call' = [call EXCEPT ![c] = At(@, stage)]
    BY <1>5 DEF WalletSigns, ReceiptFails, Refuse
  <2>3. call'[c].at = stage /\ \A d \in Call : d # c => call'[d] = call[d]
    BY <1>1, <1>3, <2>2, Stages
  <2>. QED  BY <1>1, <1>2, <2>1, <2>2, <2>3 DEF IsSuccess, Stage
<1>. QED  BY <1>4, <1>5

\* The call that is simulated is then put to the wallet.
LEMMA PromptingNow ==
  ASSUME CallInv, NEW c \in Call, Simulate(c)
  PROVE  call'[c].at = "prompting"
<1>1. call[c] \in Calls /\ "prompting" \in StageName
  BY TypeParts, Stages DEF CallInv
<1>. QED  BY <1>1, AtType DEF Simulate

\* Steps that concern no call.
LEMMA CallsRest ==
  ASSUME CallInv, UNCHANGED callVars
  PROVE  CallInv' /\ HistoryIsKept /\ Quiet
<1>1. UNCHANGED <<account, call, tx, watched>>
  BY DEF callVars
<1>2. CallInv'
  BY <1>1 DEF CallInv, CallTypeOK, SentAfterPrompt, InsideIsWatched
<1>. QED  BY <1>1, <1>2 DEF HistoryIsKept, Quiet, NothingMined, StartsOnly, Runs
=============================================================================
