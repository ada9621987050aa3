------------------------------- MODULE Indexer -------------------------------
(***************************************************************************)
(* back-end/src/indexer: the goroutine that copies the chain's events into *)
(* the tables.  Every tick makes three passes, one per stream, up to the   *)
(* block before the head; a pass reads the logs of ChunkSize blocks,       *)
(* handles them one by one and then saves a checkpoint.  The instances     *)
(* share one checkpoint, and are the ones the tables name when their pass  *)
(* starts.                                                                 *)
(*                                                                         *)
(* A process that stops loses everything but the tables and checkpoints.   *)
(* A failing blockNumber ends the tick before it does anything, which is   *)
(* no step at all.  INDEXER_START_BLOCK is the first block of the chain.   *)
(***************************************************************************)
EXTENDS MasjidTables

CONSTANTS
  Genesis,      \* the chain when the back end is first started
  MaxBlocks,    \* bound: blocks of the chain
  MaxReorgs,    \* bound: replacements of the head block
  ChunkSize,    \* blocks per eth_getLogs
  Fault,        \* the kinds of fault that may happen
  MaxFaults     \* bound: faults in all

ASSUME IndexerAssumption ==
  /\ Founder \in Account
  /\ ChunkSize \in Nat \ {0}
  /\ MaxBlocks \in Nat
  /\ MaxReorgs \in Nat
  /\ MaxFaults \in Nat
  /\ MaxRequests \in Nat
  /\ Genesis \in Seq(Seq(Event)) /\ Len(Genesis) <= MaxBlocks
  /\ Fault \subseteq {"crash", "protocolLogs", "registryLogs", "instanceLogs",
                      "handler", "checkpointRead", "checkpointWrite", "noAnswer"}

ASSUME GenesisAssumption == Lawful(Genesis)

VARIABLES
  chain,        \* the blocks
  reorgs,       \* replacements of the head so far
  db,           \* the tables
  checkpoint,   \* last block handled of each stream, 0 for no row
  pass,         \* the stream being processed, or "idle"
  step,         \* where the pass is
  safeHead,     \* last block of this tick
  from, to,     \* the chunk
  logs,         \* logs of the chunk still to handle
  statement,    \* the next statement of the first log's handler
  instances,    \* addresses the instances pass filters by
  failed,       \* kinds of fault that have happened
  faults        \* faults so far

chainVars   == <<chain, reorgs>>
storedVars  == <<db, checkpoint>>
processVars == <<pass, step, safeHead, from, to, logs, statement, instances>>
faultVars   == <<failed, faults>>

vars == <<chainVars, storedVars, processVars, faultVars>>

\* Mutant: the head itself is taken as final.
SafeHeadIsHead == Len(chain)

\* The last block a tick that starts now would process: the one before the head.
SafeHead == IF Len(chain) < 2 THEN 0 ELSE Len(chain) - 1

\* The types; the process and the checkpoints name only blocks that can no longer be
\* replaced.
TypeOK ==
  /\ chain \in Seq(Seq(Event)) /\ Len(chain) \in 0..MaxBlocks
  /\ db \in Tables
  /\ checkpoint \in [Stream -> 0..SafeHead]
  /\ pass \in Stream \cup {"idle"}
  /\ step \in {"none", "enter", "fetch", "handle", "save", "waiting"}
  /\ safeHead \in 0..SafeHead
  /\ from \in 0..safeHead /\ to \in 0..safeHead
  /\ statement \in 1..2
  /\ instances \subseteq Mosque
  /\ failed \subseteq Fault /\ faults \in 0..MaxFaults

Init ==
  /\ chain = Genesis /\ reorgs = 0
  /\ db = EmptyTables
  /\ checkpoint = [s \in Stream |-> 0]
  /\ pass = "idle" /\ step = "none"
  /\ safeHead = 0 /\ from = 0 /\ to = 0
  /\ logs = <<>> /\ statement = 1 /\ instances = {}
  /\ failed = {} /\ faults = 0
----------------------------------------------------------------------------
\* External (the chain): a new block, or another block in place of the head.
Grow(tx) ==
  /\ Len(chain) < MaxBlocks
  /\ tx \in Transactions(Events(chain, Len(chain)))
  /\ chain' = Append(chain, tx)
  /\ UNCHANGED <<reorgs, storedVars, processVars, faultVars>>

Reorg(tx) ==
  /\ reorgs < MaxReorgs
  /\ Len(chain) > Len(Genesis)
  /\ tx \in Transactions(Events(chain, Len(chain) - 1))
  /\ chain' = [chain EXCEPT ![Len(chain)] = tx]
  /\ reorgs' = reorgs + 1
  /\ UNCHANGED <<storedVars, processVars, faultVars>>
----------------------------------------------------------------------------
Fails(kind) ==
  /\ kind \in Fault
  /\ faults < MaxFaults
  /\ failed' = failed \cup {kind}
  /\ faults' = faults + 1

\* The pass after each, and the process when a pass is over.
PassAfter ==
  [ MasjidProtocol |-> "VerifierRegistry", VerifierRegistry |-> "MasjidInstance",
    MasjidInstance |-> "idle" ]

EndPass ==
  /\ pass' = PassAfter[pass]
  /\ step' = IF pass = "MasjidInstance" THEN "none" ELSE "enter"
  /\ safeHead' = IF pass = "MasjidInstance" THEN 0 ELSE safeHead
  /\ from' = 0 /\ to' = 0 /\ instances' = {}

BeginTick ==
  /\ pass = "idle"
  /\ Len(chain) >= 2
  /\ pass' = "MasjidProtocol" /\ step' = "enter"
  /\ safeHead' = SafeHead
  /\ UNCHANGED <<chainVars, storedVars, from, to, logs, statement, instances, faultVars>>

\* fromBlock, and the end of the pass when there is nothing new.
StartAt(block) ==
  \/ /\ block > safeHead
     /\ EndPass
  \/ /\ block <= safeHead
     /\ step' = "fetch" /\ from' = block
     /\ instances' = IF pass = "MasjidInstance" THEN ListInstanceAddresses(db) ELSE {}
     /\ UNCHANGED <<pass, safeHead, to>>

NothingToWatch == pass = "MasjidInstance" /\ ListInstanceAddresses(db) = {}

EnterPass ==
  /\ step = "enter"
  /\ \/ NothingToWatch /\ EndPass /\ UNCHANGED faultVars
     \/ ~NothingToWatch /\ StartAt(checkpoint[pass] + 1) /\ UNCHANGED faultVars
     \/ ~NothingToWatch /\ Fails("checkpointRead") /\ StartAt(1)
  /\ UNCHANGED <<chainVars, storedVars, logs, statement>>

\* The logs of one stream in blocks first..last, each with its block.
Watched(e) ==
  /\ e.kind \in Topics[pass]
  /\ pass = "MasjidInstance" => e.instance \in instances

LogsOf(block) ==
  LET At(i) == [event |-> chain[block][i], tx |-> block]
  IN  FlattenSeq([i \in DOMAIN chain[block] |->
                    IF Watched(chain[block][i]) THEN <<At(i)>> ELSE <<>>])

GetLogs(first, last) ==
  FlattenSeq([i \in 1..(last - first + 1) |-> LogsOf(first + i - 1)])

LogsFault ==
  [ MasjidProtocol |-> "protocolLogs", VerifierRegistry |-> "registryLogs",
    MasjidInstance |-> "instanceLogs" ]

\* Mutant: the last chunk is not cut at the last final block.
ChunkEndUncut(first) ==
  IF first + ChunkSize - 1 > Len(chain) THEN Len(chain) ELSE first + ChunkSize - 1

ChunkEnd(first) == IF first + ChunkSize - 1 > safeHead THEN safeHead ELSE first + ChunkSize - 1

\* Mutant: a failed eth_getLogs is taken for a chunk without logs.
FetchIgnoresError ==
  /\ step = "fetch"
  /\ to' = ChunkEnd(from)
  /\ \/ /\ logs' = GetLogs(from, ChunkEnd(from))
        /\ step' = IF logs' = <<>> THEN "save" ELSE "handle"
        /\ UNCHANGED faultVars
     \/ /\ Fails(LogsFault[pass])
        /\ step' = "save"
        /\ UNCHANGED logs
  /\ UNCHANGED <<chainVars, storedVars, pass, safeHead, from, statement, instances>>

\* eth_getLogs; when it fails the pass is over and the tick goes on.  (So it
\* does when the list of instances cannot be read.)
Fetch ==
  /\ step = "fetch"
  /\ \/ /\ to' = ChunkEnd(from)
        /\ logs' = GetLogs(from, ChunkEnd(from))
        /\ step' = IF logs' = <<>> THEN "save" ELSE "handle"
        /\ UNCHANGED <<pass, safeHead, from, instances, faultVars>>
     \/ /\ Fails(LogsFault[pass])
        /\ EndPass
        /\ UNCHANGED logs
  /\ UNCHANGED <<chainVars, storedVars, statement>>

NextLog ==
  /\ logs' = Tail(logs)
  /\ statement' = 1
  /\ step' = IF Len(logs) = 1 THEN "save" ELSE "handle"

\* One statement of the handler of the next log.  A handler that fails is
\* logged, and the loop goes on to the next log.
HandleLog ==
  /\ step = "handle"
  /\ \/ /\ db' = Handle(db, Head(logs).event, statement, Head(logs).tx)
        /\ \/ /\ statement < Statements(Head(logs).event)
              /\ statement' = statement + 1
              /\ UNCHANGED <<logs, step>>
           \/ /\ statement = Statements(Head(logs).event)
              /\ NextLog
        /\ UNCHANGED faultVars
     \/ /\ Fails("handler")
        /\ NextLog
        /\ UNCHANGED db
  /\ UNCHANGED <<chainVars, checkpoint, pass, safeHead, from, to, instances>>

\* Mutant: the loop goes on from the block it has just done.
NextChunkRepeats ==
  \/ /\ to > safeHead
     /\ EndPass
  \/ /\ to <= safeHead
     /\ step' = "fetch" /\ from' = to /\ to' = 0
     /\ UNCHANGED <<pass, safeHead, instances>>

NextChunk ==
  \/ /\ to + 1 > safeHead
     /\ EndPass
  \/ /\ to + 1 <= safeHead
     /\ step' = "fetch" /\ from' = to + 1 /\ to' = 0
     /\ UNCHANGED <<pass, safeHead, instances>>

\* Mutant: the checkpoint is where the pass will end, not where it is.
SaveCheckpointAhead ==
  /\ step = "save"
  /\ \/ checkpoint' = [checkpoint EXCEPT ![pass] = safeHead] /\ UNCHANGED faultVars
     \/ Fails("checkpointWrite") /\ UNCHANGED checkpoint
  /\ NextChunk
  /\ UNCHANGED <<chainVars, db, logs, statement>>

\* saveCheckpoint; a save that fails is logged, and the loop goes on.
SaveCheckpoint ==
  /\ step = "save"
  /\ \/ checkpoint' = [checkpoint EXCEPT ![pass] = to] /\ UNCHANGED faultVars
     \/ Fails("checkpointWrite") /\ UNCHANGED checkpoint
  /\ NextChunk
  /\ UNCHANGED <<chainVars, db, logs, statement>>

\* A call of the node, for logs or for the time of a block, that is never
\* answered: the client has no time limit (rpc.go 50) and the context ends only
\* with the process.
Hang ==
  /\ step = "fetch" \/ (step = "handle" /\ statement = 1)
  /\ Fails("noAnswer")
  /\ step' = "waiting"
  /\ UNCHANGED <<chainVars, storedVars, pass, safeHead, from, to, logs, statement, instances>>

\* The process dies; the next one starts with a tick.
Crash ==
  /\ pass # "idle"
  /\ Fails("crash")
  /\ pass' = "idle" /\ step' = "none"
  /\ safeHead' = 0 /\ from' = 0 /\ to' = 0
  /\ logs' = <<>> /\ statement' = 1 /\ instances' = {}
  /\ UNCHANGED <<chainVars, storedVars>>
----------------------------------------------------------------------------
ChainStep == \E tx \in Transactions(Events(chain, Len(chain))) : Grow(tx)

ReorgStep ==
  /\ chain # <<>>
  /\ \E tx \in Transactions(Events(chain, Len(chain) - 1)) : Reorg(tx)

IndexerStep ==
  \/ BeginTick \/ EnterPass \/ Fetch \/ HandleLog \/ SaveCheckpoint

Next == ChainStep \/ ReorgStep \/ IndexerStep \/ Hang \/ Crash

\* The ticker fires every five seconds in a process that is running, and a call
\* that is answered, with a result or an error, lets the pass go on.
Spec == Init /\ [][Next]_vars /\ WF_vars(IndexerStep)
----------------------------------------------------------------------------
(***************************************************************************)
(* What the tables must say once a stream's checkpoint has reached the     *)
(* block before the head and no tick is running, read off the chain        *)
(* itself and not off the handlers.                                        *)
(***************************************************************************)
Final == Events(chain, SafeHead)

CaughtUp(s) == pass = "idle" /\ checkpoint[s] = SafeHead

\* Faults after which an event may never be handled again: a failing handler
\* is not retried, and a checkpoint read as missing replays the past, which a
\* crash or a failed save leaves half done.
Lossy ==
  \/ "handler" \in failed
  \/ "checkpointRead" \in failed /\ failed \cap {"crash", "checkpointWrite"} # {}

(***************************************************************************)
(* Crashes, failing reads of the node and failing saves replay events, and *)
(* a replayed registration empties the row it finds (masjid_repository.go  *)
(* 85-97): once caught up, every mosque's row and its votes are again what *)
(* the protocol's events say, whichever chunk was replayed how often       *)
(* (protocol.go 11-73, event_service.go 24-98).                            *)
(***************************************************************************)
RowOnChain(m) ==
  IF StatusOnChain(Final, m) = "absent" THEN NoRow
  ELSE [ status       |-> StatusOnChain(Final, m),
         masjidAdmin  |-> Founder,
         instanceAddr |-> Verified(m) \in ToSet(Final),
         attestYes    |-> Cardinality(VotesOnChain(Final, m, {TRUE})),
         attestNo     |-> Cardinality(VotesOnChain(Final, m, {FALSE})) ]

MasjidsSynced ==
  CaughtUp("MasjidProtocol") /\ ~Lossy =>
    /\ db.masjids = [m \in Mosque |-> RowOnChain(m)]
    /\ db.attests = UNION { { [masjidId |-> m, verifier |-> e.verifier, support |-> e.support] :
                                e \in VotesOnChain(Final, m, BOOLEAN) } : m \in Mosque }

(***************************************************************************)
(* Additions and removals of one verifier replayed after a crash or a      *)
(* failed save end as the registry has them (processRegistry 75-117,       *)
(* event_service.go 169-189, 223-229).                                     *)
(***************************************************************************)
VerifiersSynced ==
  CaughtUp("VerifierRegistry") /\ ~Lossy =>
    \A a \in Account : db.verifiers[a] = "active" <=> VerifierOnChain(Final, a)

(***************************************************************************)
(* All instances share one checkpoint, and a new instance enters the       *)
(* filter only with the tables: its donations, requests, settlements and   *)
(* approvals are complete and linked to its mosque as long as the pass     *)
(* over the protocol did not fail before it (instance.go 11-83).           *)
(***************************************************************************)
InstanceRows ==
  [ cashIns      |-> { [tx |-> c[1], instanceAddr |-> c[2], linked |-> TRUE] :
                         c \in { x \in (1..SafeHead) \X Mosque :
                                   Donated(x[2]) \in ToSet(chain[x[1]]) } },
    cashOuts     |-> { [instanceAddr |-> e.instance, requestId |-> e.requestId,
                        linked |-> TRUE,
                        executed |-> Executed(e.instance, e.requestId) \in ToSet(Final),
                        canceled |-> Canceled(e.instance, e.requestId) \in ToSet(Final)] :
                         e \in { x \in ToSet(Final) : x.kind = "CashOutProposed" } },
    cashOutVotes |-> { [instanceAddr |-> e.instance, requestId |-> e.requestId,
                        approver |-> e.approver] :
                         e \in { x \in ToSet(Final) : x.kind = "CashOutApproved" } } ]

InstancesSynced ==
  CaughtUp("MasjidInstance") /\ ~Lossy /\ "protocolLogs" \notin failed =>
    /\ db.cashIns = InstanceRows.cashIns
    /\ db.cashOuts = InstanceRows.cashOuts
    /\ db.cashOutVotes = InstanceRows.cashOutVotes

(***************************************************************************)
(* docs/docs/core-flow/user-flows.md:143 "The backend automatically syncs  *)
(* all smart contract events to the database."  One failed eth_getLogs of  *)
(* the protocol's pass is enough: the instances' checkpoint moves past the *)
(* first events of an instance the tables do not name yet, and they are    *)
(* still missing when every pass has caught up.                            *)
(***************************************************************************)
AllInstanceEventsSynced ==
  (\A s \in Stream : CaughtUp(s)) =>
    /\ db.cashIns = InstanceRows.cashIns
    /\ db.cashOuts = InstanceRows.cashOuts
    /\ db.cashOutVotes = InstanceRows.cashOutVotes

(***************************************************************************)
(* The same sentence for the boards.  A removal never reaches the table:   *)
(* model/board_member.go declares is_active default:true, and the insert   *)
(* writes that default for FALSE.                                          *)
(***************************************************************************)
BoardsSynced ==
  CaughtUp("MasjidInstance") =>
    \A r \in db.boardMembers : r.isActive => MemberOnChain(Final, r.instanceAddr, r.memberAddr)

(***************************************************************************)
(* Every row is about something that happened in a block that can no       *)
(* longer be replaced, at every moment, in the middle of a replay, after   *)
(* any fault and any reorganisation of the head (indexer.go 118-140).      *)
(***************************************************************************)
NoPhantomRows ==
  LET facts == ToSet(Final) IN
  /\ \A m \in Mosque :
       /\ db.masjids[m].status # "absent" => Registered(m) \in facts
       /\ db.masjids[m].instanceAddr => Verified(m) \in facts
  /\ \A r \in db.attests :
       \E e \in VotesOnChain(Final, r.masjidId, {r.support}) : e.verifier = r.verifier
  /\ \A a \in Account : db.verifiers[a] # "absent" => VerifierAdded(a) \in facts
  /\ \A r \in db.cashIns :
       r.tx <= SafeHead /\ Donated(r.instanceAddr) \in ToSet(chain[r.tx])
  /\ \A r \in db.cashOuts :
       /\ Proposed(r.instanceAddr, r.requestId) \in facts
       /\ r.executed => Executed(r.instanceAddr, r.requestId) \in facts
       /\ r.canceled => Canceled(r.instanceAddr, r.requestId) \in facts
  /\ \A r \in db.cashOutVotes : Approved(r.instanceAddr, r.requestId, r.approver) \in facts

(***************************************************************************)
(* docs/docs/core-flow/user-flows.md:143 "The backend automatically syncs  *)
(* all smart contract events to the database."  Whatever fails, as long as *)
(* it does not fail for ever, every stream's checkpoint reaches the block  *)
(* before the head and stays there: no chunk is processed again and again, *)
(* and no pass starves another (indexer.go 93-140; protocol.go,            *)
(* instance.go).  One call the node never answers is enough to break it.   *)
(***************************************************************************)
EventuallyCaughtUp ==
  <>[](\A s \in Stream :
         (s = "MasjidInstance" => ListInstanceAddresses(db) # {}) =>
           checkpoint[s] = SafeHead)
=============================================================================
