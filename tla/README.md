# Masjid Protocol: a TLA+ development

Masjid Protocol lets a set of verifiers vote on mosques, gives every verified
mosque a treasury contract that its board spends from by multi-signature, and
keeps a database of the contracts' events for a web site on which donors give,
boards spend, verifiers vote and an admin names verifiers. This directory holds
TLA+ models of the contracts, of the event indexer, of signing in, and of the
pages that send transactions, the TLC runs that check them on small instances,
and TLAPS proofs about all of them for every instance.

- [The system](#the-system)
- [The modules and the code](#the-modules-and-the-code)
- [The runs](#the-runs)
- [Bounds](#bounds)
- [Fairness](#fairness)
- [The proofs](#the-proofs)
- [Where code and documents disagree](#where-code-and-documents-disagree)
- [What is not modelled](#what-is-not-modelled)
- [What could come next](#what-could-come-next)

`tlc -workers 2 -config X.cfg M` checks a run, `tlapm M.tla` a proof module.
`PROJECT.json` lists the runs, the source lines each definition stands for, one
plausible bug per property that the run catches (the definitions marked
*Mutant*), and the hazards the properties are for.

## The system

| Component | State | Operations | Talks to |
|---|---|---|---|
| `VerifierRegistry.sol` | authority, verifier list, counter | add and remove a verifier, hand over the authority; `quorum()` | read by the protocol at every vote |
| `MasjidProtocol.sol` with `MasjidFactory.sol` | one struct per mosque, who voted, name table | register, attest (and with the deciding vote reject, or deploy an instance), transferAdmin, flag, unflag, revoke | calls registry, factory and instances inside one transaction |
| `MasjidInstance.sol` | status, admin, roles, board counter, threshold, cash-out requests, token balance | donate; propose, approve, execute, cancel a cash-out; edit board and threshold; AccessControl's own functions; setAdmin and setStatus from the protocol | the stablecoin, the protocol |
| Indexer (`back-end/src/indexer`) | checkpoints in the database; in memory, the tick, pass, chunk and logs in hand | tick, pass per stream, fetch, handle, save; stop and restart | node (JSON-RPC), event handlers |
| Event handlers and tables (`event_service.go`, `repository/`) | masjids, attests, verifiers, cash_ins, cash_outs, cash_out_votes, board_members, users | one handler per event, each of one or two statements | called by the indexer and by the internal webhook |
| Internal webhook (`internal_handler.go`) | none of its own | the same handlers, posted from outside; overwrites checkpoints | event handlers |
| Authentication (`auth_service.go`, `middleware/auth.go`) | nonces in memory, tokens that carry a role | challenge, verify, set a name, claim a board role | users table |
| REST API and services | none | queries; label, name and profile edits | tables |
| Session (`lib/auth.ts`, `useAuth.ts`, `AuthGuard.tsx`, `connect/`) | token in localStorage, claims and step of the page, requests under way | sign in, choose a role, set a name, log out, guard a page | wallet, router, authentication |
| Donations (`app/masjid/[id]`) | step of the form, cached allowance and balance, submissions under way | approve if needed, then `cashIn` | wallet, node, stablecoin, instance |
| Pages of the board, the verifiers and the admin (`app/board`, `app/verifier`, `app/admin`) | what was read, rows and forms that are mounted, calls under way | propose, execute, cancel; register; vote; add, remove and name verifiers | wallet, node, contracts, API |
| Deployment, configuration, documents | none | | |

### What is hard in it, and what makes each part correct

**Registry and protocol.** A contract call is atomic, so what is hard is a long
sequence of legal calls by accounts that do not cooperate. `quorum()` is read
anew at every vote while verifiers come and go in between; a verifier that is
removed and added again must not get a second vote; a name is free again after a
rejection and the table that holds it is overwritten; a bad founding board is
only refused by the constructor of the instance, inside the deciding vote; the
protocol and the instance each keep a status and an admin. Correct means: the
counter is the size of the list and the quorum a strict majority of it, a verdict has
the majority of its own moment, one vote per account and mosque, no name shared by two live mosques, no verdict or status
ever undone, the two contracts agree, and what is deployed can reach its own
threshold.

**Instance.** Board members, admin and protocol act in any order on a request
that outlives changes of all of them. AccessControl's `grantRole`, `revokeRole`
and `renounceRole` stay callable and change a role without the contract's
counter noticing. The expiry is truncated to 64 bits. Correct means: money
leaves only for one live request, in its exact amount, with the threshold of
distinct approvals and by the recorded admin of a verified mosque; the terms
approved are the terms paid; a settled or expired request is out of play for
good; the books balance.

**Indexer and tables.** Three streams of events are read from a node that may
fail at every call, in a process that may stop between any two statements, and
written to tables that already hold what an earlier attempt wrote. A replayed
registration empties the row it finds. All instances share one checkpoint, and
an instance is only asked for once the tables name it. Correct means: once a
checkpoint has caught up, the rows are those of the chain, nothing is written for
a block that can still be replaced, and every checkpoint does catch up.

**Session.** Three things say who the visitor is: the wallet, the token in
localStorage and the claims a page has read. Each changes without the others: the
wallet by its own menu, the token in another tab or with an answer that comes after
its page was left, the claims only when a page mounts or the event `mp_auth_change`
comes. The service writes a user and reads it again for the token, while event
handlers rewrite the same row; nonces are lost with the process. Correct means: a
guarded page opens only to an account that signed in and was entitled to its role,
pages show the session that is stored, and neither a blank page nor a pending
signature stays.

**Donations.** One press of the button is up to two transactions, each with a
simulation, a prompt, a transaction and a receipt, and a read of the allowance in
between. Meanwhile the wallet may change its account, the page may be left and opened
again, and any call may fail; React Query drops the callbacks of a component that is
gone but not one that has started. Correct means: thanks only for what has arrived, no
error message for a donation that may yet go through, no allowance left without a
cause, and no form that stays busy.

**Pages with transactions.** A press outlives the component it was made in. Rows come
and go with results that may be missing, another mosque keeps the rows whose ids both
have, refreshes overlap and take forms away, and handlers that simulate before they
call the hook leave their button enabled; the form for registering first awaits an
upload of which its hook knows nothing. Correct means: what is shown has happened, one
component runs one call, success is reported of what was asked for last, and no spinner
stays.

## The modules and the code

| Module | Models |
|---|---|
| `VerifierRegistry` | `VerifierRegistry.sol`: `AddVerifier`, `RemoveVerifier`, `TransferAuthority`, `quorum` |
| `MasjidProtocol` | `MasjidProtocol.sol` and `MasjidFactory.sol`, composed with the registry by `INSTANCE`: `Register`, `Attest`, `TransferAdmin`, `Flag`, `Unflag`, `Revoke` |
| `MasjidInstance` | `MasjidInstance.sol`, the token and AccessControl as it uses them |
| `MultisigTreasury` | the promise an instance makes: funds, and proposals that are endorsed by distinct people, then paid once or voided |
| `ChainEvents` | the events both contracts emit and the transactions that may come next on a chain |
| `MasjidTables` | the tables as a record and every event handler as a function from tables to tables, one statement at a time |
| `Indexer` | ticks, passes, chunks, checkpoints, crashes and failing calls over those tables |
| `Session` | one tab of the site and the service that signs it in: `auth.ts`, `useAuth.ts`, `AuthGuard.tsx`, `Layout.tsx`, the connect page, `auth_service.go` |
| `DonateFlow` | the donation form of a mosque's page and its hooks, with the stablecoin's allowance as they use it |
| `PageCalls` | one transaction of a page: the life of `useWriteContract` and its receipt, shared by the four pages |
| `BoardPage`, `RegisterPage`, `VerifierPage`, `AdminPage` | one page each: what it reads and mounts, its buttons, and what its contract accepts |
| `Dashboards` | the four pages, one of them open, and the properties they share |
| `MCMasjidProtocol`, `MCMasjidInstance`, `MCIndexer`, `MCSession`, `MCDonateFlow`, `MCDashboards` | small instances for TLC |
| `MasjidProtocolProofs`, `MasjidInstanceProofs`, `IndexerProofs`, `SessionProofs`, `DonateFlowProofs`, `DashboardsProofs` | theorems and proofs |
| `PageCallsProofs` | lemmas about `PageCalls` that `DashboardsProofs` cites for every page |
| `FoldProofs` | lemmas about finite sets, sequences of sequences and sums, for `IndexerProofs` and `MasjidInstanceProofs` |

**Contracts.** One action is one transaction. A `require`, a `revert` or a
modifier is a guard, wherever in the transaction it comes, because a revert
undoes everything before it. The deciding `Attest` does what the code does in
that one call: counts the vote, compares with the quorum of the moment, and
then rejects, or lets the factory construct the instance, which may refuse and
undo the vote. In `MasjidProtocol` an instance is reduced to what the protocol
may do to it (status, admin, board, threshold); the rest of its life is
`MasjidInstance`, whose `SetAdmin` and `SetStatus` are the two calls it gets.
Addresses, names and tokens are model values. Payload that is stored and never
read back (`noteHash`, URIs, times of verification) is left out.

The roles of an instance are sets. The external functions of AccessControl are
actions of their own (`GrantBoardRole`, `RevokeBoardRole`, `RenounceBoardRole`,
`RenounceAdminRole`), since an account that holds the roles can call them and
the counter of the contract does not follow. Time is the variable `now`, and a
step that advances it is always possible.

**Indexer.** A block holds the events of one transaction. The state of the
process (`pass`, `step`, `from`, `to`, `logs`, `statement`, `instances`) is
what the code holds in local variables, and a `Crash` forgets it. The steps are
the points at which something else can be seen or can fail: reading the height,
reading a checkpoint, a call of `eth_getLogs`, a statement of a handler, saving
a checkpoint. Each of these may fail in the way the code treats it:

| Kind of fault | What the code does |
|---|---|
| `protocolLogs`, `registryLogs`, `instanceLogs` | logs it, ends the pass, goes on with the next pass |
| `handler` | logs it, goes on with the next event, saves the checkpoint |
| `checkpointRead` | takes the checkpoint for absent and starts again at the first block |
| `checkpointWrite` | logs it, goes on with the next chunk |
| `noAnswer` | waits for ever: the HTTP client has no time limit |
| `crash` | the next process starts from tables and checkpoints |

What the tables must say is read off the chain (`RowOnChain`, `InstanceRows`),
never off the handlers.

**Session.** `account` is the wallet, `token` localStorage, `claims` what `useAuth` of
the mounted page holds, `page` and `going` the route and the last call of the router
that has not taken effect (the last one wins). Every request of the site is a `job`
with a stage: the service's statements (`GenerateNonce`, `VerifyAndLogin`,
`InsertUser`, and for a claim or a name the write and then `RefreshToken`), the
wallet's prompt in between (`Sign`, `RefuseToSign`), and `Answered` or `Fails`. A job
goes on when its page is left; its answer is then stored all the same, as `setToken`
does. `signers` is a history variable: the accounts whose wallet has signed a
challenge. A restart of the service loses nonces (`NonceLost`); event handlers write
roles (`RoleEvent`); another tab logs out; a day passes and tokens expire.

**Donations.** `flow[s]` is submission `s` with its stage (simulating, prompting,
confirming, refetching, or how it ended) and `live`, whether the form that started it is
still there; `form` is what the component shows; `cached` is what `useReadContract`
holds, read when the page or wagmi chooses; `tx` is the network. `Approved` drops the
callback of a form that went, `Refetched` goes on without one, as the awaited function
does. `Mine` may come at any time after the signature, also after a lost receipt.

**Pages.** In `PageCalls` a `call` is one press, `watched[h]` the call a hook's state is
about, `call[c].live` whether its component is still mounted. `Inside` separates the
hooks whose mutation simulates (the board's) from the handlers that simulate before
they call the hook (verifier and admin). `Unmount` is what React does to hooks that go,
and each page says when: `BoardPage` when rows are no longer in the table, the form
closes or the dashboard turns to nothing; `VerifierPage` when the tab changes;
`AdminPage` whenever the lists are loaded anew. The service lists mosques without an
instance too (`deployed`): such a mosque has no reads, no rows and no form for a
cash-out, while `showPropose` waits for the next one. Whether a request has expired is
the browser's clock's to say (`MayPressRow`), which may be ahead of the chain or behind.
A name is taken and freed by others while the form for registering is open. The
contract behind a page is reduced to what can refuse the page's calls (`Accepts`), and
other people change it at any time.

## The runs

| Run | Module, configuration | Shows |
|---|---|---|
| `protocol` | `MCMasjidProtocol`, `MasjidProtocol.cfg` | quorum, votes, names, verdicts, the status machine and the mirror in the instances, while verifiers come and go between votes, a name is registered again after a rejection, and boards are proposed that cannot be deployed |
| `instance_governance` | `MCMasjidInstance`, `InstanceGovernance.cfg` | a request is proposed, approved and executed while board, threshold, roles, admin and status change in every order; payments stay authorised and terms fixed |
| `instance_treasury` | `MCMasjidInstance`, `InstanceTreasury.cfg` | two requests compete for the balance, lifetimes wrap, a payment goes to the treasury itself; books balance, settled is final, expired is never paid, and the contract implements `MultisigTreasury` |
| `indexer_registrations` | `MCIndexer`, `IndexerRegistrations.cfg` | any two faults of every kind during the passes over protocol and registry |
| `indexer_instances` | `MCIndexer`, `IndexerInstances.cfg` | a second instance is verified while the first is indexed, with a replaced head block and any two of three kinds of faults (failed saves are the run above); also that every checkpoint catches up |
| `donate_flow` | `MCDonateFlow`, `DonateFlow.cfg` | two submissions while accounts change, the page is left, reads are stale, and every simulation, prompt and receipt may fail |
| `session` | `MCSession`, `Session.cfg` | two requests of one tab while the wallet changes, another tab logs out, answers come late, the service restarts, an event changes a role and a day passes |
| `dashboards` | `MCDashboards`, `Dashboards.cfg` | two calls on each page while reads fail or overlap, mosques have no instance, forms are left and opened again, components come and go, others change the contracts and receipts are lost |
| `board_majority`, `indexer_loss`, `board_table`, `donate_again` | | counterexamples to sentences of the documents, see [below](#where-code-and-documents-disagree) |

The properties worth reading first:

- `PayoutIsAuthorised` (action): every step that lowers the treasury's balance
  settles one request, and in the state before it that request was open,
  unexpired, approved by at least the threshold in force in distinct accounts,
  its mosque verified and with an admin in office; the balance falls by exactly
  its amount. With `OnlyRecordedAdminHoldsRole` that admin is the recorded one.
- `ImplementsTreasury` (refinement): the contract is a multi-signature treasury.
  The mapping takes the instance's balance for funds, the threshold for the
  number required, and the phase of a proposal from its flags.
- `TreasuryBalances`: donations less what every destination received is what
  the treasury holds. It catches a payment that is short or made twice.
- `InstanceMirrorsProtocol`, `LiveMasjidHoldsItsName`, `VerdictKeepsItsVotes`:
  relations between the two contracts, between the name table and the structs,
  and between votes and their verdict over time.
- `VerdictHasMajority` (action): a mosque is decided with the votes of more than half of
  those who are verifiers as it is decided, and a vote that leaves it open leaves neither
  side with as many. Votes of former verifiers count among them, as they do in the code.
  It contains that the registry's counter is the size of its list (`QuorumIsMajority`,
  proved as `QuorumStaysMajority`).
- `MasjidsSynced`, `VerifiersSynced`, `InstancesSynced`: the tables against the
  chain after any replay. They exempt, by name (`Lossy`), the faults after which
  the code loses an event by design: a failing handler, and a checkpoint read as
  missing together with a crash or a failed save that leaves the replay half
  done. `InstancesSynced` also exempts a failed `eth_getLogs` of the protocol
  pass, the case run `indexer_loss` shows to lose events.
- `NoPhantomRows`: no row stands for an event outside the final blocks, the
  reason the indexer stays one block behind the head.
- `EventuallyCaughtUp` (liveness): every stream's checkpoint reaches the block
  before the head again and again.
- `GuardedPageIsEarned`, `ShownClaimsAreStored`: a page's claims against the wallet that
  signed and against localStorage, over late answers, logouts and page changes. The
  second exempts a logout in another tab, of which the code is not told.
- `RefusedIsUnpaid`: after every error message but the one for a lost receipt, no
  donation of that submission is paid or on its way, so trying again is safe.
- `AllowanceHasACause`: the instance may take from an account only what was approved for
  a donation that did not go through.
- `RowsAreHistory`: results are matched with request ids although any of them may be
  missing; the table shows no approval, execution or cancellation that has not happened.
- `OneCallPerComponent`: a row or a form of the board never has two calls under way.
- `SuccessIsOfLastPress`: the form for registering says that a registration is in a block
  only when it is the one submitted last. It uploads before it calls its hook, and goes on
  when it is left and opened again; its own flag `uploading`, and React Query dropping what
  a form that is gone has started, are what this rests on.
- `BlankPageIsLeft`, `SigningEnds`, `BusyFormSettles`, `SpinnersEnd` (liveness): nothing
  the visitor waits for stays for ever.

The pages do let the same vote or cash-out be sent twice (a verifier's button while the
vote is simulated, a row that was mounted anew). No property here says otherwise: it is
the contract that makes the second one revert, which `OneVotePerAccount` and
`SettledIsFinal` are about.

## Bounds

| Bound | Value | Why it is enough |
|---|---|---|
| Accounts of the protocol run | 3 | quorum is 1, 1, 2, 2 for 0 to 3 verifiers: a majority that a removal or an addition changes in both directions |
| `MaxMasjid`, `Name` | 2, 2 | a name taken, freed by a rejection and taken again, and one that stays free |
| `BoardList` | 3 boards | a sound one, one with a repeated member, one with the zero address |
| Accounts of the governance run, founding board | 3, 2 | the admin is outside the board, can join it, and a member can be replaced |
| `MaxRequests` | 1 with a changing board, 2 with a fixed one | one request meets every change of governance; two compete for the balance |
| `MaxBoardCount` | 3 and 2 | the counter drifts above and below the real board |
| `MaxFunds`, `Amount` | 1 and 2, amounts 0 to 2 | two requests that each fit and together do not |
| `MaxTime`, `Lifetime`, `Uint64` | 3; 0, 1, 7; 8 | `Uint64` stands for 2^64. A lifetime of 7 in a width of 8 wraps to an expiry in the past, one of 0 or 1 ends inside the run |
| `MaxBlocks`, `Genesis` | 5 or 6, of which 1 or 3 at the start | several chunks and a chain that grows between ticks |
| `ChunkSize` | 2 | chunks that end at the last final block, before it, and exactly on it |
| `MaxFaults` | 2 | every pair of faults, so a crash after a failed save and a fault during the replay of another |
| `MaxReorgs` | 1 | the head replaced once; a replacement deeper than the head is beyond the one confirmation the code itself relies on |
| `Account`, `Amount`, `Funds` of the donation run | 2; -1, 1, 2; 2 | an account that changes under a submission; an amount the encoding refuses, two donations that fit and two that do not |
| `MaxSubmissions` | 2 | a submission that is left behind and a new form, and a donation after a donation |
| `Account`, `Head`, `EventRole` of the session run | 2, 1, 1 | one account may claim the board role, the other is made a verifier by an event, neither both |
| `MaxJobs`, `MaxDay`, `MaxRoleEvents` | 2, 1, 1 | two requests under way at once, as many as one page can leave to the next; a token that expires |
| `MaxCalls` | 2 | two presses of one button, of two buttons of a row, of two rows |
| `Masjid`, `Lists`, `Begun` | 2; none, one or both, each with an instance or without; 1 each | another mosque with the same request id, one without an instance, a list that shrinks and empties |
| `MaxRequests`, `MaxThreshold` | 2, 2 | a request added to a table, a threshold that is met, missed and missing |
| `MaxEvents` | 2 | on the board page, presses, failed reads, changes by others and of the wallet together: every pair of them, in every order with the steps of code and network |
| `Account`, `Name`, `Person`, `MaxLabels` of the pages | 1 each | an account or none; two calls about the same name or person, which is the case that can go wrong |

The indexer runs let the chain change only between ticks (`QuietSpec`). A tick
reads the height once and after that only blocks below it, and those no longer
change, so a block that comes during a tick is not distinguishable from one that
comes after it. `Spec` itself has no such restriction, and it is `Spec` that the
theorems of `IndexerProofs` are about.

Deadlock is checked in every run but one: with `noAnswer` the indexer really can
stop (`indexer_registrations`).

The bounds on requests, board size, donations, submissions, jobs and time are guards of
the actions. They are parameters of the proofs, which hold for all their values.

## Fairness

The contract specifications have none: nobody has to vote, pay or donate, so
they promise only safety.

`Indexer` has `WF_vars(IndexerStep)`: a ticker of five seconds (`indexer.go`
93-116) starts the next tick in a running process, and every step of a pass ends
with a result or an error. The exception is a call of the node that is never
answered, which is the fault `noAnswer`: it disables every step of the indexer. It is
among the faults of `indexer_registrations`; `EventuallyCaughtUp` is checked without
it, since nothing in the code recovers from it. Nothing is assumed of the chain, and of
the other faults only that they are finitely many, so a process that dies is taken to
run again. The deployment qualifies this: `fly.toml` stops
a machine that gets no requests, and then the indexer stands still until one
comes.

`DonateFlow`, `Session` and the pages are weakly fair in what needs nobody's decision:
a mutation goes on, a node or the service answers or fails (a browser ends every
request), the network includes or refuses what was sent, effects run and the router
arrives. Each submission, job and call has its own fairness (`FlowStep`, `JobStep`,
`CallStep`), as requests do not wait for each other. Nothing is assumed of people: a
prompt of the wallet may stay open for ever, and the liveness properties except exactly
that; no button need be pressed, no account need come back.

## The proofs

Each specification has an inductive invariant `IInv` that the proof modules
define, and the proofs are `Init => IInv`, `IInv /\ [Next]_vars => IInv'`, with
one step per action and one lemma per conjunct that needs an argument of its own.
They assume what the modules' `ASSUME`s say of the constants, which the runs
evaluate, and nothing else: any number of accounts, names, boards, requests,
amounts and lifetimes.

`MasjidProtocolProofs`. The invariant adds to the checked properties that
nothing is stored beyond the nonce (`RegisteredUpToNonce`), that the stored
threshold comes from the stored board (`ThresholdFromBoard`) and that a pending
mosque's admin is its proposer (`ProposerOfPending`). These are needed: names
are only unique because registration writes a fresh id, and the deployed board
is only sound because the constructor sees the threshold computed at
registration. Proved: `TypeCorrect`, `QuorumStaysMajority`, `VotesAreDistinct`,
`NamesAreHeld`, `InstancesMirrorProtocol`, `BoardsStartSound`, and the action
properties `StatusForward`, `VerdictsKeepVotes` and `VerdictsHaveMajority`.

`MasjidInstanceProofs`. The invariant adds `RequestsUpToNonce` and
`OneSettlement` (no request is both executed and canceled). Proved:
`TypeCorrect`, `DistinctApprovals`, `ThresholdStaysWithinCount`,
`RecordedAdminOnly`, and the action properties `PayoutAuthorised`,
`TermsAreFixed`, `SettledForGood` and `ExpiredStaysUnpaid`. `PayoutAuthorised`
is where the parts meet: the threshold comes from the guard, the distinctness of
the approvals and the recorded admin from the invariant. `TokenConserved` is
`TreasuryBalances`, a sum over all payees of sums over all requests. It needs that
every payee holds exactly what was paid to it (`PayeesHoldTokens`) and, from
`FoldProofs`, what a sum becomes when one of its terms changes (`SumChangedAt`).
`TreasuryImplemented` says that every behaviour of the instance is one of
`MultisigTreasury` under the refinement mapping: each action maps to one abstract
step or to a stutter.

`IndexerProofs`. All of it is about `Spec`, in which blocks come and the head is
replaced at any moment of a tick, for any chain, chunk size, faults and number of
reorganisations. `IInv` adds to the types that the logs in hand are final
(`logs \in Seq(FinalLogs)`), since a handler writes what its log says, and that
every table is `Real`: row by row, about a final log. Proved from it: `Typing` (with
it, that checkpoints and process name only final blocks) and `RowsAreReal`
(`NoPhantomRows`).

`VerifiersAreSynced` and `MasjidsAreSynced` are `VerifiersSynced` and `MasjidsSynced`. In
the middle of a replay the tables may be wrong, and different events write different
columns, so `SyncInv` speaks of cells: whether an account is an active verifier; that a
mosque has a row, its status, its instance, its counts; the vote of an account on a
mosque. Each cell says what the last event that writes it says (`Right`), or an event
that writes it is still to be handled (`RightOrAwaited`). That is stated twice: of the
events after the checkpoint (`AtCheckpoint`), for a process that starts again, and of the
logs in hand and the blocks after the chunk (`AtPosition`), for the one that runs.
Neither follows from the other. A checkpoint read as missing sets the process
behind its checkpoint, and then `AtCheckpoint` fails until the replay is over: that is
why `Lossy` names a crash or a failed save after such a read, and the proof breaks
without it. The rest is order: the last log in hand that writes a cell is its last event
when nothing after the chunk writes it (`InOrder`), which rests on what `FlattenSeq` does
to the last element with a property (`FlattenedLast` in `FoldProofs`), and a handler
between its two statements has written what the first one writes (`HalfDone`). A new
block makes the cells it writes awaited again.

The rows need two things the verifiers do not. A handler that finds no row does nothing
(`FindByID`), so a decision or a vote must not be handled before the registration it is
about: `Complete` says what a missing row lacks, and a log's row is there because
everything said of a mosque comes after its registration (`RegisteredBefore`), in logs
that are handled in the order of their blocks. That is a property of the chain, and so
is that a mosque is registered once, an account votes once (`VotesOnce`) and the last
vote carries the counts of all (`CountsOfLast`). They are proved of every chain that is
`Lawful`: each block is a transaction the contracts allow after the blocks before it.
`SyncInv` keeps that of the chain, and `GenesisAssumption` asks it of the chain the back
end starts with. `SyncInv` was checked with TLC before it was proved (2,591,547
states of `QuietSpec` under the bounds of `indexer_registrations`, and `Spec` itself on
a chain of four blocks). `ColumnsFollow` is the induction; what the contracts' events then
say of a row is read off the last event of each cell (`RowFollows`, `VotesFollow`).

`InstancesAreSynced` is `InstancesSynced`. The rows of an instance are not written by a
last event: a donation of the same block takes the place of another, and a proposal that
is replayed takes back what became of the request. So `InstanceInv` speaks of logs, not
cells: each final log of an instance is shown by a row (`Shown`) or is still to be handled
(`ShownOrAwaited`), again both where the process is and after the checkpoint. Four facts
carry the induction.

- Nothing is filtered out (`FilterComplete`). The filter is made of what the tables name
  when the pass begins, and the pass over the protocol in the same tick has brought them
  to the tick's last block (`ProtocolDone`, from `SyncInv`), so by `TablesName` they name
  every instance with an event up to it. A failed `eth_getLogs` of that pass breaks
  exactly this, which is why `InstancesSynced` exempts it.
- What a handler takes back comes later in the chain (`UndoneIsLater`), and the logs in
  hand are all that is left of the chunk (`LogsComplete`), so it is handled again.
- A handler finds the request it needs (`RequestIsThere`): the proposal lies before, so
  it is shown. Without this an approval would be dropped.
- Every row names its mosque and a request has one row (`Linked`), whatever has been lost.

The chain's part is again proved of every `Lawful` chain: an instance has no event before
its deployment, it is announced once, and requests are numbered in order
(`SpentInChain`, `VerifiedOnce`, `ProposedFirst`). `InstanceInv` was checked with TLC
before it was proved: 513,053 states of `QuietSpec` with five blocks, a replaced head and
every fault, 4,936,091 with six blocks, and `Spec` itself on a chain of four blocks.
`InstancesAreFollowed` is the induction.

`FoldProofs`. `FlattenSeq` and `SumFunctionOnSet` are folds, and a proof about a fold is
an induction. It is done without the library's induction theorems: a set of naturals
with an element has a least one (`LeastNat`), so a set of naturals that contains 0 and
is closed under successor contains all of them (`NatInduct`), with the set written
out at every use.

`DonateFlowProofs`. The invariant adds that the stage of a submission and the state of
its transactions agree (`StagesMatchTx`), that what reaches a wallet is a
positive amount for one of its accounts (`SentIsSound`), that thanks are for one submission (`ThanksForOne`) and
that an allowance is the amount of an approval whose donation has not gone through
(`AllowanceIsBounded`), which is how `AllowanceHasACause` becomes inductive: the cause
has to bound the amount before a donation by the same account may take it away. Proved:
`TypeCorrect`, `OneFlowPerForm`, `ThanksAreEarned`, `RefusalsAreFree`,
`AllowancesHaveCauses`, for any number of accounts and submissions and any amounts.

`SessionProofs`. A guarded page is earned because every place a token can be is: the
invariant says so of localStorage, of the claims, and of every answer under way
(`EarnedAnswers`), and of the roles in the users table (`GroundedRoles`). Proved:
`TypeCorrect`, `GuardedPagesAreEarned` and `ShownIsStored`, for any number of accounts,
requests, events and days.

`DashboardsProofs`. One `IInv` for the four pages, each with a part of its own
(`BoardInv`, `RegisterInv`, `VerifierInv`, `AdminInv`), over lemmas about the life of one
call in `PageCallsProofs`. `OneCallPerComponent` needs that a call which a mounted component
has prompted or sent is the one its hook watches (`InsideIsWatched`), `RowsAreHistory`
that every result held, however old, is a past of the request as it is now
(`ReadsAreHistory`, `MayBecome`).
`SuccessIsOfLastPress` needs that what runs for the form, or what its hook says is in
the network or in a block, is the last call that was pressed (`SpeaksOfLast`), with calls
numbered in the order of their presses (`InOrder`). Each step keeps it because the hook
comes to speak of a call only while that call runs for the form (`SpeaksOfItsOwn`); what a
form that was left goes on with no longer does.
The loads a page still owes an answer for are bounded by what has been confirmed
(`Owed`, `Due`), which is what makes the counters' types inductive. Proved: `Typing`,
`RowsShowHistory`, `ComponentsRunOne` and `FormSpeaksOfLast`.

Only model-checked: liveness (`EventuallyCaughtUp`, `BusyFormSettles`,
`BlankPageIsLeft`, `SigningEnds`, `SpinnersEnd`) and `ENABLED`, which are out of the
prover's reach. Every safety invariant and action property that a passing run checks is
also a theorem.

## Where code and documents disagree

Each of these has a run whose counterexample shows it:

1. `board_majority`. "A majority of board members must approve any withdrawal".
   The threshold is any number the admin sets between one and the counter, and
   approvals of former members count.
2. `indexer_loss`. "The backend automatically syncs all smart contract events."
   The instance pass filters by the instances the tables name and moves a
   checkpoint all instances share, even when the protocol pass of the same tick
   failed. The first events of a new instance are then never read.
3. `board_table`. The same sentence. `is_active` is declared `default:true`, and
   gorm inserts the default for a zero value: a removal is stored as active.
4. `donate_again`. "Approve the token (if not already approved)". The form decides by
   an allowance that is read again after an approval but not after a donation, so the
   second donation of a visit skips the approval it needs and is refused.

Seen while modelling, and part of the models, without a run of their own:

- `docs/smart-contracts/overview.md:118`: a request is executable while it "has not
  expired (`block.timestamp < expiresAt`)". `MasjidInstance.sol:250` (and 233, for
  approvals) refuses only `block.timestamp > expiresAt`, so a request is still approved
  and paid in the second of `expiresAt`. `PayoutIsAuthorised` says `now <= expiresAt`.
- `docs/core-flow/user-flows.md:54`: "any board member can call
  `executeCashOut(requestId)`"; `docs/smart-contracts/overview.md:91` and
  `docs/security/overview.md:27` let board members execute too. The function asks for
  `ADMIN_ROLE` (243), which the admin alone has, on the board or not; with the admin's
  role renounced nobody can execute until the protocol names another.
  `PayoutIsAuthorised` says `adminRole # {}`, and `OnlyRecordedAdminHoldsRole` who that is.
- `docs/smart-contracts/overview.md:62`: "When quorum is reached" the instance is
  deployed. `attest` compares only while a vote is cast, so a mosque can stay Pending
  with enough votes after a verifier was removed.
- `docs/security/overview.md:66`: "a majority of registered verifiers must attest".
  Votes of verifiers that were removed since keep counting.
- `docs/intro.md:48`: "Propose and approve cash-out requests through the board
  dashboard". The dashboard has no button that approves.
- `app/board/ui.tsx:66-75`: a request that has its approvals and has expired is shown as
  "Siap Eksekusi" (`CanExecute`); only the button looks at the expiry.
- `app/board/ui.tsx:129-142`: the form for a proposal is closed as soon as there is a
  hash, so the confirmation it would show is never reached (`Sign` of `BoardPage`).
- `app/admin/ui.tsx:343-366`: an error of one load is never cleared and replaces the
  page for good (`AnswerFails`).
- `indexer/rpc.go:50`: the JSON-RPC client has no time limit (`noAnswer`).

## What is not modelled

- Payload: names, notes, URIs, transaction hashes, times. Where a time or a key
  matters to a property it is there (`now`, the transaction of a donation).
- Views of the contracts, read-only queries of the API and the parts of pages that only
  show them; edits of a label or a profile beyond the admin page: no control.
- `setMetadataUri` of the instance: only the protocol may call it and it never
  does.
- `ChainEvents` restates the order of events the contracts emit rather than
  composing the contract modules, and the pages restate what the contracts refuse: a
  chain of whole transactions with the full state of both contracts is out of TLC's
  reach.
- Two transactions in one block and two donations in one transaction (one row per
  `tx_hash`); two indexer processes on one database; the internal webhook, whose caller
  is not in the repository. Each would be a second writer over `MasjidTables`, beyond
  the size TLC can explore with the faults of the first.
- The order in which three streams write `users.role`: `Session` lets an event write
  any role it may write, at any time, which covers every order. The role `admin`:
  nothing in the repository writes it. Two answers to one nonce: the site sends one.
- ABI tables, number formats, styled widgets, providers, deployment, configuration and
  migrations: wiring and pure I/O.
- A token that takes a fee or calls back. The stablecoin is `MockIDRX`, a plain
  ERC20.

## What could come next

The modules were written in the order contracts, events and tables, indexer, donations,
session, pages, each with its properties and then its proofs. Worth adding, in this
order:

1. `MasjidSystem`: protocol and instances composed, with `SetAdmin` and `SetStatus` as
   the protocol's calls; each contract module shown to be implemented by the
   composition, so that its theorems carry over.
2. A second writer over `MasjidTables`: two indexer processes that overlap, or the
   webhook, and several donations in one transaction.
