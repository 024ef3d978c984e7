# Formal models of Switchboard

Switchboard connects coding-agent sessions on several machines with each other
and with their owner's phone. A **Router** (`src/src/federation-server`) holds
every durable inbox; one **Gateway** per machine (`src/src/gateway`) holds the
live sessions; agents reach their Gateway through an MCP plugin
(`src/src/mcp`); the owner's console is an Android app (`src/android`).
This directory holds TLA+ models of the parts whose correctness depends on
crashes, retries and interleavings, the TLC configurations that check them, and
TLAPS proofs of what matters most.

Four models follow one message through the system: how the Router keeps it on
disk (`OwnerStateStore`), how the op ledger accounts for it (`Inbox`), how it
reaches an agent session (`InboxDelivery`) and how it reaches the owner's
console (`ConsoleInbox`). The others are about what stands beside this way: what
the Router keeps for an owner (the board, the vault, queued writes, scheduled
sends, shares, blobs, the lock of its store, signed statements), and what a
gateway keeps (jobs, content keys, sessions, what it reports of them, agents).

## The system

| Part | State it keeps | Operations | Talks to |
|---|---|---|---|
| Owner state store (`federation-server/owner`) | records, inbox rows, next sequence numbers; snapshot, journal and manifest files | put, del, append, remove, retire, batch, compact, open, close | every Router service |
| Op ledger and inbox rows (`federation-server/inbox`) | op records, rows per address, delivery epochs, gateway incarnations | append, result append, ack, retire, sweep, session forget | Gateways over the bridge, phones through owner ops |
| Owner inbox cursors and console sockets (`inbox`, `console`) | consumer cursors, floor, bound sockets | consumer register, read, advance, forget; hello, ack, push | phones |
| Owner-op intake (`inbox/ownerOpIntake.ts`) | in-memory answer cache, durable nonces | verify, deduplicate, dispatch, fence | phones |
| Gateway bridge (`gatewayBridge.ts`, `bridge/`) | one connection and incarnation per gateway | register, frames, push, redeliver, drop | Gateways |
| Delivery pump (`gateway/router/inboxDeliveryPump.ts`, `inboxClaims.ts`) | durable claims, rows waiting for a content key | deliver, ack, land, wake | Router, channel delivery |
| Channel delivery (`gateway/channelDelivery.ts`, `shared/pending-delivery-store.ts`) | durable pending deliveries per team | accept, offer, drain, acknowledge, retire | agent sessions |
| Router client (`gateway/router/routerClient.ts`) | socket, pending calls, incarnation, candidate reaches | connect, register, call, time out, reconnect | Router |
| Owner lock (`owner/ownerLock.ts`) | lock file, generation, heartbeat | open, take over, refresh, stop | owner store |
| Board, vault, shares, scheduled sends, presence, capabilities, read anchors | records in the owner store, in-memory projections | versioned writes, sweeps, timers | phones and Gateways |
| Blobs, references | content-addressed cache, held set, leases | begin, chunk, fetch, evict | Gateways, phones |
| Keys, enrolment, trust, cross-Domain links | keys, admissions, allowlists, handshakes | grant, install, approve, link, unlink | phones, Gateways |
| Migration fence and leases | epoch file, leases per gateway | raise, lower, lease | every writer |
| Sessions, wake, crosstalk jobs, agent services (codex, copilot) | session store, pending jobs, agent records | send, respond, wake, resume | agents |
| MCP plugin and host daemon | local tools, tmux and app-server children | tool calls | Gateway |
| Android console | local copies, mutation journal | sync, upload, retry | Router, Gateways |

### Which behaviours are hard, and what must hold

- **The store** answers a write after its fsync. The process may stop between
  any two system calls, a power loss may undo whatever no fsync covered, a
  write, truncate or fsync may fail, and compaction replaces three files one by
  one. What was answered ok must survive, what was answered failed must not
  come back, and sequence numbers must not be reused.
- **The ledger** has one record per operation and several rows that speak for
  it: the operation's own row at its address, result rows at its sender. Acks,
  failed deliveries, forgotten sessions and the 30-day expiry all write the
  same record. An open record must keep a row that can still end it, an ended
  one must stay ended, and a console op must be answered before it is retired.
- **The console** reads one inbox two ways, pushed frames while the app is
  visible and polls while it is not, and both move one cursor at the Router.
  Compaction drops what every cursor has passed, so a cursor that runs ahead
  loses a row for good.
- **Delivery** crosses three durable stores (the Router's rows, the gateway's
  claims, its pending deliveries), two connections and one session that may be
  asleep. No step is atomic across two of them. A row must not be called
  delivered before the session has shown it, and must not be forgotten by
  everyone.
- **Values of the owner** are written by several phones, sessions and timers.
  An answer may be lost and the write repeated under a new nonce; a list and the
  answer of a write land in either order; a record may be written in several
  steps of one turn, each of which the store may refuse. A write must be applied
  once and its author told what became of it; a reader's cursor must stand for
  what the reader holds; what was revoked or cancelled must stay so.
- **The lock** of an owner's directory is taken over from a process that seems
  dead and may not be. Two stores must not write the same line.
- **A conversation between gateways** has a job on either side, calls that time
  out while they are under way, and replies that are tried again. A reply must
  not be lost, and between Domains it must not land twice.
- **Sessions** register, are evicted, go silent and come back under names that
  wakes, forgets and transcripts also move; what the Router shows of them is
  reported one frame at a time over connections that are replaced.
- **Agents** run turns in a child of the host daemon. Receipts, terminals and
  reconciliations of a turn cross a socket, a gateway and a daemon that restart
  independently; the end of a turn must be told, once.

## Modules

| Module | Models | Checked through |
|---|---|---|
| `OwnerStateStore` | `ownerStateStore.ts`, `journal.ts`, `atomic-write.ts` | `MCOwnerStateStore`, `OwnerStateStoreProofs` |
| `OwnerLog` | what the store promises its callers: an append-only log that may lose unacknowledged tails and may be quarantined | `MCOwnerStateStore`, `OwnerStateStoreProofs` (refinement) |
| `Inbox` | `inboxAppend.ts`, `inboxRetire.ts`, `inboxSweep.ts`, ack and forgetSession of `inboxService.ts`, the pump's console ops | `MCInbox`, `MCOwnerValues`, `InboxProofs` |
| `InboxDelivery` | `gatewayBridge.ts`, `registrationHandler.ts`, `inboxDeliveryPump.ts`, `inboxClaims.ts`, `channelDelivery.ts`, `pending-delivery-store.ts`, wakes, the plugin's confirmations | `MCInboxDelivery`, `InboxDeliveryProofs` |
| `ConsoleInbox` | the owner address of `inboxService.ts`, `consoleSockets.ts`, `ConsoleSocketDriver.kt`, `ConsoleTransportCoordinator.kt`, `PollDrain.kt` | `MCConsoleInbox`, `ConsoleInboxProofs` |
| `Board` | `boardService.ts` with `shared/board-*.ts`: batches, authority, cascades, session ends, the trash | `MCBoard`, `MCOwnerValues`, `BoardVaultProofs` |
| `BoardRank` | `shared/board-rank.ts` and the drops of the phone | `MCOwnerValues` |
| `VaultSync` | `vaultService.ts`, `foldVersionedList`, `vaultClient.ts`, `VaultManager.kt`, `VaultOps.kt` | `MCOwnerValues`, `BoardVaultProofs` |
| `OwnerOpIntake` | `ownerOpIntake.ts`, `boardService.write`'s record, `BoardRouterWriter.kt` | `MCOwnerValues`, `OwnerValuesProofs` |
| `ScheduledSends` | `scheduledService.ts` | `MCOwnerValues`, `OwnerValuesProofs` |
| `Shares` | `shareService.ts`, `share-rules.ts`, the gate of peer rows in `inboxService.ts` | `MCOwnerValues`, `OwnerValuesProofs` |
| `BlobCache` | `routerBlobCache.ts`, `blob-store.ts` | `MCOwnerValues`, `BoardVaultProofs` |
| `OwnerLock` | `ownerLock.ts`, what `ownerStateStore.ts` does under it | `MCOwnerValues`, `OwnerValuesProofs` |
| `RunbookFire` | `durableOpStore.ts`, `consoleRunbookFire.ts`, the op's path through `consoleHandler.ts` | `MCOwnerValues`, `OwnerValuesProofs` |
| `Enrolment` | `enrollmentCoordinator.ts`, `admission.ts` | `MCOwnerValues`, `OwnerValuesProofs` |
| `Crosstalk` | `routesSend.ts`, `routesRespond.ts`, `relay.ts`, `gatewayRelay.ts`, `relayRouter.ts`, `pending-job-store.ts` | `MCGateway`, `GatewayProofs` |
| `ContentKeys` | `keyRequester.ts`, `keyDeliveryService.ts`, `KeyDeliveryOps.kt`, `contentKeyStore.ts`, the parked rows of the pump | `MCGateway`, `GatewayProofs` |
| `Sessions` | `websocket.ts`, `handshakeGate.ts`, `sessionAuthority.ts`, `session-store.ts`, `wakeService.ts` | `MCGateway`, `SessionsProofs` |
| `Presence` | `presenceReporter.ts`, `presenceProtocol.ts`, `presenceService.ts`, the drops of `gatewayBridge.ts` | `MCGateway`, `GatewayProofs` |
| `SessionRegistry` | `sessionRegistryReporter.ts`, the session frames of `inboxFrames.ts` and `inboxService.ts` | `MCGateway`, `SessionsProofs` |
| `CodexAgents` | `CodexAgentService` with its reducers and its receipt applier, `codexRelay.ts`, `agentDaemonCore.ts`, `codexCommandDispatch.ts` | `MCGateway`, `GatewayProofs` |
| `ThreadLifecycle` | `codexThreadLifecycle.ts` over the app server (external) | `MCGateway`, `GatewayProofs` |

In the modules that have the constant, `Faults` chooses which failures of the environment a behaviour
may contain; the module says what each name stands for. Definitions whose comment
starts with "Mutant" are wrong on purpose: each is a plausible bug that
some property has to notice.

### OwnerStateStore

State: the manifest (as the file system shows it and as a power loss may bring
it back), the snapshot and journal of each generation, how many journal lines
an fsync covered, and the process: `status`, the `state` it serves, its
generation, the line being committed and the system call a commit or a
compaction is `phase`d at. A batch is the identity of the write that made it:
the module is about which batches survive, not what they contain.

`CommitWrite`, `CommitFsync` and their failures are `commit()`;
`CompactSnapshot`, `CompactJournal`, `CompactManifest`, `CompactSwitch` are the
three atomic writes of `compact()` and the in-memory switch; `Open` and
`OpenQuarantined` are `open()` with its torn-tail cut, replay and quarantine. What
`open()` keeps in memory (`DropTorn`) and what its truncate leaves on disk (`Cuts`) are
two things: the length is counted in characters and applied in bytes, so with text
outside ASCII in an earlier line (fault `wide`) the file loses lines that memory still
serves, and `overcut` observes it.
`Stop`, `StopInWrite`, `PowerLoss` and `Damage` are the environment.

`OwnerLog` is the abstract store. `MCOwnerStateStore` maps the log to what a
caller could read (the served state when open, what `open()` would replay when
down, nothing when quarantined), and `ImplementsLog` states the refinement.

### Inbox

State: rows per address, next sequence numbers, one ledger record per operation
(state and recorded result), the rows past their TTL, and where the gateway's
pump is with a console op. Which operations there are, their kind, sender and
address are constants. `AppendRow`, `AppendConsoleResult`, `GatewayAcks`,
`ConsoleOpWaits/Runs/Fails/Acks`, `OwnerReads`, `ForgetSession` and
`SweepExpired` are one action per operation; `Appends`, `Removes` and `Retires`
are the store batches they share (`retireRow` writes the record and a result
row for the sender in one batch). A commit may fail, or be applied and
answered uncertain.

### InboxDelivery

State: the Router's `fate` of each row, the connection and the frames on it, the
gateway's two durable stores (`claims`, `pending`), what its handlers await
(`wakes`, `calls`), the session with its socket and confirmations. JavaScript
runs a handler up to its next `await` without interruption, so that is one
action, and what is awaited is state. `RepeatsOutcome`, `Refused`, `OfferedRow` and
`QueuedRow` are the four ways of `deliver()`/`land()`; `GatewayEnds` under the
fault `cut` stops between the two files a handler writes.

### ConsoleInbox

State: the owner address (rows, next sequence number, floor), consumer records,
the frames on each socket, and on the phone the coordinator's `cursor`, `epoch`
and `pendingAdvance`, the running poll tick, and the drain coroutines (`jobs`)
that race for one mutex. `HandleHello`, `HandleAck`, `AppendRow` with its push
and `SweepInbox` are the Router; `OnWelcome`, `OnRows`, `OnStale`, `DrainRows`,
`PollStart`, `PollRead`, `PollAdvance` the phone. The sweep is one action that
under the faults leaves any part of its commits done.

### What the Router keeps for an owner

`Board`: entries linked by parent pointers, the holder of each, and the rows the
last write appended. `BoardWrite` is one batch of one actor: each operation in
turn, then the promotion of orphans, the cycle check and the cascade of terminal
states, all or nothing. The rows of its holders are appended after the commit, one
by one: any of them may be refused or cut off by a stop (`lastWrite.unwritten`).
`SessionEnded` and `SweepTrash` go through the same cascade. The operations of a batch, the turns of a cascade and the walk to the
root are recursive functions of the number of steps taken; a turn takes the last item off
the work list (`CascadeStep`), as the code does, and the number of turns is the
code's ceiling (`Ceiling`). Titles and texts are absent; a rank is in `BoardRank`.

`VaultSync`: the Router's entries with their revisions and tombstones, and for each
reader the list it holds, the lists it has asked for and the answers of its
writes. A list is read by the Router (`RouterReads`) and folded in by the reader
(`ListLands`) in two steps, so answers and lists pass one another.

`OwnerOpIntake`: the phone's queue, its posts (each may arrive late and twice), the
Router's answer cache, the handlers that ran and have not been awaited yet, the
durable nonces and the record of the operation. `Arrive` is the intake up to the
handler's promise, `Settle` what follows it; between the two the Router may stop.

`ScheduledSends`: the slot of one target. `FireMarks`, `FireSends`, `FireRecords`,
`FireFails` and `FireReports` are the writes of one firing; each may fail and the
Router may stop after each. `RouterRearms` is what a start finds.

`Shares`: shares by name and with everyone, unlink marks, generations, edges, and
the rows of peers that wait. A row carries the generation it was admitted under;
`PullRow` asks again. `era` and `cut` observe what the owner revoked.

`BlobCache`: part files, complete files, the index in memory and on disk, the
recovery files. A ciphertext is the upload that made it, a file the sequence of its
chunks by upload. Files change before the index is written (`Persist`), and
`CacheRestarts` reads an index that may be older than the files, or rebuilds it.

`OwnerLock`: what the name of the lock points at, what each file says, and each
process's place in `open()`, one system call a step; a heartbeat truncates
(`refresh`) before it writes (`Beat`).

`RunbookFire`: the marker of one operation in memory and on disk (its saves are best
effort), `firingNow`, the fire in progress and the migration fence. A message for a session
here is queued or refused by this gateway's fence (`deliver`), one for another gateway is taken
there or refused by that one's; `FailsLate` is a fire that is told it failed after its message left. `Enrolment`: the signed statements stored, by the time they
were signed at, against everything that was `said`.

### What a gateway keeps

`Crosstalk`: one conversation between two gateways, of one Domain or of two
(`cross`): the job each side holds and has saved, the calls under way, and each
reply's attempts. A call that times out stays under way.

`ContentKeys`: the keys held, the requester's `wanted` epochs and timer, the rows
parked in memory and claimed on disk, and the grants. The awaits of `deliver`
and `landGrant` are steps of their own (`ParkingAcked`, `GrantReceipted`).

`Sessions`: sockets, records, handshakes in question, bindings, wakes. `register` is
the whole handler: identity, token, conversation, transcript, eviction, challenge.
`Presence`: the reporter's `sync`, debounce and frame that is out, and the Router's
rows, record and the connections it has not seen closed. The Router takes a frame one store
write at a time (`Taken`, `TakenInPart`), and those of a replaced connection too
(`LateFrameTaken`). `SessionRegistry`: records, what is pending, the calls out in order, those
of a lost connection that are still on their way (`strays`), and the sessions the Router knows.

`CodexAgents`: the gateway's record with its operations, the relay's held frames and
guard, the daemon's outbox and bound turns, what the app server knows, and the
two directions of the socket. `ThreadLifecycle`: the client's record of one thread,
the operation that has its queue, and the external server with its notices.

`MCGateway` and `MCOwnerValues` put the modules side by side: `focus` chooses the
part that runs, the others stay in their initial states. No module reads or
writes a variable of another, so a behaviour of all of them together is, for each
part, a behaviour of that part and steps that leave it alone, and what is checked
of the parts holds of the whole. Where two parts do meet in the code (a board write
goes through the intake, a scheduled send through the op ledger, a parked row
through the pump) the module of the caller carries what it needs of the other.

## Runs

| Run | Checks | Instance | Shows |
|---|---|---|---|
| `store_survives` | `AckedSurvive`, `FailedStayOut`, `ImplementsLog` | 4 writes, 2 compactions, all faults but `newline`, `dirsync`, `wide` | acknowledged writes survive, failed ones stay out, the store implements `OwnerLog` |
| `store_all_faults` | `TypeOK`, `OneHistory`, `SeqsOnce` | 4 writes, 2 compactions, all faults | even then what is served is one gapless history, until a reopening cuts too much, and no process reuses a sequence number |
| `inbox_faults` | `OpenHasRow`, `AppendedOnce` | a console op and two messages with every fault | open ops keep a row, retries append nothing twice |
| `delivery_faults` | `TypeOK`, `DeliveredShown`, `ConfirmedRemembered` | 2 messages, queue of 1, 3 breaks, every fault | delivered means shown; a confirmation is never forgotten while the Router holds the row |
| `delivery_settles` | `InHand`, `SettledWhenLive` | 2 messages, queue of 1, 3 breaks, between handlers | no claim stands for a message nobody keeps; a session that stays gets every row settled |
| `console_cursor` | `TypeOK`, `RowsKept` | 1 console, 2 rows, 2 per frame, drops, lost answers, failed commits, Router restarts | the cursor never passes a row the phone does not account for, and no hole is left above the floor |
| `console_pair` | `DropsOnlyAccounted` | 2 consoles, 1 row | compaction waits for the slower console |
| `console_delivers` | `VisibleDelivers`, `BackgroundDelivers` | 1 console, 2 rows, lost answers, cut sweeps | whatever is appended reaches a console that settles in either mode |
| `owner_values` | the properties of the next table | the eleven parts of `MCOwnerValues`, one at a time | what the Router keeps for an owner stays sound |
| `gateway` | the properties of the next table | the seven parts of `MCGateway`, one at a time | what a gateway keeps stays sound |
| `console_stale_loop` | `VisibleDelivers` (violated) | 1 console forgotten after 30 days | finding 1 |
| `relay_fenced` | `SendsTaken` (violated) | one send to a gateway behind its fence | finding 2 |

A property with several parts is a conjunction whose parts are stated, named and
commented one by one in the module.

| Run | Property | Module | Parts | Says |
|---|---|---|---|---|
| `owner_values` | `TypeOK`, `AnsweredBeforeDelivered`, `EndedStays` | `Inbox` | | without lost keys and answers a console op is retired after its answer, and an ended op stays ended |
| | `BoardSound` | `Board` | `BoardTypeOK`, `Forest`, `FinishedClosed` | the pointers are a forest, nothing finished stands over unfinished work |
| | `HoldersKept` | `Board` | `HeldUntouched`, `HoldersTold`, `EndedSettled` | a session leaves the entries of others alone, holders hear of changes where their rows are written, an ended session keeps nothing |
| | `RanksOrdered` | `BoardRank` | | ranks order siblings as the screen shows them and stay valid |
| | `ReadersAgree` | `VaultSync` | `CursorCovers`, `Converged` | a cursor stands for what it claims |
| | `WriteSettled` | `OwnerOpIntake` | `IntakeTypeOK`, `AppliedOnce`, `AnswerTrue` | a queued write has one outcome and the phone is told that one |
| | `SendSettles`, `CancelFinal` | `ScheduledSends` | `ScheduledOnce`, `ReportTrue`, `TimerKept` | a scheduled message has one outcome, reported as it is; a cancelled one is never sent |
| | `RevocationHolds` | `Shares` | `RevokedRowsGone`, `UnlinkHolds` | what a revocation ended is not brought back |
| | `CacheSound` | `BlobCache` | `ServedWhole`, `LeaseOwnsPart`, `QuotaKept` | a served blob is one whole ciphertext, a part has one writer, the quota holds |
| | `OneWriter` | `OwnerLock` | | no two stores write the same line (but for the put-back below) |
| | `FireSettles` | `RunbookFire` | `FiredOnce`, `HeldOnlyFired` | a runbook fires once, unless a stop or an error forgot it, and is held for ever only if it fired or a fence refused it |
| | `LastSignedHolds` | `Enrolment` | | what was signed last decides, in whatever order it came |
| `gateway` | `RepliesKept` | `Crosstalk` | `ReplyOnce`, `ReplyAccounted`, `ReplyReadable` | a reply is being tried, or has arrived and can be read; between Domains it lands once |
| | `KeysLandRows` | `ContentKeys` | `RequestsGoOn`, `ParkedAwaited`, `KeyedRowsLand` | a row that came before its key lands once it is here |
| | `SessionsBound` | `Sessions` | `LiveRefTrue`, `PendingBounded`, `BoundNameHeld`, `RecordKept` | sockets, challenges and records agree |
| | `RouterKeepsUp` | `Presence` | `RouterAgrees`, `NoLostWake`, `FreshWhenLive` | a reporter that rests has brought the Router up to date, but for rows left unsure |
| | `RegistryFollows` | `SessionRegistry` | `RecordsRegistered`, `ForgottenGone` | the Router knows the sessions of the gateway and no other, but for what was lost or refused |
| | `AgentSettles` | `CodexAgents` | `FramesPlaceable`, `TerminalKept`, `StopAwaited` | what a record waits for can still come |
| | `TurnsReported` | `ThreadLifecycle` | `ReportedOnce`, `NoneStranded`, `ParkedQuiet` | the end of a turn is told once; a thread is put away only when idle |

### Bounds

- Store: two compactions let a generation be written, named and removed while
  another is current; four writes put acknowledged, uncertain and failed lines on
  both sides of a compaction. A segment number beyond that repeats these cases.
- Inbox: one console op (the only kind with a result append), one message
  between sessions and one to the owner give every combination of sender and
  address that `retireRow` tells apart. Two months let an op expire and its
  result row expire after it.
- InboxDelivery: two messages and a queue of one make the queue full while
  another row is kept. Three breaks allow, say, a lost link, a lost session and a
  restart around one delivery. Messages are symmetric; nothing orders them.
- ConsoleInbox: two rows in one frame, polls of one row each, so that a poll page
  is shorter than the backlog. With one row per frame and three rows the backlog
  is longer than a frame, which breaks `RowsKept` (see below). Two consoles need one
  row only: the slower one is the one that has not seen it. The phones are symmetric.
- Board: three entries make a chain, a fork and a cycle; two sessions and the
  owner every relation of an actor to an entry. `MCBatches` holds every single
  operation, trees made at once, and pairs of operations that meet in one
  cascade. Sessions are symmetric; the view leaves out the record of the last
  write, which only the action properties read.
- VaultSync: four revisions let an entry be written, deleted, swept and written
  again while a reader holds a list of each age; one live and two stored entries
  put an entry in reach of a sweep. Two phones write, and a behaviour follows the
  list of a phone or of the gateway, with two calls in flight.
- OwnerOpIntake: two posts of two writes and a cache of one answer make an answer
  leave the cache while its write is repeated.
- ScheduledSends: two messages for one slot and eight writes of it: the first can
  fail, be replaced, cancelled and asked for again.
- Shares: two friends, two edges each and two generations, so that what an old edge
  or generation left can be met by a new one. `UnlinkCut` = {1}: the
  unlink of a friend's first edge may stop before the edge is dropped.
- BlobCache: three uploads of two blobs of two chunks and room for three chunks:
  two uploads compete for one blob while another's lease fills the cache.
- OwnerLock: three processes that open once: one that seems dead, one that moves its
  lock aside, one that comes between. RunbookFire: three posts, two stops, two
  fences. BoardRank: digits 0 to 2, ranks of up to three, groups of up to four,
  which exhausts the room between neighbours. Enrolment: two times of signing; which
  statement is newest is all that the code asks.
- Crosstalk: two sends and two attempts of a reply, for gateways of one Domain and
  of two. ContentKeys: a row whose key a phone grants and one that comes too
  early to be asked for, one restart.
- Sessions: three names, of which one clashes and one belongs to the host, two
  sockets, one transcript and one binding token. Presence: two rows, two
  changes, two registrations, enough for a frame of the first connection to be taken
  beside the second; a gateway that lost its last connection is not followed further
  (`Worthwhile`), as the properties are about one that is connected. SessionRegistry: two ids,
  three changes, two calls out, two registrations, one call of a lost connection at a time. The
  tombstone dropped by an older answer takes four changes and three calls: with one id and
  these bounds TLC finds it in `RegistryFollows` without the exception, and nothing else.
- CodexAgents: two turns, two operations, two children, one break of any kind.
  ThreadLifecycle: two turns, two attempts to park, three operations, two refusals
  or time-outs. With more, the runs take hours and say the same.

### Fairness

`ConsoleInbox!FairSpec`: weak fairness of the handlers of frames on a live
socket (event loops), of connecting while visible (the driver reconnects with
backoff), of noticing an abandoned socket (ping timeout) and of the poll loop;
strong fairness of `DrainRows`, because the Kotlin mutex a drain coroutine waits
for is fair and a poll tick that takes it in between cannot starve it. Appends,
sweeps and the user are not assumed to do anything.

`InboxDelivery!FairSpec`: weak fairness of registering (the reconnector never
gives up), of a restart of the gateway (its supervisor), of the Router's and
the gateway's handlers, and of the end of a wake (it times out). The session is
assumed only to handle what is on its socket. `SettledWhenLive` is about
sessions that stay connected: a session that never comes back is owed nothing.

The other modules state safety only: a property like `NoLostWake` or
`RequestsGoOn` says that something pending has a timer or a call of its own, which
is the part of progress their code is responsible for.

## Findings

1. **A console that registers late is refused for ever**
   (`console_stale_loop`). A new consumer record starts at cursor 0 whatever the
   floor; hello is refused with `cursor_stale`, the phone adopts the floor, and
   the next welcome sets it back to 0. "Hello drains the cursor" then never
   happens while the app is visible.
2. **A fenced gateway answers a relayed send as if it had taken it**
   (`relay_fenced`). `handleOp` refuses with `migrating` inside a result that is
   answered ok, and whoever asked looks only at whether the call was answered.
   The sender is told "running", the job is anchored, and no reply will come;
   federation.md says "Phones and agents see `migrating` for fenced writes."

### What the passing runs leave out

Each of these is in the models and can be switched on by the fault or constant
named; the property then fails, which is what the code does.

| Module | Switch | Property | Because |
|---|---|---|---|
| `OwnerStateStore` | `newline` | `AckedSurvive`, `ImplementsLog` | a stop that loses only the last newline leaves a line that parses; the next line runs into it and both are cut |
| `OwnerStateStore` | `newline` with `truncate` | `FailedStayOut` | the refused line is all there but its newline, and the truncation that should remove it fails |
| `OwnerStateStore` | `dirsync` | `AckedSurvive`, `ImplementsLog` | `compact()` fails after the rename: the manifest names one segment, the process writes another |
| `OwnerStateStore` | `wide` | `AckedSurvive`, `ImplementsLog`, and `OneHistory` without its exception | `open()` truncates a torn tail at a length in UTF-16 units used as bytes (`ownerStateStore.ts:186`, `:190`): each character outside ASCII in an earlier line takes bytes of acknowledged lines along; memory still serves them and goes on numbering, so the next reopening finds a gap, or a line glued to a half one |
| `ConsoleInbox` | 3 rows, 1 per frame | `RowsKept` | hello drains one frame of a longer backlog; a row pushed then is acknowledged with its own number and the cursor passes what was not sent, although "Cursor guarantees delivery. Push is optimization." (`consoleSockets.ts:1`) |
| `ConsoleInbox` | `death` | `RowsKept` | two frames are drained by two coroutines, the later may acknowledge first |
| `ConsoleInbox` | `split` | `RowsKept` | rows are retired in one commit and the floor is raised in the next |
| `Inbox` | `keys` | `AnsweredBeforeDelivered` | the ack `waking` of an op that waited for a key changes its record, its result is answered `conflict` and its row never exists, although "Delivery answers use `op_result`" (`docs/federation.md:103`) |
| `Inbox` | `store` | `AnsweredBeforeDelivered`, `EndedStays` | a result append that failed, or that was applied and answered uncertain, has its op acked `waking`, which changes the record of an op not answered, or answered already |
| `Inbox` | `reply` | `EndedStays` | the answer to a result append is lost and the op, answered already, is acked `waking` |
| `Inbox` | an op `From` the gateway | `EndedStays` | its result is a row at the gateway's address, which is acked `waking` |
| `Inbox` | `unread` | `EndedStays` | a result of the gateway that no phone reads expires, and the row that tells the gateway so is acked `waking` |
| `InboxDelivery` | `cut` | `InHand` | a claim is written before its delivery is, and a restart finds the claim alone |
| `InboxDelivery` | `fence` | `InHand` | a fenced delivery is refused with `migrating` and claimed all the same |
| `VaultSync` | `IdsReturn` | `Converged` | an id used again after its tombstone was swept starts at revision 1, below the tombstone a reader remembers, which hides it |
| `OwnerOpIntake` | `RefusalsLost` | `AnswerTrue` | the record of a refusal is written without looking at the result (`boardService.ts:166`) |
| `Shares` | `UnlinkCut` = {1, 2} | `UnlinkHolds` | a second unlink of a friend keeps the mark of the first edge (`shareService.ts:140`) |

Some properties except a case the code does have, by a variable that observes it:
a reopening that cut more than the torn line (`OwnerStateStore!overcut`, in `OneHistory`),
a lock put back over its successor (`OwnerLock!overwritten`), a holder's row that was not
written (`Board!lastWrite.unwritten`), a stop between a
delivery and its completion (`RunbookFire!crashed`), a fire told it failed whose message
had left (`failed`) and one told it was taken that a fence refused (`swallowed`), a row
of presence changed without the record of it (`Presence!unsure`), a row stranded by its own
parking claim (`ContentKeys!stranded`), a tombstone dropped by an older answer or a stop
(`SessionRegistry!lost`), a change the Router's store refused or a late call undid
(`refused`), a record that moved with its transcript (`moved`), the
breaks `commit` and `early` of `CodexAgents` and a stop of both its sides, and the poisoned
phase of `ThreadLifecycle`. Each is a way in which the property fails, and within its
bounds the run shows there is no other. The stop of both sides takes two breaks, one more
than the run allows: with `MaxBroken` = 2, three event ids and `AgentFaults` = `{"gateway", "daemon"}`
TLC finds it in `TerminalKept` without the exception, and every other pair of `socket`,
`gateway`, `daemon`, `lapse`, `refused` and `read` passes.

### Behaviour a reader may not expect

Promises that do not hold, and are therefore not stated. Each was met while
its module was written.

- *Inbox and delivery*: a recorded result may change (a session forgotten between
  answer and ack replaces it by a failure); a message reported failed may still be
  shown (a row of a frame that waited its turn is landed again after its claim
  is gone).
- *Board*: the ceiling of a cascade "bounds traversal if corrupted data contains a
  cycle" (`board-cascade.ts:37`), but counts the turns spent on entries that the
  batch removed: one that finishes a root with an open child and then removes 24 entries
  without parents leaves two entries and `2 * 4 + 16` turns, all spent on the
  removed ones, and the root stays finished over open work. The observation rows are appended one by
  one after the commit: one that is refused for capacity (`inboxAppend.ts:72-76`) is only
  logged (`boardService.ts:363`), one that a stop cut off is not missed, and neither is ever
  appended again, as a repeated write answers from its record; the sweep removes an expired parent with a child that was kept,
  though its comment speaks of dead subtrees.
- *Vault*: a Router that loses an uncertain commit issues its revision again, and
  readers that saw the first keep it.
- *Scheduled sends*: a cancel is accepted for a message whose report was refused and
  that was delivered; when both writes fail the owner is never told.
- *Shares*: a revocation of the edge alone raises no generation.
- *Owner lock*: with three processes a lock may be put back over a successor's; a
  heartbeat that is read between truncation and write makes a live lock look
  unreadable, and a takeover then starts at generation 1; a healthy holder loses its
  lock for the time another has moved it aside.
- *Runbooks*: a completion refused by the fence leaves the phone told "already
  firing" for the life of the process. A message that the fence refuses with `migrating` is
  reported as fired, with nothing queued, since only `refused` is checked
  (`routesSend.ts:343-361`), and the operation is held or recorded as done. When the answer of
  another gateway is lost or late, or a save fails after an old plugin had the message, the op
  is released although its message left (`routesSend.ts:142-144`), and the next request fires it again.
- *Enrolment*: `dropLinkEdge` keeps no memory, so a late duplicate of a dropped
  statement revives the link.
- *Crosstalk*: when the answer to a relayed send is lost there is no anchor, and the
  reply is refused; within a Domain a timed-out attempt makes a reply land
  twice; a retried older reply overwrites a newer one; a send that awaits its
  relay anchors after an unlink; a second send leaves the old reply to be polled.
- *Content keys*: a grant that arrives while the parking ack of its row is in flight
  leaves the row until the next registration; a stop before that ack leaves the
  claim, and the row never lands (`inboxDeliveryPump.ts:89`).
- *Sessions*: a transcript that is handed over locks the new name out of its token;
  two records may name one transcript; a malformed handshake answer leaves its
  socket unconfirmed; aliased records are not touched by pongs and are swept.
- *Presence*: a delta that was applied but answered with an error, followed by a
  change back, leaves the Router stale until the next change (`presenceProtocol.ts:20`); so does
  one that the store took half of (`presenceService.ts:110-161`). A delete that the store refused
  is never repeated; `session_forget` drops the row of a session that is still reported; frames of a
  replaced connection are applied beside those of its successor (`gatewayBridge.ts:442`), and a
  late baseline stays shown until the next delta, which its record refuses.
- *Session registry*: the answer of an earlier forget drops the tombstone of a later
  one; tombstones do not survive a restart; a name handed over is reported only at
  the next registration, and with an upsert pending the old one comes back. A change the Router's
  store refused is answered ok (`inboxFrames.ts:143-156`): the gateway sends a record again at
  its next registration, a forget never. A late call of a replaced connection undoes a newer one.
- *Agents*: a turn that ends before the answer to its start is lost, and its record
  works until the child is reaped (`codexThreadLifecycle.ts:161`,
  `codexCommandDispatch.ts:58`); a terminal whose commit failed is held, the
  reconciliation raises the fence and the replay counts as a duplicate, against
  the comment at `codexAgentPersistence.ts:72`; the replayed receipt of an older
  generation moves the fence back (`codexAgentApply.ts:186`); foreign frames held
  beside a drain make reconciliation endless (`codexRelay.ts:251`); after a restart of the
  gateway and one of the daemon a late ack of the old daemon's stream takes the new one's
  terminal out of the outbox, as only the generation and the event id are compared
  (`agentDaemonCore.ts:88`); an archive that
  times out inside `drain` ends it before its other terminals
  (`codexThreadLifecycle.ts:327`).

## Proofs

TLAPS proves the theorems below for every value of the constants: any number of
messages, phones, rows, writes, processes, posts or faults, where a run has two or
three. What a theorem supposes beyond the named assumptions of the constants is
written in its statement, and each such hypothesis excludes exactly a line of the
table "What the passing runs leave out": there TLC finds the property violated
without it, so it cannot be dropped, and the runs that check the property make the
same exception.

| Module | Theorem | Property | Supposes |
|---|---|---|---|
| `OwnerStateStoreProofs` | `TypeCorrect`, `HistoryIsOne`, `SeqsAnsweredOnce` | `TypeOK`, `OneHistory`, `SeqsOnce` | nothing: every fault (`OneHistory` itself excepts `overcut`) |
| | `AckedWritesSurvive`, `StoreIsALog` | `AckedSurvive`, `ImplementsLog` | `Benign`: no `newline`, no `dirsync`, no `wide` |
| | `FailuresStayOut` | `FailedStayOut` | no `newline` |
| `InboxProofs` | `TypeCorrect`, `OpenOpsHaveRows`, `OnlyOnce` | `TypeOK`, `OpenHasRow`, `AppendedOnce` | nothing: every fault |
| | `DeliveredWasAnswered` | `AnsweredBeforeDelivered` | no `store`, no `keys` |
| | `NothingReopens` | `EndedStays` | no `store`, `reply`, `unread`; nothing sent by the gateway |
| `InboxDeliveryProofs` | `TypeCorrect`, `DeliveredWasShown`, `ConfirmationsSurvive` | `TypeOK`, `DeliveredShown`, `ConfirmedRemembered` | nothing: every fault |
| | `AcceptedInHand` | `InHand` | no `cut`, no `fence` |
| `ConsoleInboxProofs` | `TypeCorrect` | `TypeOK` | nothing: every fault |
| | `CursorKeepsRows`, `SweepsDropAccounted` | `RowsKept`, `DropsOnlyAccounted` | no `split`, no `death`; the rows held always fit one frame (`[]BacklogFits`) |
| `OwnerValuesProofs` | `FiresSettle` | `FireSettles` | |
| | `LockOneWriter` | `OneWriter` | |
| | `RevokedStays` | `RevocationHolds` | only a friend's first unlink may be cut (`FirstCutOnly`) |
| | `WritesSettle` | `WriteSettled` | `~RefusalsLost` |
| | `SendsSettle`, `CancelsHold` | `SendSettles`, `CancelFinal` | |
| | `LastSigned` | `LastSignedHolds` | |
| `BoardVaultProofs` | `BoardStaysSound`, `HoldersAreKept` | `BoardSound`, `HoldersKept` | |
| | `CacheIsSound` | `CacheSound` | |
| | `ReadersHold` | `ReadersAgree` | `~IdsReturn` |
| `GatewayProofs` | `ParkedRowsLand`, `RepliesArrive`, `RouterUpToDate`, `TurnsAreReported` | `KeysLandRows`, `RepliesKept`, `RouterKeepsUp`, `TurnsReported` | |
| | `FramesSettle` | `FramesPlaceable` and `StopAwaited` of `AgentSettles` | |
| `SessionsProofs` | `SessionsAgree`, `RecordsFollowed` | `SessionsBound`, `RegistryFollows` | |

The named assumptions of the constants say that bounds are naturals, that faults are
known ones, that what is counted is finite (messages, session ids), that reserved
names are not among the given ones (`SessionsAssumption`, `FriendsAssumption`,
`EpochsAssumption`, `BoardAssumption`), in `Inbox` that every operation has a kind, a sender and an
address, and in `Board` that a batch is a sequence of operations. The runs of a module evaluate its own.

### Along which argument

A property is seldom inductive. What each proof adds to it is what the code
relies on without saying so.

**The store.** `AckedSurvive` speaks of the served state only, so the invariant says
where an acknowledged write is on disk: the store is `Dead` (it can only be found
quarantined) or `Alive`, and then each manifest that is on disk or that a power
loss may bring back names the current segments, the prepared ones or removed
ones (which `open()` quarantines); the snapshot and the synced part of the
journal hold every acknowledged entry (`CurrentSafe`, `NextSafe`), sequence
numbers rise along the journal, and only its last line may be torn. While the
process runs, its state is the snapshot and the journal (`Running`).
`OneHistory` needs that whatever the directory holds rebuilds one
gapless history, in any generation (`Rebuildable`), which is so until a reopening cuts too
much. `SeqsOnce` also holds after that: it needs only that no answer is numbered above the
state in memory (`TellInv`). `FailedStayOut` needs that the bytes of a
refused write never parse, wherever they are (`OnlyAdmitted`). The refinement of
`OwnerLog` joins the three and adds what a store that stopped still agrees on:
while a power loss may still pick either manifest, both lead to the same log
(`Settled`). Then each of the store's steps is shown to be a step of the log or to
leave it alone: an fsync appends, an `open()` after a loss cuts an unacknowledged tail,
a compaction is invisible.

**The ledger.** `OpenOpsHaveRows` and `OnlyOnce` need finite sets of rows (retirement
numbers the results by counting), that only console ops are in the pump, and that a
record that is still accepted has not been answered. The two later theorems need to
know which rows may stand beside which record: a row that is no result is its
operation's own and the only one, and beside a result the own row is gone, or is
that of a console op that was answered (`Shape`). `Answered` and `Ending` then say
that no row is left whose ack could deliver an unanswered op, or reopen an ended one.

**Delivery.** `DeliveredShown` needs `Evidence`: each thing that says delivered along
the way (confirmation, claim, call) is about a shown row. `ConfirmedRemembered`
needs that a claim is dropped only on an answer that proves the row over
(`FinalIsOver`), that a held row which is kept, offered or confirmed is claimed
(`KeptIsClaimed`), and that no wake is awaited beside a live session
(`WakeOrSession`), so that a late failure cannot replace a confirmation; `Fresh`
keeps a row that was answered `gone` from being appended afterwards. `InHand` needs
that an accepted row is kept on disk and an unclaimed one is on the wire of a
registered gateway (`HandInv`).

**The console.** `RowsKept` is about the Router's cursor, and the invariant `KInv` is
about every number that may become it: the phone's cursor, a pending advance, the
running poll tick, acks on the socket and the coroutines that will acknowledge. Below
each of them everything is accounted for (`CursorsCovered`); a frame
names a cursor only if what is below it is accounted for or is carried by the frames
up to it, and a bound console has been sent everything appended so far
(`FramesCovered`). The last is where a backlog longer than a frame breaks the code.

**The owner's values.** `RunbookInv` says what a fire in progress has written, in memory
and on disk (`FireStands`), and that what can still be delivered has not been, or was forgotten
by a stop or an error that is counted. `LockInv` says which file
each process owns by its place in `open()`, and that a store that has read the
lines is the youngest (`YoungestReads`). `ShareInv`: the rows that wait are of the present stretch of
sharing, edges are minted in order, and a cut unlink left its mark. `IntakeInv`: what the cache and the
handlers under way will answer is what became of the write. `SchedInv`: what a turn
that stands between two writes has already done, counted against the ledger, and that a
message is held once (`HeldOnce`). `EnrolInv` gives what is stored as a function of
what was said, which is all there is to the order of statements.

**The board.** A batch, a walk to the root and a cascade are each a recursive function of the
number of steps taken, so what they do is an induction over that number, whose
step is one operation, one parent or one turn. *Forest*: an entry is on a cycle
or below one exactly when it is in a set of entries each of which has its parent in the
set; removing and promoting make no such set, and one that an accepted batch makes
contains an entry it touched, whose walk is checked. *FinishedClosed*: a turn
may leave a finished entry over an unfinished child only while the entry or a derivation of
it is still on the work list (`Pending`), so when the list is empty there is none.
*EndedSettled* adds that what the batch cancelled is opened again only for the sake of an unfinished
child. *HeldUntouched* follows an entry through the batch: while it is held by
another or in the trash each operation on it is refused (`Denied`), and no operation on
another entry touches its holder, its place in the trash or, but for a promotion, its parent.
*HoldersTold* needs that whatever differs from the board before is among what was touched.

**The cache.** A restart reads the index back from disk, where it may be behind the one in memory,
and a stop may come between the files and the index. The invariant (`CacheInv`) says the same of
both indexes (`Describes`): a file is the ciphertext its entry names, an upload that may
send on has sent all of the part itself, and what is reserved is within the
quota. What is reserved is counted as the size of a set of chunks (`Total`), so
that one blob's share can be taken out of it and put back.

**The vault.** What the Router last wrote for an id outlives the entry once its tombstone is swept,
and every copy under way is measured against it. That record is in no variable, so
`VaultInv` says that there is one (`LastWritten`), such that for each reader the list it
holds, the lists read and not yet landed, and the answers of its writes are right
about it (`ReaderRight`). The proof states this of values, and every step gives the record
after it.

**The gateway.** `KeyInv`: a parked row has no key yet and is pending at the
Router. `JobInv`: a reply being tried has an attempt, what was sent has arrived, and
answers say what happened. `PresenceInv`: the frame that is out, the timer and the
Router's state, related by sequence numbers; a good answer means the Router has what was sent, in every row
but the unsure ones, and a frame of an older incarnation that is still taken leaves a record the next
delta does not continue.
`SessionInv` is stated of values too, so that a registration can be followed through its
parts: the sockets it displaces leave, the new one comes, its record is confirmed.
`RegistryInv` reads the calls out as what they still tell the Router: the last call
about an id agrees with the reporter or its id is `lost`, an upsert with no later
forget is about a known id, and what nothing is out about is right at the Router or
waits for the timer, read as what the Router knows or would but for a refusal (`Shown`, `KnownStill`). `ThreadInv`: the request that is
open fits the record (`Shaped`), a turn whose end was noticed is published, or held, buffered,
queued or on its way (`Accounted`), and of the turns handed out only the thread's own runs
(`Sound`), so that an archive the server grants finds none of them running.
`AgentInv`: the record is one the schema takes and its open stop is pending (`Kept`), which
every outcome of every frame preserves; frames and commands, wherever they are, are well
formed, and the copies the daemon keeps have fences of their own, so that a replay has one order
(`DaemonShape`). That a terminal can always be placed rests on the record alone: one that
advances the fence of the active turn leaves a record the schema takes (`TerminalStorable`).

Some statements were corrected by their proofs. `FinishedClosed` and the second part
of `EndedSettled` hold of boards no cascade of which met its ceiling (`Board!cutShort`): the run
has too few entries to meet it, and the proof does not go through without.
`HeldUntouched` once forbade a session to remove an entry nobody held, which a
batch that first claims the entry may do; it now says so. `DropsOnlyAccounted` once spoke of
consoles before the sweep, which forgets the inactive ones in the same step; the
`Outcome` of a crosstalk call and the end of a connection in `SessionRegistry` are now
stated directly where they were computed recursively, and `ThreadLifecycle` takes the
terminals an operation holds one step at a time, as the code awaits each. `CodexAgents`
puts held frames again a frame per step (`Drain`); the loop of the code is not
interrupted, so no other action is enabled until it has ended.

### Only model-checked

- `VisibleDelivers`, `BackgroundDelivers` and `SettledWhenLive` are liveness under
  fairness, which is out of the prover's reach.
- `TerminalKept` of `AgentSettles`: it relates what the daemon has published to every
  fence the relay ever decided, over children, held frames and answers to
  reconciliations; its invariant is the whole of the acknowledgement protocol, and
  beyond the breaks named above it is not known to hold.
- `RanksOrdered`: its module has RECURSIVE operators (the digits of a rank), about
  which the prover cannot reason.

## Not modelled

Cryptography is assumed to work: a frame is what its sender made. Sizes and
byte quotas, log lines, rate limits, HTTP and WebSocket framing, and the user
interface are left out.

- Leases and the Router's migration window are operated by hand; the fence
  they lead to is in `InboxDelivery`, `Crosstalk` and `RunbookFire`.
- The cross-Domain and pairing handshakes are exchanges of signatures; what they
  leave behind is in `Enrolment` and `Shares`.
- The Copilot agents follow the Codex ones with other frames. The screen watcher of
  the host daemon, its child processes and the tools of the MCP plugin are I/O.
- `vault/operationSet.ts` parses and validates; it keeps no state. Capabilities and
  read anchors are single records replaced whole.
- The store of held blob references and the gateway's uploader (whose header says
  it is not wired to the Router) are left out.
- In the modelled parts: planes of the console socket and the migration of
  cursors, sessions too old to confirm, hop limits and expiry of jobs, expiry of
  operation markers, an interrupt that fails while its turn runs, a Codex prompt refused after
  its turn started, a start that delays the terminal held for its final item,
  the caps of the daemon's outbox and of deferred frames, labels
  and titles of sessions, backfill of content keys, references of scheduled messages.

About half of the repository is user interface, transport, schemas, rendering and
code generation, about which there is little to check; the share of its lines
that the modules stand for is therefore small.

## Plan

Done: the modules above, and a theorem for every safety property of the runs but
those listed under "Only model-checked". What is left:

1. `TerminalKept` of `AgentSettles`, from an invariant of fences, held frames and
   acknowledgements; `RanksOrdered`, once the digits of a rank are recursive functions.
2. An abstract delivery specification (each row is settled at most once, as
   delivered only if shown) that `InboxDelivery` and the acks of `Inbox` implement,
   and an at-most-once specification for `OwnerOpIntake` and `ScheduledSends`.
3. Wake waiters and their deadlines (`hostDaemon.handleWake`), the screen watcher
   (`presenceScheduler.ts`), held references, the console's mutation journal, the
   window and its leases, the Copilot agents.
