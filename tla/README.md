# TLA+ models of im-thread-service

im-thread-service keeps conversation threads in PostgreSQL: who is a member,
what was said, who has read what, which bot answers, and what an offline client
missed. Several instances serve gRPC calls at the same time. They coordinate
only through rows, row locks and transaction ids, and every statement outside a
lock works on a snapshot of its own (READ COMMITTED). Most of what is hard in
this code is therefore an interleaving of statements that no unit test
schedules. This directory models those parts, model-checks them with TLC on
small instances and proves the central properties with TLAPS for every instance.

## The system and its parts

| Part | State | Operations | Hard behaviour |
|---|---|---|---|
| Catch-up journal (`store/postgres/outbox.go`, `adapter/journal`, `handler/grpc/updates.go`) | `thread_updates` rows, one `contact_updates` mark per contact and thread, the trim mark | Publish (in the mutation's transaction), GetUpdates, Cleanup | out-of-order commits, a call made of several snapshots, retention during a call |
| Bot control (`service/thread_manager.go`, `store/postgres/bot_control_store.go`) | `bot_controller_id`, `owner_bot_id`, `bot_control_stack` | AddMember, Transfer, RemoveMember, CompleteBotControl, `/close`, HandBackToBot, TakeOverFromBot, ensureBotControl | half of the operations lock the thread, half do not; late and repeated completions |
| Delivery status and unread counters (`store/postgres/message_status_store.go`, `service/message_status.go`) | `last_read_seq`, `last_delivered_seq`, `unread_count`, `message_errors` | InsertSent, MarkRead, MarkDelivered, MarkFailed, RecountUnread | receipts out of order, batches, a count on a stale snapshot |
| Messages (`service/message.go`, `service/message_forward.go`, `store/postgres/message*.go`) | messages, revisions, reactions, pressed buttons | send, edit, delete, react, press, forward | concurrent edits, retried deletions, writes from a stale snapshot, the order of events |
| Threads and members (`service/thread_manager.go`, `thread_store.go`, `thread_dialog_store.go`) | threads, dialogs | creation, membership | two first messages creating two threads |
| Previews, tags, variables (`service/thread_{preview,tag,variables}.go` and their stores) | `thread_preview`, `thread_tag`, `thread_variables` | give, revoke, upgrade; tag, clear; set, flush | expiry and upgrade at the same time, checks without a lock, transaction time |
| History and search (`query_object/{paginator,message_history,message_search}.go`) | none; the client's cursor | pages forward, backward and around | messages that commit between two pages |
| Outbox relay (`adapter/pubsub/forwarder.go`, `outbox.go` Cleanup) | outbox rows, consumer offsets | relay, retry, poison queue, clean-up | a crash between publish and offset, clean-up before a group has read |
| Leader election (`infra/discovery/consul/leader.go`) | Consul session and key | acquire, renew, watch, release | two nodes relaying, expiry during a pause |
| External providers (`service/providers_adapter.go`, `message_external_store.go`) | `message_external_ids` | send, reply, react, delivery report | calls after the commit, ids that arrive late, repeated webhooks |
| Unit of work (`store/postgres/uow.go`) | the open transaction | WithinTransaction | rollback on every error path |
| Permissions, reference cache, typing, media | their own tables and caches | reads, remote calls | stale caches, rate limits |

How they interact: a mutation runs inside a unit of work. It writes its rows,
then publishes an event to the outbox, and `Publish` appends the journal row and
the marks in the same transaction. The relay of the leading node forwards outbox
rows to RabbitMQ once they are older than everything in flight. Clients receive
live events with a cursor and call GetUpdates for what they missed. A message to
a bot thread first goes through `EnsureDirectThread`, which may give control
back to a bot.

`PROJECT.json` lists every part, also the ones not modelled and why, and the
hazards at their source lines.

## Modules

| Module | What it is |
|---|---|
| `UpdatesJournal` | writers, retention and the statements of GetUpdates |
| `UpdatesJournalProofs` | its theorems |
| `BotControl` | control of one thread, the unlocked calls statement by statement |
| `BotControlProofs` | its theorems |
| `ReadReceipts` | horizons, counters and failures of one thread |
| `ReadReceiptsProofs` | its theorems |
| `LeaderElection` | the election loop of every node over one Consul key |
| `OutboxRelay` | extends it: outbox, routers of every term, offset, clean-up |
| `EventLog` | the abstract at-least-once log that `OutboxRelay` implements |
| `OutboxRelayProofs` | the theorems of the relay, its refinement of `EventLog` among them |
| `MessageLifecycle` | edits, revisions, deletion, reactions, callbacks and forwarding |
| `MessageLifecycleProofs` | its theorems |
| `ThreadAccess` | members, previews, tags and variables of one thread |
| `ThreadAccessProofs` | its theorems |
| `MessageHistory` | keyset paging while messages are sent |
| `MessageHistoryProofs` | its theorems |
| `ProviderGate` | a thread with customers behind messenger gates |
| `ProviderGateProofs` | its theorems |
| `MC*` | symmetry sets and constant values for TLC |

Definitions whose name ends in `Mutant` are faulty variants of the definition
that follows them. They belong to no specification; substituting one must break
the property it is meant for.

### UpdatesJournal

A transaction gets its id at its first write (`Begin`), publishes any number of
mutations, and commits or rolls back. `rows` is `thread_updates`, `mark` the
committed `contact_updates`, `pend` the uncommitted version of a mark, which is
also its row lock: a second writer of the same mark waits. `Publish` is
`outboxStore.Publish` with `appendJournal` and `markContacts`; the audience of a
mutation is the live members and its subject, or only the subject for a tag
change.

`GetUpdates` is one action per statement, because each has its own snapshot: the
settled horizon, the overlap's start, the listed marks, the latest mark, the
trim mark, then membership and rows of every listed thread, then the answer. The
membership test and the row query of one thread are one action; a departure
between them changes only whether the client is told it left now or by the next
call. Every statement may fail (`CallFails`). A resync is its own two statements
and a reload by the client (external). The order in which a call visits its
threads is left open. `LiveEvent` is a relayed event on a socket: only of
settled transactions, in any order.

Data that no property tells apart is abstracted: a row is its thread,
transaction, kind, subject and time, and the contents of the answer (messages,
dialog, tags, merged members) are the set of rows it is built from.

### BotControl

`th` holds the committed rows of one thread: memberships in order of creation,
the stack, controller and owner. `AddMember`, the commit of `Transfer` and the
commit of `RemoveMember` hold the thread lock and are atomic; what they read
before it (the initiator, the target) is read in an earlier action. The other
calls take no thread lock: `Pop` is `PopSnapshot`, `PopDelete`, `PopTop` and the update
inside the commit, with the row locks of the deleted entry between them
(`Locked`); the hand-back, `/close` and ensureBotControl read and then write. What
such a call read may be stale when it writes, and then it does put another bot than
the top in control. `UpToDate` says of a call that what it is about to write from is
still so, and `ControlFollowsStack` and `GrantsReal` are about every step but those of a
call that is not up to date. `event` is what the last commit published. A bot whose contact
lookup failed at creation is a member with `contactBot` and without `bot`.

`FindActorsPair` does not select `is_bot`, so `RemoveMember` treats every target
as a human; the model follows the code.

### ReadReceipts

`msgs` is the thread's messages by seq, `dlg[m]` the latest `thread_dialog` row
of a member, `errs` is `message_errors`. A transaction is shown at the step that
takes its first conflicting row lock. `ScanRead` is the snapshot of
advanceReadHorizon's update and `CommitRead` its write: when the row changed in
between, PostgreSQL evaluates the update again on the new row, but the counting
subquery still runs on the snapshot. `MarkDelivered` and `MarkFailed` have no
such subquery and are atomic. `Advanced` is the set of receipts
UPDATE ... FROM may apply, one of which it takes; `groupStatusChanges` is what is
published, which has the furthest point of the batch and need not have the stored one.
`StaleRead` and `MissedSend` are the two places where the counter goes wrong:
`UnreadKept` says that it does so nowhere else. A message id is its seq: ids
are UUIDv7 and sort like the thread's seqs.

### LeaderElection, OutboxRelay and EventLog

`phase[n]` is where node n is in attemptLeadership; `lock` is the session that
holds the key, the node's own one or an `old` one a failed attempt left behind;
`delay` is Consul's lock delay. A leader leaves in the order of the code: release
the lock (`releaseLock`), return, and only then are the deferred cancelLeader and
destroySession run (`Leave`). `Crash`, `Expire` and failed calls are faults, capped
by `MaxFaults`.

`OutboxRelay` extends it. A promotion builds a router for its term, which lives
until it notices that its context ended, so routers of two terms overlap. `Fetch`
is the subscriber's transaction: it takes the lock on the group's offset row and
reads rows past the offset that are older than every transaction in flight
(`Unread`). `Handle` hands one event on; `HandleNack` is a retry; an event the
broker refuses too often goes to the poison queue, which also counts as handed on.
`Ack` moves the offset. `ConnectionLost` frees the row lock while the handler goes
on. `Cleanup` deletes below the offset's transaction. A router that cannot be built ends the
term (`BuildFails`). One whose `router.Run` returns an error does not (`RunFails`): the
node keeps the key and relays nothing, which is `Stranded`. `EventLog` states the promise
without any of this: the first hand-over of events is in the order of the log, and
the log forgets only what was handed on. `ImplementsLog` is the refinement, with
committed, stored and handed rows as the mapping.

### MessageLifecycle

Every call is a step that reads the snapshot and a step that takes its locks and
commits. An edit and a reaction get their transaction id in between, with their first
write. The `target` CTE of an edit keeps the snapshot's body and version number
although the UPDATE is re-evaluated on the new row; `VersionTaken` is the unique
constraint that then fails the second of two edits. A deletion updates every row of
its snapshot, deleted meanwhile or not. A reaction writes its row (`WriteReaction`),
waits for the thread row (`LockForUpdate`), reads the aggregate (`AggregateForMessage`)
and commits (`ReactionCommits`), each a step of its own. `view` is a client that was
handed the committed events in the order of the relay, by transaction id: an edit or
a reaction of a lower id than the last one comes too late to show (`Edited`, `Reacted`).
`behind` marks a message whose last reaction to commit was such a one. A forward keeps
the texts it read and is not checked again when it commits. A body stands for text,
documents, location, contact or interactive content.

### ThreadAccess

A call is what it reads and verifies, then its commit. `now` is the database clock,
and a call keeps the time at which its transaction began. `pv` holds previews with
their expiry and the reason they ended. The system message about a member reaches
the others and clears their `Snoozed` tag. `late` records contacts whose AddTag
wrote after they had left, the one way in which a former member keeps a tag.

### MessageHistory

`row` is the messages by id, each open, sent or lost. `SaveMessage` holds the
thread row, so that ids of one thread commit in order; ids of different threads need
not. `view` is a client's session, of a history or of a search: what it was given and
the cursors at both ends. A history is of one thread and shows everything of it, the
deleted messages too, as long as the caller is a member or has a preview (`Visible`).
A search shows what has the term, is not deleted and was written while the caller was a
member; as edits and deletions change this from page to page, `Found` lets every query
see any subset of the sent messages. Only histories have an anchor. The caller may leave
and come back (`Leave`, `Join`): a page that is empty for lack of access looks like the
end, so `bottom` is an end given to a caller who could read. `PageInfo` and
`AroundPageInfo` are the paginator with its extra row.

### ProviderGate

`ids` is `message_external_ids`, `out` the sends after a commit, `platform[g]` what
the messenger of gate g holds. External ids of two gates overlap. Sending to a peer
and saving the id it returned are two steps with anything in between. A message that comes
with no external id or gate is stored without a row (`Commit`). `Allowed` is the
platform's allow-list of reactions, where an empty one restricts nothing. No step is
fair, so that a send may stop at any point, as after a crash.

## Runs

Bounds are in the `.cfg` files; each is a cap in the guard of one action and is
marked as a bound where it is declared.

### Passing

| Run | Checks | Shows |
|---|---|---|
| `updates_window` | TypeOK, CursorSettled, TagsPrivate, WindowStable, AnswersComplete | two contacts, every kind of mutation, retention and live events: a cursor never reaches a transaction in flight, a call's window never grows, its answer leaves out no change of the threads it lists, and tags stay private |
| `updates_delivery` | CatchesUp | two threads, out-of-order live events, failures and resyncs, all within the overlap: a polling client learns of every committed change |
| `bot` | TypeOK, OwnerKept, ControlFollowsStack, GrantsReal, BotAnswers | two calls interleaved statement by statement: completions never remove the owner, only a write from a stale read takes control off the top of the stack or makes a grant false, and the customer gets an answer |
| `receipts_race` | TypeOK, ReadBounded, ReadImpliesDelivered, HorizonsMonotone, MovesAnnounced, ErrorsRecovered, UnreadKept | two calls interleaved with joins and departures: horizons only move forward, stay ordered and bounded, and are announced exactly when they move; failures go only when covered; the counter goes wrong in two known places only |
| `relay` | TypeOK, NothingSkipped, ImplementsLog, Delivered, Led | two nodes, crashes, expiries and lost connections: the relay implements the at-least-once log, and a router runs again and everything is delivered, unless `router.Run` failed and its term never ends |
| `messages` | TypeOK, Announced, RevisionsComplete | two calls interleaved: clients who get the events by transaction id hold what is stored (of reactions, unless `behind`), and no replaced text is lost |
| `access` | TypeOK, UpgradeConsumes, TagsOfMembers, ClosedStaysClosed, KeysKept | two calls and the clock: previews end once and become a membership once, tags go with their member, variables keep their setter |
| `history` | TypeOK, NoGap, EndHonest, ReachesEnd | histories and searches while access is lost and regained: the pages of a history have no hole and end where it ends, and every client reaches an end |
| `providers` | TypeOK, RepliesFaithful, ReactionsFaithful, StatusTruthful, MappingStable | two gates with overlapping ids: replies, reactions and reports are about the right message |

Why the bounds suffice. `updates_*`: three transactions are needed for a transaction
that commits between two others with a smaller and a greater id, and two journal
rows for one that is overtaken. In `updates_window` the overlap is 0 and the clock
ticks once, so rows lie inside and outside of it, and retention deletes. In
`updates_delivery` every row is within the overlap and retention does not act:
`CatchesUp` is a statement about that case, and `updates_skipped` shows how a change
gets out of reach outside of it. `bot`: three memberships are a customer, a first
peer and a joiner of every kind, so that a second call meets a stack with an owner
and another bot, or a bot and an agent (190 thousand states); the theorems have no
bound. `bot_removed` has a fourth. `receipts_race`: two messages tell "the last one"
from "all of them", and a seq beyond the last one needs `MaxSeq + 1`; one member
joins late, and leaves. The run uses batches of one (`MaxBatch = 1`), batches of any
size are covered by the theorems. `relay`: two transactions with two rows each
commit out of order and make a batch that a crash cuts in two; two routers are two
overlapping terms, and one fault of any kind already makes two nodes relay (two
faults with one transaction pass as well). `messages`: a message and its copy, two
bodies, and three transactions, so that a third call meets what two racing ones
left. `access`: three dialogs are the first member, a stay and a return; two
previews are one and its renewal; a preview expires after one of two clock ticks.
`history`: five messages with pages of one to three give full, partial and exactly
full pages on both sides of an anchor, and the sizes 0 and 4 are the ones that are
not honoured. `providers`: a message and a reply in both directions over two gates,
one customer message that may be relayed twice, and two changes of reactions or
delivery states; the run also passes with an empty allow-list. Two concurrent calls
are enough for every pair of racing statements.

Deadlock checking is off where the system may stop. In `bot`, `bot_removed`, `messages`,
`access`, `history` and `providers` a client may do nothing more once the bounds on
messages, memberships or transactions are used up. `relay` keeps it on: its election
loop never ends.

### Violation

Each states what a test, a comment or a document of the repository says, and TLC shows
that the code does otherwise.

| Run | Property | What the repository says | What happens |
|---|---|---|---|
| `updates_skipped` | NothingLost | `adapter/journal/contact.go:39-40`: "a late commit comes on a later call, never skipped" | a mark holds only its thread's newest transaction: a commit between the horizon and the listing hides an older settled change of that thread, another thread's mark moves the cursor past it, and no later call serves it. The overlap (one minute in the code) only helps when the change is that close to the cursor's own |
| `receipts_counter` | UnreadExact | `docs/unread-counters.md:51-52`: "it can never drift below zero or miss a concurrent insert" | the counting subquery of advanceReadHorizon runs on the statement's snapshot and overwrites the increment of a send that committed while the update waited |
| `bot_removed` | RemovedLosesControl | the test of RemoveMember with an active bot (`thread_manager_bot_control_test.go:359`) | the removed controlling bot stays in control, since its `is_bot` was never loaded |

### Observations without a run

Seen in the models or in the code while modelling, and kept here for the
maintainers.

Catch-up journal:
- Cleanup between the reading of the trim mark and of the rows
  (`handler/grpc/updates.go`) deletes rows the call has promised, although
  `journal.go:229-230` says the mark tells such cursors apart. `AnswersComplete` excepts
  the deleted rows for this reason.

Bot control:
- `bot_control_store.go:100` says Pop updates the controller "to the new top". Pop
  reads the new top without the thread lock and overwrites the bot that AddMember
  pushed while it waited. `ControllerOnTop` as an invariant fails with two calls;
  `ControlFollowsStack` says that it fails by such writes only.
- `thread_manager.go:1312-1315` says a completion hands control on "only if it was
  the active controller". The code tests for the top of the stack: when the top bot
  completes after an agent joined, another bot is given control.
- ensureBotControl re-points the controller to the top of the stack and announces
  the first bot of the unordered member list (`thread_manager.go:1740-1774`).

Receipts:
- RecountUnread (`message_status_store.go:803-805`): a member who joined later has a
  NULL horizon and a counter from 0; the recount after a deletion counts from the
  first message and raises the counter.
- `store.go:104` says MarkFailed is "sent -> failed only"; the statement compares
  no horizon, so a late failure is stored for a delivered message.
- dedupReadReceipts keeps the first of several receipts that carry only
  `up_to_seq`, not the furthest. Per-message delivery receipts of one member are not
  collapsed: one of them is applied and the furthest is announced.
- Several delivery receipts of one member in one batch: the update stores any one of
  them while the failures up to the furthest are dropped. A read whose reader is added
  between its snapshot and its update drops failures that no horizon covers.
  `ErrorsRecovered` is therefore about the horizon or the receipt that drops the failure.
- ReconcileUnread reads `last_read_message_id`, which nothing writes any more;
  nothing calls it.

Messages:
- `service/message.go:749-751` says of a repeated deletion that the message "is
  neither deleted again nor re-announced". A second call that overlaps the first
  reads the message as live, waits for its row, and deletes and announces it again.
- An edit that overlaps a deletion of the same message commits after it, and is
  announced for a deleted message.
- `service/message.go:915-921` speaks of a "dedup ledger" by send_id; the store has
  none, so a delayed repetition of an old reaction does revert a newer one.
- A reaction takes its transaction id with its row and computes the aggregate only
  after it has the thread lock. In the order of transaction ids, which is the order
  the relay hands events on, the last event of a message may carry an older
  aggregate; `docs/message-reactions.md:130` and `event/message_reaction_v1.go` say that
  both sides converge. Without `behind` TLC finds it for `Announced` in twelve steps.
  The next reaction to the message, or a reload, sets it right.
- Two first messages between the same peers both find no thread and create one each;
  there is no unique key over the peers.

Relay:
- `router.Run` may return an error after onLeader has returned nil; the goroutine
  (`forwarder.go:87-97`) only logs it. The node stays leader and relays nothing until its
  session ends, which is what the comment on lines 73-74 says a fresh router avoids.
  `Delivered` and `Led` name this case (`Stranded`); without it both fail.
- `forwarder.go:65` says only the leader relays "to prevent duplicate delivery". The
  lock is released before the leader context is cancelled, and a paused holder does
  not know that its session expired: two routers relay, and an event is handed on
  twice. The offset row makes this at-least-once, as `subscriber.go` says.

Members, previews, tags, variables:
- ThreadPermission Update never changes a row: the mapper does not set the thread
  id, and the statement compares a dialog id with `member_id`, a contact.
- The dialog Delete has no `deleted_at` condition: a second removal announces the
  departure again and drops the tags of a member who has rejoined.
- A plain AddMember leaves the contact's preview open.
- Removing a bot skips OnMemberLeft; system messages about members clear "snoozed".
- Two concurrent AddTag calls of a contact each publish a list without the other's tag.
- A variable set by a member who left can be changed by nobody. The events about
  variables are published after the commit and outside the outbox.
  seedThreadVariables passes a dialog id where a contact is expected.

History and providers:
- `docs/cursor_pagination.md:105` says a size above 100 is capped at 100; WithLimit
  ignores it and the default of 20 applies.
- A caller who loses access while paging gets an empty page without a next cursor,
  which looks like the end; `EndHonest` is about ends given to a caller who could read.
  SearchMessages over several threads may skip a message
  whose id committed out of order: `NoGap` is about one thread.
- With two customers on one gate in a thread, the unique (message, gate) keeps the
  first peer's mapping only. A delivery report that arrives before the id is saved
  is lost.

## Fairness

`UpdatesJournal!FairSpec`: a transaction ends (commit, rollback or a closed
connection, after which PostgreSQL rolls back), a GetUpdates call that has
started runs to its answer (each is a bounded sequence of statements), and the
client keeps polling. Nothing is assumed of new transactions, of the relay or of
retention. `BotControl!FairSpec`: a call that has begun reaches its end, and the
customer keeps writing, with strong fairness because a message is handled by a
call of its own and does not queue behind the other calls that come and go.
`OutboxRelay!FairSpec`: transactions end; each node's loop, Consul's timers and every
router go on, and a stopped process is started again. Promotion is strongly fair: the
key is free again and again, and a node that keeps trying gets it once. Nothing is
assumed of new events or of clean-up. Faults are finite (`MaxFaults`), so `Led` and
`Delivered` say that the system recovers once they end. `MessageHistory!Spec` assumes
only that the client goes on following next_cursor. The other runs use
specifications without fairness.

## Proofs

Every invariant and action property of the passing runs is also proved with TLAPS, for any
contacts, threads, members, calls, gates, nodes, messages and bounds. The assumptions
are the named ones on the constants, which TLC evaluates in every run:
`ConstantsAssumption`, `ReceiptConstants`, `AccessAssumption` (room for the first
member), `GateAssumption`, `ElectionConstants` and `RelayConstants` (at least one node),
`LifecycleConstants`, `HistoryAssumption` (finitely many threads) and `BotConstants`
(room for two members, finitely many calls).

No theorem has a hypothesis besides these. Where the code does not keep what one would
like to say (see the violation runs and the observations), the property itself names the
steps at which it may fail: a write from a stale read (`NoStaleWrite`), a count on an old
snapshot or a missed member (`UnreadKept`), a reaction that is overtaken (`Announced`), an
end given without access (`EndHonest`).

An inductive invariant is the property together with what the calls in progress carry
from one statement to the next. Each proof has one lemma per action.

`UpdatesJournalProofs`
- `Typing`, `Types`: TypeOK with finitely many rows. Finiteness makes the budget
  subtraction in `ThreadUpdates` a natural number.
- `SettledInvariance`: `CursorSettled` alone is not inductive, since a cursor comes from
  the call that returns it. `SettledInv` adds that the horizon, start and result of every
  call in progress are settled and that ids are handed out in order, so a new transaction
  is always beyond them.
- `CursorsSettled` and `WindowsStable` follow: a row enters a window only by a commit of a
  transaction at or below the horizon, and there is none in flight.
- `TagChangesPrivate`: `TagsInv` says of rows that a tag change has only its contact as
  audience, and of clients and of answers being put together that they hold only rows
  meant for them.
- `AnswersWhole`: `CollectedInv` says of a call that has listed its threads that every
  change in its window of a thread whose mark lies there is collected already or is of a
  thread it still has to visit. It survives the commits of others because the window is
  stable, and their marks because a mark only moves past the horizon.

`ReadReceiptsProofs`
- `HorizonInvariance`: `HorizonInv` is TypeOK, `CallsBounded` (the point a read computed
  from an older last_seq is within today's, and its snapshot within today's messages),
  `ReadBounded` and `ReadImpliesDelivered`. `CallsBounded` is what makes ReadBounded
  inductive, because the clamp and the write are different steps.
- `ReadsBounded`, `ReadsDelivered`, `HorizonsForward` and `ReceiptsAnnounced` follow, the
  last two action by action.
- `FailuresRecovered` goes action by action too: a failure is dropped by a receipt that
  covers it, or by the horizon a send gives a bot.
- `CountersKept`: `SendersOut` says that the author of a message is not among those it is
  counted for. The rest is how the number of unread messages changes when one is appended,
  deleted or read (`UnreadAppend` and the lemmas after it).

`BotControlProofs`
- `ControlInvariance`, for any number of overlapping calls: `BotInv` is TypeOK, `Stacked`
  (what is on the stack is or was a bot of the thread), `Owned` (a thread that ever had a
  bot has an owner), `CallOK` of every call (its member exists, a completing bot is not
  the owner), `RoomInv` and `FreshInv`. Every commit keeps `Kept`: rows do not vanish,
  bots stay bots and the first owner stays, so what a call relies on survives the others.
- `OwnersStay` follows: a completion removes one entry of a bot that is not the owner
  (`WithoutIs`), and the owner it compared with is still the owner.
- `ControlStaysOnTop` and `GrantsAreReal`, for any overlapping calls: `Right` of a commit
  says that it keeps the controller on top and announces no false grant. It is shown of
  every store operation (push, pop, adoption, release, restoring, removal), then of every
  commit from rows that are still as they were read. Pop on an empty rest means that the
  popped bot was the top, which is why its fallback to the owner is right (`PopRight`).

`OutboxRelayProofs`
- `RelayInvariance`: `RelayInv` says of the offset, and of the last row of every router,
  that nothing can commit at or before it any more and everything before it was handed on,
  and of every batch, held or not, that what precedes one of its events is handed on or in
  the batch. It holds for routers without the row lock too, which is why two overlapping
  terms do no harm.
- `NoEventSkipped` and `RelayImplementsLog` follow. The refinement maps committed rows,
  rows not yet deleted and handed rows to the log; every step of the election and of a
  router's bookkeeping is a stuttering step, and a first hand-over is in order because of
  `BatchInv`.

`MessageLifecycleProofs`
- `LifecycleInvariance`: `LifecycleInv` is TypeOK, `RevisionsNumbered` (versions 1, 2, 3
  ... without a hole), `CallsSound` (what an edit read is a former state, and the present
  one if no revision was added since; the aggregate a reaction read is the stored one with
  its own change), `OneHolder` (one reaction holds a thread at a time, which keeps its
  aggregate exact until it commits), `IdsGiven` and `Announced`.
- `ClientsAgree` and `RevisionsKept` follow: an edit with a stale snapshot computes a
  version that is taken and fails, so edits of one message commit in the order of their
  transaction ids.

`ThreadAccessProofs`
- `AccessInvariance`: `AccessInv` is the types of the rows and of the variables,
  `CallTypes` and `TagsOfMembers`. `CallTypes` says that the dialog a removal or a
  transfer has read is still a row, which is needed because the check and the commit are
  different steps with anything in between.
- `TagsGoWithMembers`: a commit that ends a membership drops the tags of that contact in
  the same step, every other one only removes tags, and the one write without a lock adds
  the contact to `late`.
- `ClosedPreviewsFinal`: Upsert and Revoke touch only rows without an end, whatever time
  their transaction began at.
- `VariablesKept`: a set changes only keys that are free or the caller's own, a flush only
  the caller's own while it is a member.
- `UniqueInvariance`: one live dialog and one open preview per contact, and equally many
  upgraded dialogs and consumed previews. `Typing` and `UpgradesCounted` follow.

`ProviderGateProofs`
- `MappingUnique`: `RowsInv` is the shape of the rows of `message_external_ids` and both
  of its keys; the shape is what tells that a report, which replaces a row by one with
  more states, keeps the keys. `MappingKept` follows: Save adds at most one row and a
  report moves none.
- `GateInvariance`: `GateInv` ties every row, copy, send in progress and pending reaction
  to its message; rows and copies only grow, so what a late call carries stays true.
  `RepliesAgree`, `ReactionsAgree` and `ReportsTrue` follow, with the keys: a lookup has one
  answer.

`MessageHistoryProofs`
- `HistoryInvariance`: `HistoryInv` is TypeOK, the types of the view, `OrderInv` (an open
  insert is the newest row of its thread, because it holds the thread row) and `Held`: what
  a client holds of a history is an interval of the committed rows of its thread with its
  cursors at its ends. It is about all rows of the thread, whether or not the caller can
  read them now, and so survives a departure; a page then is empty and moves no end
  (`EmptyPage`). A page extends the interval at one end, and a commit is never inside it.
- `HistoryComplete` and `BottomIsReal` follow; the extra row the paginator asks for is what
  tells the end.

Only model-checked: CatchesUp, BotAnswers, Delivered, Led and ReachesEnd. They are liveness
properties under fairness, which the provers do not handle.

## Not modelled

Payload contents and their mapping to protobuf, the content of interactive messages
and of provider requests; permissions and privacy beyond the role comparison of
Transfer and what a member may do to a message (Update changes nothing, see above);
the filters of a search one by one, which `Found` covers by any subset; the histories
of left threads, which use the same paginator; typing, which stores nothing and on which
nothing depends; the reference cache, which only names things; storage calls for
media; generated code (two thirds of the repository's lines), configuration and
start-up. Deadlocks are left to PostgreSQL, which fails one call: `CallFails` and
`Abort` cover the outcome.

## Plan

Modelled and checked: all parts above. Proved: all safety properties of the passing runs,
with no hypotheses. Left:

1. An abstract feed ("every member learns every change made for it") that
   `UpdatesJournal` implements, and abstract monotone horizons that `ReadReceipts`
   implements.
2. A wait-for graph of row locks, to tell which pairs of calls PostgreSQL may fail.
