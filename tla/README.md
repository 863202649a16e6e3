# TLA+ models of infinite-draw-backend

The backend (NestJS, Prisma on Postgres, BullMQ and socket.io on Redis) stores
drawings, keeps their history, lets people work on them together, and sells AI
diagram calls against a prepaid balance. What can go wrong in it goes wrong
between two steps: handlers await a database, a queue or another node, and
everything else runs meanwhile. These modules model that interleaving. Paths
below are relative to `src/src/`.

## 1. Inventory

| Component | State it keeps | Operations | Hard behaviour |
| --- | --- | --- | --- |
| Credits: `credits/credits.service.ts` | `User.creditBalance`, `CreditTopup`, `AiUsageReservation` rows | create an order, book a captured payment, reserve, settle, refund, sweep stale reservations | conditional decrement against concurrent reservations; three parties race to decide one reservation; repeated webhooks |
| AI calls: `ai-diagram/ai-diagram.service.ts` | where each call stands, nothing stored | reserve, enqueue a release job, ask the agent, settle or refund, remove the job | try / catch / finally over awaits that fail; retries and duplicates of a `requestId`; crash in the middle |
| AI worker: `ai-diagram/ai-usage.processor.ts` | BullMQ jobs | release one reservation, sweep all | runs beside the calls, once per job |
| Razorpay webhook: `webhooks/razorpay-webhook.controller.ts` | none | `payment.captured` | delivered again when not acknowledged |
| Rooms and voice: `realtime/collab.gateway.ts` | socket.io rooms, `voiceRosters`, `activeSessionsByFile` | join-room, join-voice, leave-voice, disconnect, eviction, cleanup | asynchronous handlers of one socket overlap and outlive the connection; evictions travel through Redis |
| Relays: `realtime/collab.gateway.ts` | `accessCache` on a socket | scene, mouse, idle, chat, signal and mute messages, each behind `hasFloor` | cached verdicts, filled by reads that may be slow |
| Access: `files/files.service.ts`, `files/shares.service.ts` | `Share` rows, `File.generalAccess*`, `deletedAt` | invite, change role, remove, general access, trash; `getAccess` | two reads that are not one transaction |
| Files and versions: `files/files.service.ts`, `files/file-versions.service.ts`, `files/file-access.guard.ts` | `File` and `FileVersion` rows | edit, save a version, restore one, trash, restore, destroy; the sweep of idle files | the guard's read is used after other requests wrote; retention; a sweep over a list read before |
| Thumbnail sweep: `storage/thumbnail-sweep.service.ts` | objects in S3 | delete what no row points to | reads side by side, deletions by lists that are old by then |
| Sharing: `files/shares.service.ts` | `Share` rows | invite, change role, remove, each followed by a notification | the change stays when its notification fails; requests race for one share |
| Chat: `chat/chat.service.ts`, `realtime/collab.gateway.ts` | `Message` rows | create with mentions, list | mentions are checked before the insert and told after it |
| Notifications: `notifications/` | `Notification` rows, read marks | create, list, mark read, push | the preference is read before the insert; the recipient may be gone |
| Clerk sync: `webhooks/clerk-webhook.service.ts` | `User` rows | upsert, delete with all that refers to the user | deliveries unordered and repeated |
| Preferences: `users/users.service.ts` | the `notify*` columns of `User` | switch | read by notifications under way |
| Lists: `files/files.service.ts`, `chat/`, `notifications/` | none; the cursor is with the client | mine, shared, starred, trash, search, messages, notifications | each page is a query of its own, and the rows it goes on from move |
| Guards, presigning, TURN credentials, wiring | none | | none beyond a single statement |

How they interact: an AI call goes through Credits and the queue; the worker and
the webhook change the same rows. The gateway asks `FilesService.getAccess`,
which reads what the sharing requests write. The idle sweep and the thumbnail
sweep run over rows that requests change. Chat and sharing call Notifications,
which look at rows Clerk's webhook and the users change. The lists read what all
of these write.

What makes each correct: money is neither made nor lost, each reservation is
decided once and in the end, nobody is charged more than was reserved (Credits);
one room per socket, one presence per tab, no call over its cap (Rooms); a
change of access is noticed within the cache's lifetime (Access); manual
versions stay, automatic ones stay few, an idle file gets its version (Files); no
object that is pointed to is deleted (Thumbnails); nobody is told of a file who
should not be, and whoever should be has been when the answer says ok (Sharing,
Chat, Notifications); a list shows what its reader may read, all of it, and once,
as far as what it lists stays where it is (Lists).

## 2. Modules

| Module | Models | Uses |
| --- | --- | --- |
| `CreditLedger` | what Credits promises: an abstract ledger of balances, top-ups and holds | |
| `AiCredits` | Credits, AI calls, AI worker, Razorpay webhook | instantiates `CreditLedger` |
| `AiCreditsProofs` | theorems: types, refinement of the ledger, balances and what they sum up to | extends `AiCredits` |
| `ReservationProofs` | theorems: the life of a reservation | extends `AiCreditsProofs` |
| `CollabRooms` | rooms, voice rosters, the session map, evictions | |
| `CollabRoomsProofs` | theorems about `CollabRooms` | extends `CollabRooms` |
| `AccessFloor` | `getAccess`, `hasFloor` and its cache, sharing | |
| `AccessFloorProofs` | theorems about `AccessFloor` | extends `AccessFloor` |
| `VersionLog` | what the history of a file promises: saved versions stay, the last states are kept once each | |
| `FileHistory` | files, versions, requests, the idle sweep | instantiates `VersionLog` |
| `FileHistoryProofs` | theorems: types, retention, refinement of the log | extends `FileHistory` |
| `ThumbnailSweep` | the thumbnail sweep | extends `FileHistory` |
| `ThumbnailSweepProofs` | theorems: what the sweep may not delete | extends `ThumbnailSweep`, `FileHistoryProofs` |
| `Notices` | sharing requests, chat messages, notifications, preferences, Clerk's mirror of users | |
| `NoticesProofs` | theorems about `Notices` | extends `Notices` |
| `Listing` | the seven paged lists, stars, and the writes beside them | |
| `ListingProofs` | theorems about `Listing` | extends `Listing` |
| `MC*` | constants, symmetry and helpers for TLC | |

### AiCredits

*State.* `balance`, `topup` and `rsv` are the rows; `order` is Razorpay's side of
an order; `job` and `jobAge` the release job of a reservation; `pc` and `cost`
the local state of each call; `worker` that of each queue worker; `age` how long
a reservation has been open. Amounts of money are whole rupees; costs are
natural numbers of *units*, `Scale` to the rupee, which is what a `Decimal` is.

*Atomicity.* A Prisma transaction whose first effective statement is a guarded
`UPDATE` is one step. The read before it is another, also where both are in one
`$transaction`, since READ COMMITTED lets others commit between them:
`SettleRead`/`SettleWrite`, `RefundRead`/`RefundWrite`, `WorkerRead`/`WorkerWrite`.
Every other await separates steps.

*Failure.* A database or Redis call fails without effect (`StepFails`,
`WorkerFails`) or commits and loses its acknowledgement (`Commit`); where the
exception goes is `AfterFailure`, the try, catch and finally of `run`. `Crash`
ends all calls and workers. `MaxFaults` bounds the sum of these. A stalled job
is taken up again or failed, as BullMQ may do either. The agent may answer, fail
or never return: the code sets it no time limit.

*Left out.* Prompts and the Mermaid fence (an answer has one or counts as a
failure), signature checks, HTTP statuses, the listing endpoints.

### CollabRooms

*State.* `rooms` is the adapter's view, `roster` is `voiceRosters`, `session` is
`activeSessionsByFile`. `join` and `voice` hold one record per handler run: a run
belongs to a socket but does not end with it. `leaving` is the tour of
`notifyRoomsOnLeave`, one `fetchSockets` per room. `evicting` are
`disconnectSockets` requests under way. `born` orders the connections.

*Cuts.* A handler is cut at each await, and only there: the loop that leaves
other rooms awaits after each and looks at the live set again; joining and the
size check of a call do not await in between. Joining does nothing on a socket
that has closed. `voice` runs start from any room unless `FromRoom` says that
clients call only from the room they are in.

*Left out.* A second node: rosters and session maps are per process and the
code announces nothing of them to others. What is emitted.

### AccessFloor

*State.* `trashed`, `general`, `share` are the facts; `cache` and `msg` the
socket's verdict and its checks under way. `held`, `lacked` and `open` are
history variables, written by `Remember` beside every step and read by no
action. `ReadFile` and `ReadShare` are the two reads of `getAccess`; `Arrive`
takes `now` before either and answers from the cache if it can. `Answer` stands
for all of the gateway's handlers that ask for a floor: what they relay keeps no
state.

### FileHistory

*State.* A `File` row is its life, content, thumbnail and `rev`; its versions are a
set of rows, ordered by `born`, which stands for `createdAt` and counts how many the
file has had (`made`, which nothing resets). Content is
named by the write that brought it in. Time is revisions: every `file.update`
bumps `updatedAt`, so that "a version created since the last update" is a
version with the file's present `rev`. Two writes in one millisecond, and clocks
that disagree, are not told apart; `createdAt` is the time of the insert. `idle`
counts up to the idle window.

*Requests.* `Admit` is `FileAccessGuard`, whose read (`seen`) a save uses later;
the handler's writes follow as steps of their own. A row destroyed since the
guard is `RowIsGone`. Deleting looks at the trash again, as `deleteMany` does.

*Idle sweep.* One worker takes a batch (`SweepIdleFiles`), then reads and writes
file by file; a failing transaction is passed over. `Prune` is the retention.

*Log.* `VersionLog` keeps of each file what users saved and the states it was left
in. It orders states by their revision, where the code orders rows by their time;
it knows neither requests nor the sweep's batch, so that a state is newer than all
that are kept is for `FileHistory` to ensure, through the query, the single worker
and the order of reads and writes.

### ThumbnailSweep

The three reads of a sweep in any order, then one deletion per step, over all
of `FileHistory`. A key stands for the pair of a light and a dark thumbnail, which
move together; `Fresh` is the presigned upload, whose key no other has.
`GraceEnds` lets an uploaded object pass the grace period only when no request
still carries its key and no sweep is running: requests and sweeps are far
shorter than that period. `pinned` is a history variable.

### Notices

*State.* One file, its owner, and other users. `live` are the `User` rows,
`closed` and `pending` Clerk's side of them; `muted`, `shared`, `anyone`, `file` are
what handlers read; `stored` with `mentions` the messages and `inbox` the
notifications. `run` is a handler, which becomes a request on a share or a chat
message when it starts, and `note` one `NotificationsService.create` of it per
recipient. `opened`, `granted`, `wanted`, `spurned`, `wrote` and `late` are history.

*Ids.* A row that is deleted and inserted again has a new id. What a handler holds
of a user or of a share is therefore kept in `known` and `holds`, which a
deletion empties: a later write by that id fails (P2025, P2003), or finds nothing.

*Cuts.* Each await: find, write, read the preference, insert. The mention checks
of one message run side by side, and so do its notifications. The last answer of
`Promise.all` decides a message's answer, the first failure does too, and then the
others go on. The check of a mention is `getAccess`, which reads twice: `MentionFile`
reads the File row, and where that leaves the role open, `MentionShare` the Share
row, at any time after. `todo` and `asked` are the candidates before each.

*Mentions.* A check may therefore find a role that was never in force: it reads the
file live, the owner trashes it, an invitation its guard had let in commits
(`shares.service.ts:57` does not look at `deletedAt`), and it reads that share. So
`MentionsWereGranted` does not say that a user who is mentioned had access at one
moment. It says that either the File row alone granted it (a live file, hers or
open) during the check, or that she had a share during the check once the file had
been live during it. What it rules out is a mention on the strength of the
client's list, of a share taken away before the check, or of a file that
was in the trash from its beginning to its end.

*Authors.* `hasFloor` let a send in on a verdict as old as its cache allows, so
`StartSend` asks nothing of the author but a row: she may have lost access, and the
file may be trashed or gone. `AccessFloor` says how old that verdict can be.

*Clerk.* Events of an account come in any order, and again when the answer is
lost. An update matters only when it can overtake a deletion, so `"updated"` is
pending only beside `"deleted"`; one without a primary email is acknowledged and
changes nothing. A delivery that fails, since the email is taken or
rows without a cascade still refer to the user, leaves its event pending, as one
that has not come yet.

*Left out.* Roles (see `AccessFloor`), bodies, read marks, and what is emitted to
connected clients, whose failure the code swallows.

### Listing

*State.* The rows the lists are made of, for one reader: her files, those of others
with her `Share` and `Star` rows, and posts, which stand for the messages of a file
or for her notifications. `scan` is what the client keeps: the list and how far it
is. `kept`, `slipped`, `climbed`, `seen` and `twice` are history.

*Reads.* A page by cursor is one query: rows from the cursor's place on, in the
order of the list, less one. Prisma finds the place by the cursor's id alone, so
a row that has left the list still marks it, one that is destroyed leaves nothing,
and `skip: 1`, meant for the cursor's row, passes over another when that row is
not in the list. A search takes ids by offset (`SearchIds`), in any order of its
ties, and rows by these ids in a second query (`SearchItems`).

*Writes.* Each is a request with its guard, in one step; `FileHistory` and
`Notices` cut them. They happen while the list is read: what was before is in
`Init`, where files may share a time.

## 3. Runs

| Run | Instance | States | Question |
| --- | --- | --- | --- |
| `credits_calls` | 2 calls with one `requestId` and different estimates, costs 0 and above the estimate, 1 order, 1 worker, 1 fault | 52k | rows and balances reconcile; decided once, never early, in the end; payments booked; the ledger is implemented |
| `credits_balance` | 3 calls, 2 `requestId`s, a balance for part of them | 440k | no overdraft; what is delivered free was late or shared |
| `credits_retry` | the same, small | finds a violation | same `requestId`, same result |
| `rooms` | 3 connections of one tab, 3 join-room runs, 2 join-voice runs, cap 1, 2 files, 1 failed fetch | 563k | one room; one presence per tab; the cap; types |
| `rooms_roster`, `rooms_evict` | 2 joins and a call; 2 joins | find violations | the two comments quoted below |
| `history` | 1 file, 2 requests, 2 thumbnail keys, cap 2, 3 updates, 1 fault | 452k | cap, no state versioned twice, manual versions kept, idle files versioned; the log is implemented; no deletion of what one kind of row pointed to throughout |
| `history_stale_save` | 2 requests | finds a violation | a version holds what the file holds |
| `thumbnails_lost` | 3 requests, 2 keys | finds a violation | no row points to a deleted object |
| `access_floor` | 1 user and the owner, 2 checks of one connection, TTL 2, clock to 4, floor EDITOR | 680k | changes are noticed within the TTL |
| `notices` | 1 user and the owner, 2 handlers, at most one of them a message, one switch, 1 fault | 1.7m | who is told, who is not, what an answer of ok means, which deleted accounts come back |
| `listing` | 3 files, 3 posts, 7 lists, 1 row a page, 2 writes | 675k | what is missed, shown twice, shown at all; reading ends |

*Why the bounds are enough.* A race for a reservation needs two calls, a worker
and one fault; a third call with another `requestId` adds the race for a balance.
An entry erased too late needs a tab that reconnects twice. Retention at the cap
needs cap + 1 automatic versions: three updates, each followed by a sweep. A
cache that is too old needs a slow check and a fast one, and time to run past
the TTL twice. Two requests are enough to remove one share twice, or to invite and
remove; a mention is wrong with one message, one user and a change beside it, and
no handler reads what a message wrote, so two of them are not run together
(`OneMessage`). Both
removals around an invitation of the same user, several recipients of a message, and
switches of other kinds than `ACCESS_REMOVED` are beyond this run: for them the
theorems of section 5 stand. A row is skipped with two rows and one write, and shown twice with three; the second
write undoes the first or adds to it.

`CHECK_DEADLOCK FALSE` stands where the requests or connections of the instance are
used up and the system rests; the credit runs check deadlock, since webhooks
repeat for ever.

*Fairness.* `AiCredits!Fairness`: the clock moves; Razorpay repeats a delivery
until one is acknowledged; an idle worker starts the repeatable sweep job and
works its list off (`upsertJobScheduler` in `onModuleInit`). Nothing is assumed
of calls, agents or release jobs. `ThumbnailSweep!FairTSpec`: the clock moves and the
scheduled sweep of idle files runs (`AutoVersionProcessor`); nothing is assumed of
requests or of the thumbnail sweep. `Listing!FairSpec`: the client asks for the next
page as long as it is given a cursor; with no more than `MaxChanges` writes,
reading ends. Faults are bounded, so failures do not go on for ever.

Each property of a passing run has a mutant in `PROJECT.json`, a plausible slip in
the code (a dropped guard, an expiry counted from the wrong moment, retention
off by one) that the same run refutes.

## 4. What the code does not do as its text says

* `credits_retry`: a duplicate of a request that loses the race after the winner
  spent the balance gets 402. `updateMany` fails before the unique `requestId` is
  met, so the catch that returns the winner's reservation is not reached.
* `rooms_roster`: `handleJoinVoice` does not ask after its await whether the socket
  is still there; a socket that left is added to the roster for good.
* `rooms_evict`: join-room evicts in the order runs finish, not in that of
  connections; a tab's old socket can have its new one closed.
* `history_stale_save`: `save` stores the row the guard read; a version newer than
  the last edit can lack it, and the idle sweep takes the file for covered.
* `thumbnails_lost`: a version saved while the sweep runs can point to an object
  the sweep is about to delete.

One more, which no run shows because no text of the repository is as definite: a
message one of whose notifications fails is stored, and mentions its readers, while
its sender is answered `send-failed` and nobody in the room receives it
(`collab.gateway.ts:314-323`, which logs it as dropped). A client that sends again
stores it twice.

## 5. Proofs

`AiCreditsProofs` proves, for all sets of users, orders, requests, calls and
workers, all scales, costs, delays and fault bounds that meet
`CreditsAssumption`:

* `TypeCorrect`: `Spec => []TypeOK`, one step per action. `TypeOK` includes that
  no recorded cost exceeds its estimate, which the ledger mapping needs.
* `CreditsImplementLedger`: `Spec => Ledger!Spec`. The mapping takes a reservation
  to a hold of `Whole(est)` of which `Charge(est, actual)` is kept. Each step is
  mapped to `TopUp`, `Reserve`, `Settle`, `Refund` or a stutter. A booking has to be
  positive for the ledger to take it; `OrdersInv` (an order is worth something
  once created) is the strengthening that gives this, with `TypeOK`.
* `BalancesNeverNegative`: `Spec => []NoOverdraft`. Not by a step per action of
  the detailed module: `NoOverdraft` is inductive over the ledger's five steps, and
  every step of the detailed module is one of those.
* `RowsAndBalancesAgree`: `Spec => []Reconciles`, under `TablesAssumption` too (finitely many
  orders and requests; an infinite table has no sum). Also along the ledger:
  `Balanced` is inductive over its five steps (`LedgerStepBalances`), each of which
  changes one row and moves one balance against it (`TotalsOf`). The sum is a fold
  of the community modules. That there is a function which adds up the parts of a
  table (`AddsExists`), and that it follows a change of one row (`PartsDiffer`), goes by
  the least size of a part for which it would fail: such a least size exists by
  `WFMin`, so no induction rule over a predicate is needed. Both sums pick
  rows in the same order, and it does not matter which.
* `ChargeIsCovered`, `ChargeFromRecord`: arithmetic of rounding and clamping.

`ReservationProofs` follows one reservation, from the same assumption:

* `RowsDecidedOnce`: `Spec => DecidedOnce`, from `StepMovesRows`, which says all that
  a step can do to a row: nothing, open it, settle it, or refund it by a worker that
  has it in hand or by a failing call of the same request.
* `DeliveredLeavesNothingHeld`: `Spec => []DeliveredIsDecided`. Not inductive: a call
  in its `finally` must know that its row exists and was decided. `RowsInv` adds that
  a row without a status is empty and that a call past its reservation has a row.
* `NothingReleasedEarly`: `Spec => NoEarlyRelease`. `AgesInv` says that a release job
  is never older than its row, and that what a worker has in hand, as a job or as
  an item of a sweep, is past the delay or already decided.
* `FreeOnlyForAReason`: `Spec => []FreeOnlyIfLateOrShared`, from an invariant that
  each refunded row is late or has a call of the request that gave up.

`CollabRoomsProofs` assumes `RoomsAssumption`, in which the set of sockets is
finite, so that a roster has a cardinality:

* `TypeCorrect`: `Spec => []TypeOK`; `TypeInv` adds what each run of a handler keeps
  in its locals (`RunsInv`).
* `CallsKeepTheirCap`: `Spec => []VoiceCap`. The count and the insertion are one step
  of the event loop; the proof needs that nothing else adds to a roster.
* `OneRoomPerSocket`: `Spec => []OneRoom`. `SameRoom` (any two rooms of a
  socket are one) is inductive because a run joins in the very step in which its
  look at the live set finds no other room: `JoinEnter` keeps the guard
  `ToLeave(j) = {}`.
* `TabsArePresentOnce`: `Spec => []OnePresencePerTab`. `PresenceInv` accounts for
  each socket in a room: a run of it is still entering, or the session map names
  it, or it is being evicted. Two sockets of a tab cannot both be the one named.

`AccessFloorProofs` assumes `FloorAssumption` and takes any lifetime of the cache:

* `TypeCorrect`: `Spec => []TypeOK`.
* `RevocationsAreNoticed`, `GrantsAreNoticed`: `Spec => RevokedWithinTTL` and
  `Spec => GrantedWithinTTL`. `PastInv` says that the history variables remember:
  what is the case was last the case now, and memories only move forward. `FreshInv`
  says of a row read by a check, and of a verdict on a socket, that the grants and
  the gaps in it date from the arrival of its check or later. A verdict expires
  `TTL` after that arrival, because `now` is taken before the reads; with
  `clock + TTL` taken after them (the mutant of both properties) the invariant fails.

`NoticesProofs` assumes `NoticesAssumption`, any number of users, handlers, switches
and faults. `TypeInv` is `TypeOK` with three parts: `RunInv` (an unused handler has
left no trace, whoever holds a share's id holds that of a share that is there),
`NoteInv` (whom a notification is for is fixed by its handler) and `MirrorInv`.

* `TypeCorrect`, `GhostsAreReordered`: from `TypeInv`. The ghosts need that a deletion
  is acknowledged only in the step that deletes.
* `MentionsOnlyGranted`, `SilenceIsKept`: from `AskInv`, which says what the history
  variables know of each pair of a handler and a recipient, and from `StepDelta`,
  which says all that a step can do to such a pair. A candidate whose Share row is
  still to be read has had the file read live, so her send is in `opened`: that part
  of `AskInv` carries the first read to the second.
* `AnswersAreTrue`: from `AnswerInv`, which follows a message to its answer: it is
  stored before its notifications start, and each of them is done or skipped when
  the answer is ok. An answered notification keeps its answer (`WellStays`), and
  one whose recipient is deleted goes together with the id that is held of her.
* `RemovalIsToldOnce`: from `RemovalInv`: for each user, an invitation of her has been
  written, or no removal has, or one removal has and she has no share. The id a
  removal `holds` is what keeps the second of two racing removals from writing.

`FileHistoryProofs` assumes `HistoryAssumption`: any files, requests and keys, any cap
and batch, any idle window, number of updates and faults. `StepGood` says once, for
all actions, what a step keeps of the types and what it can do to a file
(`Delta`): nothing, update its row, save a version, insert an automatic one and
prune, or destroy it. The rest argues from these five cases.

* `TypeCorrect`: `Spec => []TypeOK`, with that no version outlives its file. `RunsInv`
  adds that a request under way has a file and the sweep works on its batch.
* `RetentionHolds`: `Spec => []AutoCap`. Of a set of versions, those with `Cap` at
  most since them are `Cap` at most (`NewestAreFew`, from the oldest of them, which exists
  since births are natural numbers).
* `StatesVersionedOnce`: `Spec => []AutoOnlyAfterChange`. Inductive with two parts:
  `RowsInv` (a version was born before the next one and at a revision its file has
  reached; no two were born together) and `DueInv`: a file in the batch of a sweep
  has no automatic version of its present revision. `DueInv` carries what the query
  saw across the steps up to the insert: updates in between only raise the
  revision, and only the sweep itself adds automatic versions, one per file of
  the batch.
* `SavedVersionsStay`: `Spec => ManualKept`.
* `HistoryImplementsLog`: `Spec => Log!Spec`. A save maps to `Save`, a destruction to
  `Destroy`, an insert with its pruning to `Snapshot`; all else stutters. The log
  keeps the states with `Cap` at most of no lesser revision, the code the rows with
  `Cap` at most of no lesser birth: `StatesVersionedOnce` is what makes these the same.

`ThumbnailSweepProofs` assumes the same:

* `PinnedKeysStay`: `TSpec => SweepKeepsPinned`. `PinInv` says that what is pinned is
  pointed to, and that a table which a sweep has read gave it every key pinned in
  that table. A deletion comes after both tables were read, in whichever order.
* `HistoryHoldsBesideSweep`: every step of `TSpec` is a step of `Spec` or leaves its
  variables alone, so what is proved of the history holds beside the sweep.

`ListingProofs` assumes `ListingAssumption`: a finite set of ids, any set of the seven
lists, any page size, number of posts and writes.

* `ListsShowOnlyGranted`: `Spec => ShownIsGranted`. The where of each list implies
  `getAccess` (`RowsAreGranted`), and neither cursor, offset nor limit adds a row.
* `ListsTyped`: `Spec => []TypeOK`, by `TypeInv`, which adds that pages are finite.
* `MissedOnlyForReason`, `RepeatedOnlyForReason`: `Spec => []MissedOnlyIfSlipped` and
  `Spec => []RepeatedOnlyIfClimbed`, from `ScanInv`. A list is totally ordered
  (`Total`, `Least`, `Ends`), so each row has a rank, the number of rows above it
  (`RankOf`), and pages are intervals of ranks (`TopOf`, `SliceOf`). `KeptInv` says that
  a row kept so far is in the list at its place. `Missing` says, unless `slipped`,
  that kept rows not yet shown lie behind the cursor's place, or at a rank not below
  the offset; `Repeating`, unless `climbed`, that kept rows already shown do not.
  `CursorInv` is what a cursor needs once its row has moved: rows move up only, so the
  cursor's place now is not below the one it was handed out for. A write moves the
  bound of one of the two invariants at most in the direction that its history
  variable records; `skip: 1` is exact while the cursor's row is in the list,
  and where it is not, `slipped` is set.

Only model-checked: the liveness properties (`EveryReservationDecided`,
`CapturedIsBooked`, `IdleIsVersioned`, `ScanEnds`), since fairness and ENABLED are
outside the proof system's reach, and the five runs that find a violation. Every
other property that a run checks is proved.

## 6. Not modelled

Read marks of notifications: a flag that its owner sets and only the badge counts.
What is emitted to clients, and so the order in which they receive collaborator
lists: the frontend that keeps them is not in the repository. Token verification,
signatures, presigned URLs and TURN credentials: external cryptography without
state. One `requestId` sent by two users: `Owner` fixes who minted it (clients send
UUIDs, `ai-diagram/dto/generate-diagram.dto.ts:9`). What a search's second query shows
of rows whose access went after the first: `ShownIsGranted` is about the query of
ids. The suggestions of whom to invite and the name filters of the lists. A
deletion that Clerk reports of a user with files, top-ups or reservations is
refused by the database each time; a top-up of a deleted user likewise
(`credits/credits.service.ts:111`): both stay pending on the other side for ever,
and what then happens is an operator's. Wiring, health and metrics.

## 7. Plan

Done: credits with their ledger, rooms, access, notices, history with its log and
thumbnails, and lists, all checked and proved about. Left:

1. `CollabCluster`: `CollabRooms` on two nodes, with rosters and session maps per
   node and `fetchSockets` across them.
2. An abstract specification of presence (tab to socket) for `CollabRooms`, as a
   refinement.
3. Liveness of `Notices`: a deletion is mirrored in the end, under repeated delivery.
