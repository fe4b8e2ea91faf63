# A TLA+ model of backbone-mail

backbone-mail is a Rust module over PostgreSQL for messaging: threads on business
documents, the send queues for e-mail and SMS, the badge that tells a reader what
became of each recipient's copy, chat channels, and a realtime feed. Its state is in
the database; what runs concurrently are HTTP handlers, scheduled jobs (possibly on
several workers), a provider webhook, and long-lived SSE streams. This directory holds
TLA+ modules for the parts where the order of steps matters, TLC runs that check them on
small instances, and TLAPS proofs of their safety for every instance.

All paths below are relative to the repository root.

## 1. Inventory

| Component | State | Operations | Hard behaviour | What makes it correct |
|---|---|---|---|---|
| Status lattice: `messaging_status_rank`, the monotonic guards, the transition-check triggers (`migrations/`) | none (triggers) | refuse a write | two guards of different shape on one column; a refusal rolls back the whole transaction | a badge only climbs, along declared moves |
| SMS send queue (`sms_write_service.rs`, `sms_queue_repository.rs`) | `sms.state`, `swept_at`, `sms_trackers`, linked `mail_notifications` | claim a batch, send, write the outcome with tracker mirror and pump | concurrent drainers, death between claim and outcome, an outcome that lands late, a refused pump write in mid-batch | no copy is sent twice except by the declared retry; row, tracker and badge are true and agree |
| SMS status webhook (`sms_status_webhook_service.rs`, `SmsWriteService::advance_state`) | the same rows | advance a row by the provider's report | late, repeated, reordered callbacks, racing the drainer | a report never takes a row or badge back |
| Stuck sweep and retention (`gc_service.rs`, `gc_repository.rs`) | the same rows, presences, guests | requeue stuck rows once; delete old sms, notifications, presences, guests | the age threshold may pass under a live drainer; deletes race the pump | one retry per row and no loop; what is live is not deleted |
| Outgoing mail queue (`mail_queue_write_service.rs`, `mail_queue_repository.rs`) | `mails.state`, `failure_*`, `scheduled_date`, linked notifications of every recipient | enqueue, claim (writes `exception` first), send, `mark_sent`, `mark_failed`, manual requeue | crash between pre-write and verdict, requeue of a row in a drainer's hands | at most one attempt per human decision; failures are diagnosable; badges follow the verdict |
| Thread post pump (`message_write_service.rs`) | messages, notifications, queue rows | one transaction mints message, notifications, queue rows and outbox events | none of its own: a single transaction | what it mints is consistent |
| Realtime feed (`realtime/tailer.rs`, `registry.rs`, `sse.rs`) | outbox rows, dedup map, replay buffer, per-identity slots | poll, publish, replay, subscribe, lag | rows that commit later than they are stamped; subscription after replay; slow and gone clients | nothing published is lost to or repeated for a connected client |
| Scheduled messages and notifications (`schedule_write_service.rs`, `schedule_repository.rs`) | `mail_scheduled_messages`, `mail_message_schedules` | arm, cancel, dispatch posts, dispatch notifications | posts and notices commit on their own inside an open claiming transaction; permission revoked before the date; one refused insert takes a batch back | a scheduled message is posted once or cancelled, or its author is told; a fired row has reached every follower |
| Inbound gateway (`mail_inbound_service.rs`, `inbound_repository.rs`) | messages by `message_id`, aliases | probe, allowlist, routing ladder, insert, answer | two relays of one message, lost answers, a reply before its parent | what a relay may forget is stored, once; nothing known is missed in routing |
| Discuss channels and members (`channel_write_service.rs`, `channel_member_write_service.rs`) | channels, member rows, seen and fetched pointers | create, one-to-one chat, archive, join, leave, acknowledge | concurrent minting, a join racing a leave, acknowledgements out of order | one chat per pair unless raced; closed channels stay closed; pointers are at the newest message read |
| Activities (`activity_write_service.rs`) | activities | schedule, complete, chain | two completions at once | done with its note and one successor |
| Reactions and stars (`reaction_write_service.rs`, `message_edit_service.rs`) | one row per key | toggle (delete, else insert) | two toggles of one key | what is announced is so |
| Followers (`follower_write_service.rs`), presences (`presence_write_service.rs`) | one row per partner | subscribe with a policy, unsubscribe; poll, set a status | insert, else update, with a delete in between | what was answered is kept |
| Entity state machines (`domain/state_machine/`) | none | can a verb be applied | generated apart from the triggers of the same tables | both declare the same moves |
| Blacklists, attachments, guests, typing, edits, aliases, ACL, queries, HTTP routing, generated CRUD | rows | single-row upserts and reads | little | unique indexes |

How they interact: the post pump creates queue rows and notifications in one
transaction. The drainers are scheduled jobs (`config/application.yml`) that claim rows in a
short transaction, talk to a provider outside any transaction, and land each outcome in
another one. The sms webhook writes the same rows through the same pump. The sweep and
retention jobs write or delete them by age. Every badge change also stages an outbox
event, which the tailer publishes to SSE streams. Scheduled posts, inbound mails and completion
notes all become rows of the one message table, which the notify job fans out, the gateway
learns its routes from, and failure notices are attached to.

`PROJECT.json` lists all components with their status and, under `hazards`, each place in
the code that is hard to test, with the properties that watch over it or the reason why none
does.

## 2. Modules

    StatusLattice            vocabularies, ranks, what the triggers allow (pure)
      |-- DeliveryStatus     abstract: one delivery badge per recipient
      |-- SendLedger         abstract: attempts to send, granted, claimed and spent
      |-- SmsPipeline        sms queue + webhook + sweep + retention
      |     |-- MCSmsPipeline      symmetry for TLC
      |     `-- SmsPipelineProofs
      `-- MailQueue          outgoing mail queue + notification retention
            `-- MailQueueProofs
    OutboxTailer             outbox rows and the tailer's passes
      |-- EventLog           abstract: a log of committed rows
      |-- OutboxTailerProofs
      `-- RealtimeFeed       composes an instance of it with ring, broadcast and streams
            |-- LogReaders         abstract: readers of one log, and clients with a mark in it
            `-- RealtimeFeedProofs
                  `-- FeedOrderProofs
    ThreadMessages           the message table and inbox rows the next four share
      |-- ScheduledPosts     post-later
      |     `-- OneShot            abstract: a row that acts once, while it is due
      |-- HeldNotifications  notify-later
      |-- InboundGateway     the inbound mail gateway
      |     `-- MailIntake         abstract: what is accepted is stored, once
      |-- Activities         activities and their completion
      `-- ThreadTraffic      composes the four
            |-- MCThreadTraffic      the mails of the instance
            `-- ThreadTrafficProofs
    Callers                  who serves the calls of a conversation
      |-- DiscussChannels    channels and one-to-one chats
      |     `-- ChannelMembers     join, leave, read pointers
      |-- MessageMarks       reactions and stars
      |     `-- Switches           abstract: toggles that turn a switch over
      |-- DocumentFollowers  followers of a document
      |-- Presences          presence rows and their retention
      `-- Conversation       composes them
            |-- MCConversation       symmetry for TLC
            `-- ConversationProofs
    StateMachines            the entity state machines against StatusLattice (theorems only)

Seven modules are abstract specifications: they have no lines of code of their own, and say in a page
what somebody who does not know the code may rely on. A component instantiates its
specification with a refinement mapping, a run checks the result as a temporal property, and TLAPS
proves it for every instance:

| Specification | Implemented by | Property | The mapping |
|---|---|---|---|
| DeliveryStatus: a badge is minted, climbs by declared moves, is reaped | SmsPipeline, MailQueue | `BadgeSpec` | the linked notifications |
| SendLedger: an attempt is granted, claimed by one worker, then handed out or given up | SmsPipeline, MailQueue | `LedgerSpec` | open is `outgoing`; held is what is in `todo`; granted is 1 for the insert, and 1 for the sweep's marker or for each requeue |
| EventLog: rows of committed transactions, each at most once in a life | OutboxTailer | `LogSpec` | the log is what was broadcast; a row in the ring only is not in it yet |
| LogReaders: streams handle one log upwards, a client's mark in it never goes down | RealtimeFeed | `ReadersSpec` | the log is `PublicationLog`, a row in the ring included; a mark is the place of `Last-Event-ID`, once the client has had an event of this life |
| OneShot: a row acts once, while it is due, and ends settled or cancelled | ScheduledPosts | `ShotSpec` | effects are posts, excused are the rows of an interrupted dispatch |
| MailIntake: what is accepted is stored, an identified mail once | InboundGateway | `IntakeSpec` | copies are messages of the mail, accepted are those answered "routed" or "duplicate" |
| Switches: an answered toggle turns its switch over | MessageMarks | `MarksSpec` | the rows; muddled is `clashed` |

In EventLog and LogReaders the same row enters the log at different steps: the first is about those
who listen, for whom it is published when it is broadcast; the second is about replays too, which can
read it in the ring before.

Operators named as a "faulty variant" are what the code would be with a plausible bug. No
specification uses them; putting one in place of the definition it follows must
make the property named for it in `PROJECT.json` ("mutants") fail.

### StatusLattice and DeliveryStatus

The rank function of the migration, the transition sets of the three
state-check migrations, and the sms-to-notification map of the service. A write is allowed
if both triggers let it pass. The labels of the source are inverted: `pending` is shown as
"Sent" and `sent` as "Delivered".

DeliveryStatus is what a reader of a thread may rely on: a badge is minted `ready`, climbs
by declared moves, and is at last reaped by retention.

### SmsPipeline

| Action | Code |
|---|---|
| `Enqueue` | `message_post` (sms channel: row, tracker, notification), the composer (no notification) |
| `ClaimBatch` | `SmsQueueRepository::claim_batch`: `FOR UPDATE SKIP LOCKED`, `outgoing` to `process`, commit |
| `Send`, `Answer` | `port.send`, one round trip in two steps, so that everything else can happen while it is out |
| `LandOutcome` | `apply_outcome_in_tx`: row write guarded on `process`, unguarded tracker mirror, pump |
| `AbortPass` | the same when the pump's write is refused: rollback, `?` ends the pass |
| `Crash` | the worker dies, or any database error ends its pass; a request on the wire may still arrive |
| `Settle` | external: the provider learns what became of an accepted message |
| `AdvanceState` | `advance_state`, called by the webhook |
| `SweepStuckProcess` | `sweep_stuck_process`: requeues each row once, minting `swept_at` |
| `SmsGc` | `sms_gc` |

`todo` and `call` are the memory of a drainer's process and vanish when it dies. `carrier`
is the truth at the provider, which no code reads; properties do. `sends` is a history
counter.

### MailQueue

| Action | Code |
|---|---|
| `Enqueue` | `message_post` (email channel, one mail for several recipients, due at once) and direct enqueues with a `scheduled_date` |
| `FallDue` | external: the clock |
| `ClaimBatch` | `claim_batch` with the crash-safety pre-write (`exception`, `unknown`, no reason) |
| `Send`, `Answer`, `RefuseHeaders` | the loop of `process_queue`: header guard, then `port.send` |
| `LandVerdict` | `mark_sent` / `mark_failed`, each followed by `advance_linked_notifications` if it matched |
| `Crash` | as above |
| `Requeue` | `requeue` |
| `NotificationGc` | `notification_gc` |

### OutboxTailer and RealtimeFeed

| Action | Code |
|---|---|
| `Stage`, `Commit`, `Rollback` | `stage_bus_event` inside a writer's transaction; a row is stamped when it is staged and visible when it is committed |
| `Poll` | the first half of `poll_once`: prune the map, read the window, take what is unseen |
| `Remember`, `Broadcast` | the two halves of `RealtimeRegistry::publish`: the ring under its lock, then the broadcast |
| `Restart` | the replica dies and starts with an empty map, ring and registry |
| `Reserve`, `Snapshot`, `Subscribe`, `Spawn` | the handler `stream`, step by step |
| `Cancel`, `FailSend` | how a stream notices that its client has left: the handler is dropped, or a send fails |
| `Forward`, `Lag` | the forwarder: replay, then broadcast; `RecvError::Lagged` |
| `Leave` | external: the browser closes the connection |

RealtimeFeed instantiates OutboxTailer and adds the ring to `Remember` and the registry
to `Restart`; stream steps leave the tailer alone, and tailer steps leave streams
alone. `heard` is history: the clients whose watermark is an event of this life, and so has a
place in its log. `feed` is what this life has broadcast: a receiver is a position (`next`) in it,
and `Capacity` says how far it may fall behind. The session frame is sent by `Spawn`. The
forwarder's own queue of 64 frames is left out, since frames in it are frames a client has
not read. Identity and allowlist are constants: all clients are tabs of one identity, and
`Permitted` are the events it may see.

`CommitLag` and `PollGap` are assumptions on the environment: no code bounds how long a
transaction stays open or how long polls fail. They are guards of `Tick`. `NoneSkipped`
says exactly what the 55 s window needs of them; without `CommitLag + PollGap < Window`
rows are skipped.

### ThreadTraffic: ScheduledPosts, HeldNotifications, InboundGateway, Activities

| Action | Code |
|---|---|
| `ArmScheduledMessage`, `CancelScheduledMessage` | `arm_scheduled_message` (with the permission check of its facade), `cancel_scheduled_message` |
| `ClaimScheduled` | `claim_due_scheduled_messages`, in the outer transaction that stays open |
| `CheckPermission`, `PostScheduled`, `PostFails` | `dispatch_one`: the check and the post run on the pool and commit on their own |
| `NotifyAuthorOfFailure`, `NoticeFails` | `notify_author_of_failure`, whose errors are swallowed; `Carriers` is `poster_message_id`. The histories `notices` and `dropped` keep which row each notice is of, what message it rides, and whether the unique index refused it |
| `CommitScheduled`, `LoseClaim` | the commit of the outer transaction, or its loss with everything the posts have done left in place |
| `ArmNotify`, `CancelNotify` | `arm_notify`, `cancel_notify` |
| `ClaimNotify`, `FireNotify`, `RefuseNotify`, `LoseBatch` | `dispatch_due_notify`: one transaction for the batch, or its rollback |
| `Deliver`, `Retry` | external: the relays, at least once |
| `ProbeDuplicate`, `RejectSender`, `PassAllowlist`, `Drop`, `FollowLadder`, `InsertMessage`, `LoseRace`, `CommitMessage` | `process_in_tx`, statement by statement, each a read of what is committed then |
| `LoseAnswer`, `LoseCall` | external: a lost answer, a dead call or a failed transaction |
| `Schedule`, `BeginDone`, `ArchiveDone`, `CommitDone`, `CommitAgain`, `LoseDone` | `schedule`, `action_done` |
| `FallDue`, `FallDueNotify`, `Revoke` | external: the clock, the host's access rules |

`messages` lists what is committed, in order, with the row, mail or activity each message stems
from, which is how properties count posts. `claimed`, `batch`, `serving` and `doing` are open
transactions; a locked row is skipped by `SKIP LOCKED` and waited for by everything else.
`interrupted`, `barred`, `answers` and `since` are history. `MaxFaults` bounds failures, and
`MaxWork` what authors, relays and users ask for. The retry of a relay costs nothing, so
that liveness is not a matter of the bound.

### Conversation: DiscussChannels, ChannelMembers, MessageMarks, DocumentFollowers, Presences

| Action | Code |
|---|---|
| `Create`, `Archive` | `create`, `archive` |
| `FindChat`, `FindAgain`, `MintChat` | `get_or_create_chat`: the search on its own, the second search, the insert and its commit |
| `ClaimMember`, `AdvancePointer` | `mark_as_read` and `mark_fetched`: the member row `FOR UPDATE SKIP LOCKED`, then the guarded update |
| `Join`, `UpsertJoin` | `join`: the reads, then the upsert |
| `Leave`, `SoftDeleteMember` | `leave`: the read, then the update |
| `Toggle`, `DeleteMark`, `InsertMark`, `CommitToggle` | `toggle` of reactions, `toggle_star` |
| `SubscribeNew`, `SubscribeAgain`, `ApplyPolicy`, `Unsubscribe` | `subscribe` (one statement, or two after a conflict), `unsubscribe` |
| `PollFirst`, `PollAgain`, `RefreshLastPoll` | `refresh_last_poll`, and `set_status`, which has the same shape |
| `PresenceGc` | `presence_gc` |
| `LoseMint`, `LoseVisit`, `LoseToggle`, `LoseSubscribe`, `LosePoll` | a call dies, or its transaction fails |

The components share nothing but the tasks that serve them and the bound `MaxCalls`, except
that members sit in channels. `read`, `promised` and `online` are what callers have been
answered; `out`, `revived`, `raced`, `clashed`, `cut` and `reaped` remember the interleavings that the
code does not protect against, so that each property says exactly when it may fail.

### StateMachines

The arms of the four generated `can_transition` functions as sets of `<<from, verb, to>>`. No
hand-written query asks these machines, and only the transition endpoint of activity types is
mounted (`src/src/lib.rs:399-402`), so there is no behaviour to explore; the module states
that machine and trigger agree, and where the second trigger disagrees with both.

### What is abstracted, and why it is sound

- *READ COMMITTED.* In ThreadTraffic and Conversation a transaction whose reads may go stale
  before it writes is several actions, each reading what is committed then. A wait for a
  row lock, or for the other transaction that has inserted the same unique key, is a guard
  (`~Locked(r)`, `~Contended(w)`, `~Elsewhere(...)`); what is read after the wait is read anew. Transactions
  without such a gap are one action.

- *Transactions are atomic steps.* Each takes its row locks with its first guarded write
  and keeps them to commit, and READ COMMITTED re-evaluates the guard after waiting. Where the
  sms row write matches nothing, the tracker's row lock orders the rest; locks are
  always taken in the order sms, tracker, notification, so there is no deadlock to model.
- *A claim takes any set of claimable rows up to the limit.* `SKIP LOCKED` may skip any
  row another transaction holds, so the oldest-first order guarantees nothing the
  properties could use.
- *Age is a choice.* Any `process` row may be past the sweep's threshold. With `SlowDrainers =
  FALSE` only rows in nobody's hands are. TRUE adds those of a live but slow drainer, which
  is possible since the SMS HTTP client sets no timeout.
- *Data.* Bodies, numbers, failure texts, bus events, the webhook's signature and time
  window are left out: a refused callback changes nothing. Malformed headers are a
  subset of the mails; `enqueue` validates, so such rows come from elsewhere.
- *A transient database error* in a drainer has the effects of `Crash`.
- *Retention of sms notifications* is absent from SmsPipeline since the tracker's foreign
  key forbids deleting a notification that a tracker references.

## 3. Runs

| Run | Instance | States | Shows |
|---|---|---|---|
| `sms_safety` | 2 rows, 2 drainers, batch 2, slow drainers, symmetry | about 800,000 | the type invariant and safety of SmsPipeline, and that it implements SendLedger and DeliveryStatus |
| `sms_liveness` | 2 rows, 1 drainer, no symmetry | about 228,000 | queued rows are claimed, orphans get their retry |
| `sms_tracker_lockstep` | 1 row, 1 drainer | to the violation | finding 1 |
| `sms_report_raises` | 1 row, 1 drainer | to the violation | finding 2 |
| `sms_process_outcome` | 1 row, 1 drainer | to the violation | finding 3 |
| `mail_queue` | 2 mails (one malformed), 2 recipients, 2 drainers, batch 2, 1 requeue each | about 54,000 | safety and liveness of MailQueue, and that it implements SendLedger and DeliveryStatus |
| `outbox_tailer` | 3 rows, window 3, commit lag 1, pass gap 1, clock to 5, 1 restart | about 104,000 | safety and liveness of the tailer, and that it implements EventLog |
| `realtime_feed` | 3 events (one not permitted), 1 client, 2 streams, capacity 2, 1 restart | about 625,000 | the streams implement LogReaders, slots are counted |
| `thread_traffic` | 2 workers, 3 requests, 1 fault; 3 scheduled rows (one to the wall; the third, `Extra`, armed last), 2 held rows, 3 mails (a question, its aliased reply, an untrusted stranger's), 1 chaining activity | 561,296 | safety and liveness of the four writers over one message table, which implement OneShot and MailIntake |
| `conversation` | 2 workers, 2 partners, 4 calls, 2 channels, 2 messages, 1 mark, 1 subtype, symmetry | about 1,552,000 | what concurrent calls of a conversation leave behind; marks implement Switches |
| `stream_handover` | 2 events, 1 stream | to the violation | finding 4 |
| `stream_slot_release` | 2 events, 1 stream | to the violation | finding 5 |

Why these bounds: the rows of a queue influence each other only by sharing a batch, so two
rows show every effect one row can have on another (a pass that aborts or dies with a batch
mate unsent), and two drainers show every race for a row. Each row can be handed out twice
at most in SmsPipeline, by an invariant, so the model needs no cap; in MailQueue
`MaxRequeues` caps what a human may do. Two recipients let one badge be reaped
or frozen while the other moves. In `outbox_tailer` the clock outruns the window of a row
that is staged first and of one that is staged later, and the window is as small as
`NoneSkipped` allows. In `realtime_feed` three events overflow a capacity of two, in the
ring and in the broadcast, two streams are a client's old one and its new one, and the clock
stands still because the streams do not read it. In `thread_traffic` two workers show every race for one row, one mail or one
activity. Three requests are two writers that meet and a third whose message they meet
in (a post, a row that holds it, and a mail that learns from it; or two deliveries of one mail
and its reply), and one fault falls into any of these. Three scheduled rows are the fewest that show a refused
notice: one is posted to the wall, and two fail after it, so both notices choose that post as their carrier.
`Extra` makes the third row wait until the other two are armed: of the document's rows, which are
interchangeable, the second takes part only together with the wall's row, where alone a
notice can be refused, and then the three rows are all the requests there are. In `conversation` two tasks race over
one seat, pair, mark or row, and four calls are a complete history and a race after it
(found, leave, join again, read). The proofs remove these bounds for safety.
Deadlock checking is off because the systems may rest: every row ends in a final state, and every
bounded request is made in the end.

Symmetry is used in `sms_safety` and `conversation` only, which check no liveness: rows and
drainers, tasks, partners and channels are interchangeable in every definition.

### Fairness

`FairSpec` gives weak fairness to the steps of each drainer, since the scheduler re-runs the drain
jobs every few minutes and a pass runs to its end, and to the sweep, which runs every
ten. For `Answer` this is an assumption on the outside: the SMTP transport has a 30 s
timeout, the SMS HTTP client has none. In MailQueue the clock passes every `scheduled_date`
(`FallDue`). Nothing is assumed of callbacks, crashes, humans or retention. Weak fairness of
`DrainStep` suffices: an idle drainer's claim stays enabled while a claimable row exists, and if
another drainer takes the row the property holds already.

In OutboxTailer and RealtimeFeed the tailer's loop and each spawned task keep running
(tokio schedules every ready task); no event, client or restart has to come.

In ThreadTraffic the job runner keeps calling the two dispatches (`Jobs`, `NotifyJobs`), and what
the server has begun runs on while relays that were not answered try again (`Calls`: a relay keeps
a mail it has no answer for, which is what the gateway's deduplication is for). Each is weak
fairness of all workers together. Nobody has to arm, cancel, deliver or complete anything. `HeldIsSettled`
excepts a batch that holds a poisoned row (a follower has an inbox row of its message
already, or two rows hold the same message): the unique index refuses that batch in every
pass, and all due rows with it.

`OrphansAreRequeued` promises the one retry and no more: a row that is orphaned again
after its sweep stays in `process` with an alert in the log, as the sweep intends.

### Findings

1. `TrackerInLockstep`: `apply_outcome_in_tx` mirrors the tracker even when its guarded row
   write matched nothing. Drainer sends; the carrier accepts and delivers; the webhook
   writes `sent`; the drainer's "accepted" lands: the row stays `sent`, the tracker goes back to
   `pending`. The comment on `advance_state` promises lockstep.
2. `ReportsNeverRaise`: a `process` callback after `pending` is not dropped as the comment
   says, but written and refused by the trigger, so the webhook call fails.
3. `ProcessMeansNoOutcome`: a provider's "processing" answer is written as `process`, the
   state that the sweep takes for an unfinished claim; after the threshold such a message
   is sent again. `LedgerSpec` shows that this happens once at most: the sweep grants one more
   attempt to a row, and nothing else does.

4. `HandoverIsExact`: replay snapshot and subscription are two steps, ring push and
   broadcast are two more, on parallel tasks. An event may fall between snapshot and
   subscription and be lost to the stream, or be in the ring already and broadcast after, and
   come twice. `ReadersSpec` shows that this repeats one event at most and reorders none.
5. `LeftSlotIsReleased`: a forwarder whose client has left waits for the next permitted event
   before it can fail, and keeps its slot till then. On a quiet identity four closed tabs
   use up the cap.

Noted outside the runs (no run checks them as violations):

- One aged notification that a tracker references makes the whole `notification_gc` DELETE fail on
  the foreign key.
- The comment at `sms_write_service.rs:205` expects a zero-row write to be
  harmless; when the webhook has already written `sent` and the drainer lands an error, the pump's
  move from `sent` to `exception` passes the rank guard and is refused by the transition check,
  which is `AbortPass`.
- The loser of a race between two relays is to be folded into `Duplicate`
  (`mail_inbound_service.rs:149-151`), but its second probe runs in a transaction that the unique
  violation has aborted: the call fails (`LoseRace`), and the relay's next try is told "duplicate".
  `DeliveredIsAnswered` and `IntakeSpec` show that this is all it costs.
- A scheduled message may be posted twice when the outer transaction is lost after the
  post; `ShotSpec` shows that this is the only way.
- A scheduled row that fails is to be deleted with a notification to the author
  (`schedule_write_service.rs:237-239`). The notice rides the author's latest own wall message, and the
  unique index admits one inbox row of his for it: after one wall post, the second failure is refused its
  row and the error swallowed (`:329-341`), so the author is told of one failure only (of none, if that post notified him itself). A failed
  notice transaction is swallowed too. `UnpostedIsNoticed` keeps a record per
  failed row and shows that these are the only two ways to lose a notice; with no wall post of
  his own the carrier is minted afresh, and every failure is told.
- The comment at `channel_write_service.rs:135-137` relies on the members' unique indexes to make the
  loser of two mints fail. They hold per channel, so both chats are made;
  `ForksWereRaced` says when.
- A join that began while the caller was a member, and lands after his leave, brings him back to a
  chat or private channel that takes members by invitation only
  (`channel_member_write_service.rs:126-127`). The second of two concurrent leaves is answered
  `NotMember` or `false` depending on its read, though leave is called idempotent.
- The second of two toggles that both found a mark off answers "off" over a row that is
  there.
- A completion of an activity that is already done posts its note again.
- A lagging stream keeps streaming, and the comment at `sse.rs:203-204` names a reconnect with the watermark
  as the client's remedy. The next permitted frame moves the watermark past the gap (`Lag`, then `Forward`), and
  from then on the replay starts after it.
- The notification machine's arm from `exception` to `pending` can never be taken
  (`RefusedArm`).

## 4. Proofs

TLAPS proves, for every set of rows, recipients and drainers and every batch size
(`SmsAssumption`, `MailAssumption`; finiteness of the drainers is needed to count
claims), all safety properties of SmsPipeline, MailQueue, OutboxTailer, RealtimeFeed, ThreadTraffic and
Conversation that passing runs check, their refinements included. The 52 theorems are listed in `PROJECT.json`.
Some state an invariant that no run lists because the refinement that a run checks in its place says more
(`NeverOverSent` and `NeverSilentlyRetried` follow from the ledger, `PublishedOnce` from the log,
`FramesInOrder` from the readers, `ScheduledFate` from the one-shot, `AcceptedIsStoredOnce` from the intake,
`ToldAsIs` from the switches); the inductive invariants behind them are what most proofs of the refinements
rest on. No bound on requeues is used beyond its being a natural number.

How a refinement is proved: the initial states map to initial states, and each action, with the
invariants before the step (and after it, where the mapping reads a place in a log), maps to one
action of the specification or to a stutter. One lemma per component says which (`NextLedger`,
`NextReads`, `ShotStep`, `IntakeStep`, `MarksOrOthers`, ...); the temporal step combines it with `[]` of the
invariants. Where a mapping builds a function (`Watermark`, `Copies`, `Granted`) the lemma is first proved
pointwise.

SmsPipeline. `NeverOverSent` is not inductive: that a send costs at most the budget needs to
know that whatever may still be sent has budget left, so `SendBudget` counts a row's
past sends together with its claims. It rests on `OwnershipInv` (an unswept row is held by
one drainer at most, and by none while it is `outgoing`), which also gives
`ClaimsDisjoint`. `DeliveredIsTrue` needs `DeliveryInv`: an answer in a drainer's hands is
already true of the carrier. `BadgeCoversRow` needs `BadgeInv`, which follows the badge of
rows whose outcome has not landed. In `ImplementsBadge` each action is a `Mint`, an `Advance` of one
row, or a stutter of the abstract badge. In `ImplementsLedger` the insert and the sweep are `Grant`, a
claim is `Claim`, `Send` is `HandOut`, and a pass that aborts or dies is `GiveUp`; that an insert grants
the first attempt needs `UnbornIsBlank`, that a row which is not there yet is not marked as swept. `WritesAreLegalHolds` says that every change of a row's state is
one that guard and transition check both let through, the sweep's with its marker.

MailQueue. `ClaimableIsOwed` and `NeverSilentlyRetried` need `HeldIsEnqueued` and a budget
that adds the claims in drainers' hands to the sends; the counting lemmas are about one
element joining or leaving a finite set of drainers. `SentIsTrue` needs `SentInv`, that a
"Sent" answer under way is already true of the server. Reaping maps to `Reap`, a
verdict to an `Advance` of all the linked badges it outranks. In the ledger a late verdict may take a
requeued row out of the queue, which is why `GiveUp` names two sets of rows. `WritesAreLegalHolds` is
about the mail table's transition check.

OutboxTailer (`TailerAssumption`). `PublishedOnce` needs `HandledInv` (what is in the batch, in
the ring or broadcast stays in the map as long as it stays in the window) and that the
three places are disjoint. `NoneSkipped` needs `PassInv`: as long as a committed row is
unpublished, no completed pass has read the outbox after the row's last moment to commit. With the
two assumptions on the clock such a row is still in the window. `ImplementsLog` maps `Commit` to
`CommitRow`, `Broadcast` to `Publish` and `Restart` to `StartOver`; that a published row is new to the log is
the disjointness above.

RealtimeFeed (`FeedAssumption`). It implements OutboxTailer, so both results hold with
streams attached. `SlotsAreHonest` is inductive with types and the positions of
subscribed receivers; its steps count a finite set that gains or loses one stream.
`FramesInOrder` (in FeedOrderProofs) gives every event its place in `PublicationLog`, which is without
repetition (`OnceInv` of the tailer) and only grows between restarts. The invariant is `FeedInv`: the ring is the end of
the log (`RingInv`), and of each stream (`StreamOrder`) what it has handled goes up the log, what is left to replay goes up
strictly and comes after it, neither is past the receiver's position, and once an event has come twice the
replay is over and the receiver is past every event handled. The last part is why there is
no second repetition.

`ImplementsReaders` adds `MarkInv`, of the clients that have had an event of this life: the watermark is in the
log, and what the stream that a client listens to has left to replay lies after it, and its
receiver's position not before it. The interesting step is `Snapshot`: the replay starts after the watermark if
the ring still has it, and if it does not, the whole ring lies after it, because the ring is the end of the log
(`ReplayAbove`). So a reconnect never takes a client back, however long it was away, while the
replica lives. A client whose watermark is of an earlier life has no mark until its next event:
nothing orders the lives of a replica, and its replay is the whole ring. `NoneSkippedInFeed` carries the tailer's
own result through `ImplementsTailer`.

ThreadTraffic (`ThreadAssumption` and those of its components; `MaxWork` and `MaxFaults` are any
naturals, all sets are arbitrary). Every invariant rests on `Base`: the types; no two
workers have claimed one scheduled row or one held row (`Claims`, `Holds`); a call is about a
mail and began no later than now (`Calling`); one completion at most has archived an activity
(`Completions`). A message is only ever appended, so a fact about the first messages stays
true; `OnlyAppended` and `HeardStays` say so once for all steps. `ScheduledFateHolds` needs `Fates`: a
row that is not interrupted and not yet dealt with is not posted, and one that is barred is not about to
be, since a revoked permission does not come back. `ImplementsShot` rests on the same: a post is
an `Act`, and the commit of a dispatch a `Settle` of all rows it claimed. `UnpostedIsNoticedHolds` needs `Notices`, of
three parts: every row that was dealt with and not posted has a notice or dropped it, where a row whose
dispatch is still under way counts as soon as it has left `todo` (`Heeds`); inbox rows are of stored messages, so that a minted carrier is
never refused (`Inboxes`); and each notice stands as the property says, of which an earlier
notice loses nothing, because messages and inbox rows are only added (`Stands`). That a row with a notice is not posted later is
`Fates` again. `AcceptedIsStoredOnceHolds` needs `Inserts`: while a call
has a Message-ID inserted and not committed, no message has it and no other call has inserted it.
With it `ImplementsIntake` counts the copies of each mail: a message of another writer adds none, and a commit adds
one to a mail that, if it can be recognised, had none.
`RoutedAsKnownHolds` needs `Landed`: a call past its ladder lands on the thread of what was
stored of its parent when it began.

Conversation (`CallersAssumption`, `MembersAssumption`, `MarksAssumption`). The invariant is `Kept`: of the
five components only members read another one, so the rest is three invariants of their own
(`MarksBase`, `FollowersBase`, `PresencesBase`) that the others' steps leave alone, and `ChannelsBase` for
channels with their members. In that, `EntersByRightHolds` needs `Visits` (a join under way is of someone
who is not out, into a public channel or by a founder) and `Rights`; `ForksWereRacedHolds` needs
`Mints` (while a call is about to mint and was not overtaken, all chats of its pair are raced or revived);
`PointerIsNewestReadHolds` is inductive with the types of the visits. `ToldAsIsHolds` needs `Toggles`: unless the
key has clashed, a toggle that found it off is the only one that did, and the mark is still off.
`ImplementsMarks` maps a commit to `TurnOn` or `TurnOff`, a commit after a conflict to `ShowOff`, and a second
call that finds the mark off to `Muddle`; for it `Deletes` adds that a mark whose row a call has deleted and
not committed is on.
`UpsertsAreKeptHolds` needs `Promises` and `Polls`: an update still to be made
finds its row unless it was cut (reaped).

StateMachines. Each machine equals the transition table of its trigger, arm by arm. `RefusedArm` and
`RequeueNeedsMarker` evaluate both triggers on every arm.

Model-checked only: the six liveness properties (`EveryRowIsClaimed`, `OrphansAreRequeued`, `EveryMailIsClaimed`,
`CommittedIsPublished`, `HeldIsSettled`, `DeliveredIsAnswered`), since fairness and ENABLED are beyond the
prover, and the five statements of the violation runs, which are false.

## 5. Plan

Done: StatusLattice, SmsPipeline, MailQueue, OutboxTailer, RealtimeFeed, ThreadTraffic and Conversation
with their components, the seven abstract specifications, StateMachines, and the proofs of all their safety.

Next, in this order:

1. **RealtimeFeed**, more of it: which events a client misses, under lag and restarts. LogReaders says that
   its mark never goes back, and lets it skip.
2. **Retention**, the rest: guests, and notifications under the foreign key.
3. **Activities**: `schedule_plan`, and its date arithmetic against a reference calendar.

## 6. Not modelled

Blacklists, attachments, message edits, guests, aliases and SMTP selection are single-row upserts or
pure reads whose only guard is a unique index. Access control is a predicate that the host provides:
ScheduledPosts takes it as a variable that may change, and nothing else waits on it. Session
tokens are stateless. Typing is an event without state. Of a channel, its field updates, pinned messages
and member settings overwrite one column each. The domain event relay posts through the
thread pump and adds no step of its own. HTTP routing maps results to status codes.

Most of the repository's lines are generated: entities, DTOs, CRUD handlers, repositories and seeders,
whose behaviour is in an external crate (`backbone_core`), and of which there is nothing to say
here beyond what the triggers of their tables enforce. The map therefore covers the hand-written
services, their queries and the realtime module, a small share of the whole.
