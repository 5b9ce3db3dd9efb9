# Formal verification of datha-platform

TLA+ specifications of the platform's distributed core, the TLC runs that check
them on small instances, and TLAPS proofs of the results that hold for every
instance. Every definition is translated from the source; `PROJECT.json` maps
each one to the lines it stands for.

## 1. The system

datha-platform is a set of independent services behind one gateway. They share
a NATS server (core NATS for live frames, JetStream for the durable EVENTS and
DLQ streams), a Redis and one Postgres database per service. The front ends are
Angular pages whose stores talk to the services by REST, a WebSocket
(realtime-service), event streams (chatbot, notifications) and WebRTC.

| Component | State it keeps | Operations | Talks to | Module |
|---|---|---|---|---|
| realtime-service: call registry (`internal/calls`, `internal/kv`) | Redis: `call:<id>`, `:members`, `:joined`, `:dismissed`, `call:conv:<id>`, `call:owner:<id>`, `rt:instance:<id>` | Create, Join, Leave, Activate, Dismiss, PendingFor, End, NeverJoined, FindOrphans | the handlers below | `CallRegistry` |
| realtime-service: call handlers (`internal/wsapi`) | per connection: the calls it must release; per process: ring timers | invite, answer, join, hang-up, socket close, ring timeout, reap | Redis, core NATS (frames to every tab of a person), JetStream (call events) | `CallServer` |
| realtime-service: hub (`internal/hub`) | subject -> local connections, one bus subscription per subject | Subscribe, Unsubscribe, deliver | core NATS | |
| realtime-service: presence | Redis: one hash per person, field per connection, expiry per beat | Beat, Clear, State, announcePresence | hub, Redis | |
| realtime-service: rate limiter, authorisation cache | process memory | token bucket; cached participant lookups | messenger-service (HTTP) | |
| messenger-service: call history | Postgres: `calls`, `call_participants`, `conversations.last_activity_at` | projectCall per event, sweepStaleCalls | EVENTS through a pull consumer, DLQ | `PullConsumer`, `CallHistory` |
| messenger-service: conversations, messages, read state | Postgres | create, add, rename, leave, send, markRead, list | core NATS (frames), EVENTS (publisher) | `Conversations`, `ChatStore` |
| messenger-frontend: chat store, docked windows, socket | signals: threads, list, unread ids, holders; frame subscriptions | open, dock, send, retry, mark read, resync | REST, socket frames | `ChatStore` |
| messenger-frontend: chats page | URL, draft, flows under way | navigate, first message, group dialogs | chat store | `Conversations` |
| messenger-frontend: call client | call on screen, microphone, banner; one peer connection per person | dial, accept, join, hang up, share; negotiate | call handlers, chat store, the other browsers | `CallClient`, `CallLink`, `CallStage` |
| chatbot-service | Postgres, Redis list of jobs, Redis outbox | post, retry, worker loop, delete, event outbox, orphan reconciliation | EVENTS, file-service, Gemini | `ChatPage`, `ChatFiles` |
| chatbot-frontend: chat page | bubbles, streams, attachments, address | send, retry, switch, scroll back, delete, attach | chatbot-service, file-service | `ChatPage`, `ChatFiles` |
| file-service | Postgres, blob storage | prepare, upload, confirm, delete, conversation cleanup | EVENTS | `ChatFiles` |
| event-store | Postgres, partitioned by month | ingest, DLQ ingest and replay, keyset paging, retention | EVENTS, DLQ | `EventStore` |
| event-store-frontend | list page, dead letter detail | filter, sort, page, walk by cursor, replay | event-store | `EventList` |
| notification-service | Postgres: notifications, digest stamps; event streams | projection, unread stats, e-mail digest, retention | EVENTS, DLQ, SMTP | `NotificationService` |
| shell-frontend: notification bell | badge, drawer, stream | connect, read, unread, read-all, pages | notification-service | `NotificationBell` |
| accounts-service, api-gateway | Postgres; none | upserts and queries; authenticated proxying | | |
| platform-nats | stream and consumer topology | reconcile | JetStream | |
| other pages, session and token refresh | user interface; tokens | | the gateway | |

The hard behaviour is in seven places:

1. **Calls on the server.** A call lives in seven Redis key families that no
   transaction holds together. Handlers of any connection on any instance, ring
   timers and the reapers of every instance work on them at once; processes die
   with timers and connections in memory; records expire. Correct means: a call is
   ended and announced once, nobody holds a place through a connection that is
   gone, a reload keeps its place, everyone invited is rung, a call never rings
   or stays claimed for ever, and the reaper spares calls people are in.
2. **Calls in the browser.** Two browsers negotiate by offers that may cross, each
   step an await during which tracks, candidates and announcements arrive; a tab
   follows the room through frames that may be lost, late or about another tab.
   Correct means: a pair that may talk does, at rest each receives what the other
   sends, and what the dock shows is what the room says.
3. **Stores fed from two sides.** The chat store, the chat page, the bell and the
   event list take REST answers and pushed frames in any order, show what they
   hope to store before it is stored, and lose requests and connections. Correct
   means: nothing twice, nothing lost, and at rest the screen is the history.
4. **Pull consumers** (messenger-service, event-store and notification-service share
   one loop, file-service has its own). Messages are redelivered, reordered, given up
   after `max_deliver`; handlers die between their write and their ack. Correct
   means: a projection does not depend on how often it saw an event, and an event
   is acknowledged only when it was projected, judged unusable or dead-lettered.
5. **Effects outside the database** (a publish, a mail, a blob delete) and the mark
   that they happened are two steps: outboxes, jobs, digests, cleanups, replays.
6. **Paging, partitions, watermarks.** Algorithms with boundary cases over tables
   that change while they run.
7. **The hub and presence.** A local table and a remote subscription change in
   two steps under concurrent connects and disconnects; a person is online as
   long as any of their connections beats.

`PROJECT.json` lists the hazards one by one, at the line where each bites, with
the properties that watch it.

## 2. The modules

| Module | Over | What it models | Checked in | Proofs |
|---|---|---|---|---|
| `CallRegistry`, `CallServer` | | calls on the server | `Calls`, `CallsFail`, `TwoCalls` | `CallServerProofs` |
| `CallEnding`, `CallServerEndings` | `CallServer` | the ending of a call, abstractly, and the refinement | `Calls` | `CallServerProofs` |
| `PullConsumer` | | JetStream delivery and the pull loop three services share | through `CallHistory` | `CallHistoryProofs` |
| `CallHistory`, `CallHistoryReplay` | `PullConsumer` | the calls projection and its sweep | `History` | `CallHistoryProofs` |
| `ChatStore` | | threads, list, badge and socket of a messenger tab | `Chat` | `ConversationProofs` |
| `Conversations` | | making, addressing and leaving conversations | `Conversations` | `ConversationProofs` |
| `CallLink` | | one pair of the mesh: perfect negotiation | `Media` | |
| `CallStage`, `TabStage` | `TabStage` is an instance of `CallStage` | what a tab captures and its dock shows; the same beside other modules | `Media` | `CallTabProofs` |
| `CallClient` | | the life of a call in tabs against the room | `Client` | `CallTabProofs` |
| `ChatPage` | | the chatbot's page, jobs and worker | `Page` | `ChatPageProofs` |
| `ChatFiles` | | attachments from the composer to their deletion | `Files` | `FileProofs` |
| `EventStore`, `EventList` | `EventList` over `EventStore` | ingest, dead letters, partitions; the list page | `Events` | `EventProofs` |
| `NotificationService`, `NotificationBell` | the latter over the former | projection, digest, push; the bell | `Notify` | `NotifyProofs` |

A module `MC...` beside each gives the constants their values. Left for later, in
this order: a module for the hub and presence; one for session and token refresh;
`RateLimit` and the dead letter list.

**Instances inside an instance.** Most runs explore several small scenarios at
once: a variable (`plan`, `budget`, `topic`) is chosen by `Init` from a set the
MC module lists, and says who is there and how often each thing that is not the
program's own doing (a press, a loss, a crash, a day that passes) may happen. A
scenario so keeps the actors its question needs and nothing else, and one run
covers what would otherwise be ten. Bounds restrict clients, machines and the
network only; what the program does by itself is never counted. For the call
server and the call history the plan is an extra conjunct in their MC module
(`Planned`), so that the specifications, and the proofs about them, know nothing
of it.

**History variables.** `applied`, `unsure`, `lost`, `posted` and their like record
what happened; no guard of an action that stands for code reads them.

## 3. The call model

### Modules

- **`CallRegistry`**: the Redis keys, one variable per key family, and one
  operator per command `internal/calls` issues (`Save` is `SET call:<id>`,
  `Consume` its `DEL`, `SetMember`/`HeldBy`/`JoinWins` the join and leave
  scripts, `CleanUp` the four-key `DEL`, `Lapse` the TTLs, `Orphaned` the
  reaper's verdict). `life` is history: how often a record came to exist.
- **`CallServer`**: everything that issues them. Each connection, each ring
  timer (named by its call) and each instance's reaper is a process; `loc`
  holds where it is and what it has read. One step is one Redis command or one
  publish together with the local work around it, so two handlers interleave
  exactly where the code lets them.
- **`CallEnding`**: what `endCall` promises: every life of a record is taken by
  at most one finisher and announced at most once; it may also expire or be lost
  with its finisher.
- **`CallServerEndings`**: the refinement mapping and `EndingsAreClaimed`.
- **`CallServerProofs`**: the TLAPS proofs (section 10).
- **`MCCalls`**: the people, tabs and instances the runs are made of.

### Correspondence

| Code | Actions |
|---|---|
| `Handle`, `ringPending`, `PendingFor` | `Connect`, `PendingIndex`, `PendingGet`, `PendingJoined`, `PendingDismissed`, `RingPending` |
| `handleInvite`, `Create`, `claimConversation` | `Invite`, `ClaimConversation`, `CheckHolder`, `StealClaim`, `SaveRinging`, `UndoClaim`, `IndexOwner`, then `HJoin`, `SAddJoined`, `Ring`, `ArmRingTimeout` |
| `handleAnswer`, `handleJoin`, `Join`, `Activate` | `Join`, `CheckRoom`, `HJoin`, `SAddJoined`, `Activate`, `ExtendClaim`, `PublishStarted` |
| `handleHangup`, `leaveGroupCall` | `Hangup`, `Leave`, `DismissLeaver`, `CountMembers` |
| socket close, `releaseCalls` | `Close`, `ReleaseNext`, `LeaveIfHeldBy`, `CountMembers`, `Closed` |
| `endCall`, `Registry.End` | `EndCancelTimer`, `ClaimEnding`, `DeleteKeys`, `Unindex`, `AnnounceEnding` |
| `armRingTimeout`, `ringTimeoutFired` | `RingTimeout`, `RingTimeoutFired` |
| `ReapOrphanedCalls`, `FindOrphans` | `SweepHeartbeats` ... `SweepDone` |
| a Redis command that fails | `Fault`, going where the error path goes |
| process death, restart, heartbeat and record TTLs | `Crash`, `Restart`, `HeartbeatLapses`, `RingingExpires` |

`call.answer` is the callee's join of a 1:1 call and is part of `Join`.

### What is abstracted, and what is assumed

- Frames that change no call state are left out: ICE and renegotiation relay,
  participant announcements, SDP, media kind, metrics. So are the rate limit and
  the HTTP authorisation of an invite, which either refuse a frame or do not.
- The read of the joined set at the start of `endCall` only feeds the payload of
  the history event and is left out; the one that decides who is told they
  missed the call is not.
- `Fault` fails any one Redis command of a handler, a timer or an ending before
  it takes effect. A failed publish and a failed read of a sweep are only logged
  or end the sweep early, and are not modelled; nor is a command that took
  effect and reported an error.
- A client names a call it dialled, was told of, or can read off the thread
  (`Knows`). A random id that matches nothing is refused by the record lookup.
- The heartbeat of a running process is re-armed several times per TTL and never
  lapses while it runs. The ringing TTL is the ring timeout plus a margin of 15
  seconds, so `RingingExpires` needs the timer and all handlers of the call to
  be gone. The active TTL (hours) is not modelled: no run needs it, and the
  liveness results do not lean on it. Nor is the lapse of a claim whose extension
  failed (`Activate`, calls.go:595) while the call it names goes on: a second call
  of the conversation could then begin, which `TwoCalls` shows in another way.
- A record that `releaseCalls` cannot read is skipped. That leaves the same state as
  a removal that fails there, which `Fault` has.

### Runs

`CHECK_DEADLOCK FALSE`: the clients may fall silent and everybody hang up, which
is a proper end.

| Run | Instance | Shows |
|---|---|---|
| `Calls` | two people, one of whose tabs (`b1`) reloads as `b2` with the same session, a late sign-in, three frames, one close; the same with both tabs answering at once; and three people with as many frames and the ring timer (section 10 proves all four for any number) | an open connection keeps its place (`OpenPlaceIsKept`); whoever sits in a call is in its history (`HistoryKnowsWhoJoined`); everyone undecided is rung in whatever order ring, index writes and sign-in come (`UndecidedAreRung`); the handlers implement `CallEnding` (`EndingsAreClaimed`) |
| `CallsFail` | two instances, one death and one return while the other sweeps; two calls of one conversation, one failing Redis command anywhere and a closing socket | what a sweep condemned is held by nobody who sat there on a live instance when it began (`SweepSparesTheHeld`); a call whose members' processes died is reaped, unless they return first (`StrandedCallIsReaped`); no claim outlives its call (`ClaimsAreFreed`) |

Bounds are constants of `CallServer` (`MaxFrames`, `MaxCloses`, `MaxCrashes`,
`MaxRestarts`, `MaxFaults`, which connections dial or come late, which instances
sweep or die), narrowed per scenario by `MCCalls`. The hazards need two or three
actors meeting in one call: a dial, an answer and a third frame reach every pair of
concurrent handlers; two calls of one conversation reach every race on the claim;
one death reaches every crash point, since it may come between any two steps.
`OpenPlaceIsKept` speaks of a record's first life; a
record revived by a late `Activate` is the subject of `EndsOnce` in section 11.

One run, `TwoCalls`, shows where the handlers do less than a comment says: a
conversation's claim names "the one live call a conversation may have" (`calls.go`),
but it is taken before the record exists, so a second invite takes it for stale and
steals it. No test of the repository schedules two invites so.

Two more surprises explain how properties are stated. `leaveGroupCall` judges
whether a departure empties the call by the status it read at its start, so a join
that activates the call in between leaves one person in it; they leave it by
hanging up or closing. And a process that is back under the same INSTANCE_ID
before its heartbeat lapsed makes its predecessor's members look alive to every
sweep, so `StrandedCallEnds` (in `CallServer`; `StrandedCallIsReaped` asks it of the
plans that run a sweep) speaks of members whose process has not returned.

What the checked properties except by name: a Redis failure between a place and the
record of its join (`HistoryKnowsWhoJoined` is checked without failures; with one the
socket does not track the call, and the place stays until a hang-up or the TTL); a place
won after a sweep read the heartbeats, which goes with the call (`SweepSparesTheHeld`);
a ringing record whose timer died, which the TTL takes (an assumption, `RingingExpires`).

### Fairness

`Fairness` is weak fairness of what the service does by itself: a handler runs
on (goroutines are scheduled, Redis answers or fails), a set timer fires, the
reaper's ticker recurs, TTLs lapse. Nothing makes a person dial, answer or hang
up, a socket close, a process die or come back. `ClaimsAreFreed` and
`StrandedCallIsReaped` need nothing more. Scenarios of `CallsFail` that run no
sweep get no fairness of the reaper, and `StrandedCallIsReaped` asks nothing of
them.

## 4. The call history model

### Modules

- **`PullConsumer`**: a JetStream durable and the loop of
  `run-pull-consumer.ts`. The broker delivers (`Deliver`), gives up waiting for
  an answer (`AckWaitOver`) and stops after `MaxDeliver` deliveries (`fate` is
  then `lost`). A worker is a process of the service: `batch` is what it fetched
  and has not taken up, `hand` the message its handler is at work on. `Answer`,
  `Nak` and `Throw` are the ways a handler leaves a message; `Throw` drops the
  rest of the batch, as the `catch` around the loop does. `Stop` is a graceful
  shutdown, `Die` a death between any two steps.
- **`CallHistory`**: the calls consumer over it. `handleMessage` is `SetAside`
  (garbage and foreign events), `Project`, `Acknowledge`, `TermOrphan`,
  `ProjectFails`, `PublishDlq` and `DlqFails`; the commit, the dead letter and the
  answer are steps of their own, so a death or an ack wait may fall between them.
  `ProjectCall` is the transaction on `calls`, `call_participants` and
  `conversations`, `SweepStaleCalls` the sweep, `SettleStaleCall` the view a
  reader gets. `applied` and `swept` are history variables: the events whose
  transaction committed, the calls the sweep closed.
- **`CallHistoryReplay`**: the row against a replay of the stream, which is a recursive
  function of its length (`Replays`).
- **`CallHistoryProofs`**: the TLAPS proofs about the loop and about the consumer.
- **`MCHistory`**: the events the run is made of, as `CallServer`'s handlers
  publish them.

### What is abstracted, and what is assumed

- A fetch takes up to `BatchSize` messages at once and the loop takes them up one
  by one; the model lets the broker hand messages to a worker whose batch has
  room, which includes every fetch. The code's 25 is 2 in the run.
- An event is a record of what the projection reads. What it says of the call as
  a whole (`started_at`, conversation, invited participants) is the same in every
  event of the call, so it is a constant of the call. Caller, callee and media
  are never updated and are left out. Times are natural numbers.
- A transaction is atomic. `ProjectFails` fails it with or without having
  committed, as when the answer to `COMMIT` is lost. The foreign key's error is
  `TermOrphan`.
- A late ack still counts at the broker, unless it gave the message up. An ack
  that is lost shows as a death before the answer.
- A call reaches its lifetime by `Age`, at any moment; the run bounds which calls
  do. `DropConversation` is external: the services have no delete endpoint for
  conversations yet, the schema and the handler provide for it.
- Stream retention (14 days) and the stream's size limit are not modelled.

### Runs

`CHECK_DEADLOCK FALSE`: when every message is answered and no one publishes,
nothing is left to do.

| Run | Instance | Shows |
|---|---|---|
| `History` | the start and the end of an answered call, two workers of which one is mortal, two deliveries each, one slow handler: with one failing transaction, ageing rows and a deleted conversation; with two failures; and a foreign event | a row sums up exactly the events projected into it (`RowSumsUpEvents`), and is what one replay in order makes of them when they tell of one answer and one end at most (`Rebuildable`); nothing is answered before it is dealt with (`AnsweredIsDealtWith`); redeliveries, retries and sweeps show a reader nothing new (`OnlyNewsIsShown`); every event is answered or spends its deliveries (`EventsAreAnswered`) |

Three limits are built into the statements. When two events end one call (a ring
timeout publishes one missed event per person, each with its own timestamp), the
first to be projected wins, so `Rebuildable` asks for one (`OneEnding`). The same is
true of the time of the answer, which two `started` events of one call may give
differently (`StartsOnce`, section 11): `003_calls.sql` promises a table that can be
rebuilt from the stream, and for such a call the rebuilt row may differ from the one
that was there (`OneAnswer`). And the sweep goes by age
alone: after an outage longer than a call's lifetime the sweep at boot closes calls
whose ending still waits in the stream, and they stay expired, which is what
`RowSumsUpEvents` says of `swept` calls.

Bounds are the constants `MaxDeliver`, `BatchSize`, `MaxStops`, `MaxSlow`,
`MaxFaults`, `Mortal`, `Ageing` and `Droppable`. Two deliveries are enough for a
first, a repeated and a last one; two workers for every reordering; a batch of
two for the message that shares its neighbour's exception. What the bounds leave
out of the safety properties, the proofs cover.

### Fairness

The broker delivers and ends its ack waits, and a worker that runs fetches and
finishes its handler. Nothing brings a stopped worker back: `EventsAreAnswered`
holds because the run has one worker that never stops, as long as the service
has at least one instance.

## 5. The messenger's stores

### `ChatStore`: threads, list and badge of one tab

One tab against messenger-service. The service's side is what its routes do:
`Post` stores a message and answers a replay of its `client_message_id` with the
row it has; `Announce` is the frame to every participant, a step after the commit,
so a process that dies in between (`HandlerDies`) has stored what it never told;
`PostMark` moves the watermark forward only; `AnswerLoad`, `AnswerList`,
`AnswerUnread` read. The tab's side is one action per method and per answer.
Requests and frames have no order between them.

| Code (`chat-store.service.ts`, `realtime.service.ts`, `chat-dock.service.ts`) | Actions |
|---|---|
| `openConversation`, `openThread`, `ensureThreadLoaded`, `setThread` | `OpenPage`, `Load`, `TakeDetail`, `TakePage`, `LoadFault` |
| `acquireThread`, `releaseThread`, `openWindow`, `closeWindow` | `Hold`, `LetGo`, `Dock`, `Undock`, `ClosePage` |
| `sendMessage`, `uploadAndSend`, `retryMessage`, `markSendFailed` | `Send`, `Upload`, `SendDone`, `SendFault`, `SendFailed`, `Retry` |
| `applyFrame`, `handleFrame`, `addUnread` | `TakeMessage`, `TakeFrame` |
| `markReadUpToNewest`, `onRead` | `MarkRead`, `ReadThread`, `MarkFault` |
| `loadConversations`, `resyncUnread` | `LoadList`, `TakeList`, `AskUnread`, `TakeUnread`, ... |
| `openSocket`, `replaySubscriptions`, `scheduleReconnect` | `Connect`, `Disconnect` |

`Chat` explores ten budgets, each of at most two messages, three screens opened,
one list, one failed request and one lost connection: a send among screens that
open and close, a send that fails and is retried, frames against pages, two
threads, lists that fail, two screens on one thread, screens swapped across a
reconnect, a person who comes and goes. It shows that no message is doubled
(`NoDoubles`) and none leaves a thread that showed it (`NothingVanishes`); that a
person who keeps coming back to the tab ends with the badge the service derives
(`BadgeHeals`), and an open thread loses its dot (`OpenDotGoesOut`).

One comment does not hold (`NextOpenCorrects`; give TLC `Chat` with `MCReopening`): "a failed watermark write is corrected on
the next open" (chat-store.service.ts:1406). The newest message is remembered as marked
before the answer (:1399), so when the write fails, opening the thread again writes
nothing, and the service keeps the thread unread until another
message comes or the page is loaded anew.

Fairness: requests are answered or fail, frames that arrived are taken, the socket
reconnects. Nothing makes a person come back: `BadgeHeals` is conditional on it,
since only a focus, a reconnect or the next frame asks for the badge again.

Abstracted: a message is its identity and time; files are messages with an upload
before them; typing, presence, previews and names are display state. What the
model taught: `ensureThreadLoaded` never fetches a thread twice, so a message
missed while the socket was down appears only by the next page or frame; the rows
of the list are not refreshed on a reconnect; `unread.cleared` clears the badge and
leaves the list's dot; recipients are read before the insert, so somebody added in
between sees the message only by loading.

### `Conversations`: who may write where

The tables `conversations` and `conversation_participants` with the routes that
create, add, rename and leave; the store's list; and the chats page, whose URL names
the thread. A *flow* is one async method of the page (`sendFirst`, `onCreateGroup`,
`onAddMembers`, ...): it goes on after its page was destroyed, so `flows` outlive
`url`. Each await of a flow ends an action; between two of them the user may
navigate (`Go`), another person may create the same thread (`OthersCreate`) or
leave (`OthersLeave`), and a list read long ago may arrive (`ListArrives`).

| Code | Definitions |
|---|---|
| `createConversation`, `directKeyFor`, `upsertParticipants` | `createDirect`, `createGroup`, `Upserted`, `directKeyFor` |
| `POST/PATCH/DELETE /conversations...` | `CreatesDirect`, `CreatesGroup`, `ChecksAdd`, `Adds`, `Renames`, `LeavesGroup` |
| `applyRoute`, `NavigationEnd`, the constructor | `applyRoute`, `Go`, `Rebuilds`, `Redirected` |
| `sendFirst`, `sendFirstMessage`, `onCreateGroup`, `leaveConversation` | `Starts`, `TakesRow`, `Target`, `Posts`, `Stored`, `ShowsGroup`, `DropsRow` |

`Conversations` (six scenarios, three people with Me between the two others in the
order of ids, two or three navigations, up to two flows at once, one other's act,
one failure) shows that a first message has one home (`FirstMessageHasOneHome`):
the one direct conversation of its two people, however many created it at once;
and that at rest the thread, the subscription and the draft are the URL's
(`ThreadFollowsUrl`). Only safety is claimed.

Not in the model: the directory's debounced search, and a route that fails after
its effect. Known limits of the code it made visible, none claimed otherwise by a
comment: an add that races another, or the admin's leaving, may exceed the member
limit; nobody can manage a group its admin left; renames, adds and leaves are not
announced to the others; a list answered before a leave puts the group back into
the list.

## 6. Calls in the browser

### `CallLink`: the negotiation of a pair

The two ends of one peer connection, `lo` (whose owner id sorts first: it makes the
pair's first offer and is the polite one) and `hi`. Every await on the connection
is an entry of its operations chain (`Enqueue`); `RunOperation` runs the head and
what the handler does until its next await. Offers, answers and candidates travel
in order per direction; candidates, credentials, microphones, participant
announcements and track changes fall anywhere between. Descriptions are the set
of tracks they send. The browser's own rules (signalling state, rollback, when
negotiation is needed) are external, taken from what the code relies on.

| Code (`webrtc-call.service.ts`) | Actions |
|---|---|
| `startCall`, `accept`, `onIncoming`, `onAnswered`, `onParticipant` | the same names, `acceptByJoining` |
| `ensureLink`, `buildLink` and its awaits | `Build`, `LocalTracks`, `CredentialsArrive`, `CaptureResolves`, `Resume` |
| `negotiate`, `onRenegotiate`, `onnegotiationneeded` | `negotiate`, `CreateOffer`, `SetOffer`, `onRenegotiate`, `Crossed`, `SetRemoteOffer`, `CreateAnswer`, `SetAnswer`, `NeedIsNoticed` |
| `onRemoteCandidate`, `drainCandidates` | the same names, `onIceCandidate` |
| `toggleScreenShare`, `stopScreenShare`, `promoteToVideo`, `fileRemoteTrack`, `syncRemoteVideo` | the same names, `Filed`, `WithTracks` |

`Media` (mesh pairs where both accepted, one walked in, one was presenting or has no
microphone; 1:1 calls placed by either side; a callee without a socket; up to two
announcements or two track changes) shows that the two hear each other in the end
(`LinkOpens`), and that a pair at rest receives and shows exactly what the other
sends, with no candidate left waiting (`RestIsAgreement`). Fairness: each browser
runs its chain and its tasks, frames arrive. The server and TURN are not in it.

Found on the way and kept out by the scenarios: the `lo` side that walked in with a
refused microphone never offers; a callee's 1:1 join to a ring that carried no offer
may stay unheard although the comment at :1241 says the pair opens (`LinkOpens`
excepts the mode); a share stopped between `createOffer` and its sending files the
screen as a camera; candidates gathered before `call.ringing` are dropped.

### `CallStage`: what a tab captures and shows

One tab of a call, its peers' links taken as built. Every device is asked for and
handed over later (`asks`), every `replaceTrack` is a step; the call ends, peers come
and go and buttons are pressed in between. The dock's panel (who is on stage, the
pin, the people strip, its size) is computed from the tiles as its signals are.

| Code | Actions |
|---|---|
| `toggleScreenShare`, `stopScreenShare`, the track's `ended` | `toggleScreenShare`, `ScreenPicked`, `NothingOpened`, `stopScreenShare`, `ScreenEnds` |
| `promoteToVideo`, `useCamera`, `toggleCamera`, `toggleMute`, `watchOutgoingAudio` | the same names, `CameraOpened`, `OtherCameraOpened`, `CameraReplaced`, `StatsArrive` |
| `buildLink`, `dropLink`, `teardown`, the remote tracks | `PeerComes`, `PeerGoes`, `PeerShows`, `dropLink`, `teardown` |
| `call-dock.component.ts` | `focus`, `ScreensCounted`, `togglePin`, `showPeople`, `toggleExpanded` |

`Media` looks at a link or at a stage (`looksAt`; five scenarios of the stage: screens
shared across two calls, cameras added and exchanged, one or two, what the viewer looks at, the
microphone's warning; three peers). It shows that a presenter's screen is sent to
everybody in the call (`PresenterReachesEveryone`) and that whoever is sent a camera is
sent one that runs (`CameraReachesEveryone`). Six plain readings of the code do not
hold; they are in section 11. Not modelled: dragging, full screen, the tiles' layout.

One of the six is that nobody is sent a camera that was stopped (`SentCamerasRun`). "One
track feeds every link" (webrtc-call.service.ts:718), but a promotion that was pending
while another went through, or a video call was set up, adds a second camera to
`localMedia`. `useCamera` then replaces the first of the two senders it finds on each
link (:921-925) and stops both cameras (:936-939): the peer keeps a tile that stands
still. What the model says of a link is the set of its tracks, so which of two senders
is "the first" is left open (`Replacing`).

### `CallClient`: the life of a call in a tab

Tabs of two or three people against one conversation's room. The room runs one frame
at a time (how it does so in Redis is `CallServer`); answers to a tab's own frames
come back on its connection at once, everything else crosses the bus, so the one may
overtake the other. The ongoing-call banner is fed by frames and by refreshes of a
history that lags behind. `Client` gives each question its own plan: two people who
dial each other; a microphone, a description or media that fail; a socket that drops;
a client that is wrong about who is in the conversation; two tabs that answer; three
people who come and go; a banner watched while the call ends; a Join whose frame is
lost; two refreshes that pass each other.

It shows that at rest dock and room tell the same story (`RoomsAgree`), the banner
offers no call the tab heard to be over (`BannerIsHonest`), the stream in `localMedia` is
let go with its call and no other runs on unless two captures met
(`MicrophoneFollowsCall`), and a Join does not hang (`JoinResolves`; fairness:
the join timer fires).

The microphone is `held` while `localMedia` refers to its stream, and `lost` while a
stream runs that nothing refers to; `met` is history: a capture was asked for while
another was under way. Why the property excepts `met` TLC shows with `MCCaptures`: dial, hang
up and dial again before the browser has answered. Both captures pass the guard at :1490,
the second overwrites the first (:1524), and `teardown` (:2059) stops only the second, so
that after the last hang-up a microphone is on with no call: just what the comment at
:1512 says must not happen (`NoStrayMicrophone`).

`RoomsAgree` speaks of a person's only tab whose socket lost
nothing (`cut`) and that took none of the steps no later frame sets right (`misled`):

- it enters a call its person hung up on while the microphone opened (`Strays`);
- its Join times out, which tells the room nothing (`JoinTimesOut`);
- it takes a frame for what it is not (`Misleads`). A refusal names no call, so the
  refusal of a hang-up that came too late passes for that of the Join pressed since,
  and the dock gives up a call in which the room keeps a place. A dial has no id until
  it is answered, so the news of the group call just left passes for that answer, and the
  real one is ignored: the dock shows a call the server has not named. A ring may
  be of a call the person has in the meantime joined from the banner, or left.

The first two of `Misleads` contradict comments of `webrtc-call.service.ts`, see
`GoneIsOver` and `DialsAreAnswered` in section 11.

Seen and left to the reader: `handleJoin` tells only the losing tab of a takeover;
`answered_elsewhere` hides the banner of a live call (:535); a session takeover does
not announce itself again.

The ids of `Calls` are as many calls as the room takes: an invite with no id left waits
(`Serve`). Plans are chosen so that in the run none does.

## 7. The chatbot

### `ChatPage`: one reply under way

The page of chatbot-frontend, the messages in Postgres, the jobs in Redis and one
worker, numbered by turn: turn *n* is one `POST /messages` or one `retry-last`, its
job, its user message and its reply. Every subscription of the page is an answer
that may land late, and is dropped by the switch that cancels it (`cancelOutbound$`,
`threadLoadSeq`). The worker may fail, the provider may fail, Redis may refuse, a
process may die between its row and its last event.

| Code | Actions |
|---|---|
| `send`, `retryLast`, their answers and errors | `send`, `retryLast`, `AnswerLands`, `AnswerIsLost`, `Restored` |
| `selectConversation`, `newChat`, the address, `tryLoadOlderMessages` | `Select`, `NewChat`, `NavEnds`, `Browse`, `LoadReads`, `LoadLands`, `tryLoadOlderMessages` |
| `reattachActiveJob`, `applyStreamEvent`, the watchdog | `AskReads`, `AskLands`, `StreamTells`, `FramePaints`, `StreamBreaks`, `StreamTimesOut` |
| `messages.py`, `conversations.py`, `job_enqueue.py`, `worker.py` | `MessageCommits`, `RetryReads`, `RetryClaims`, `RetryDeletes`, `Enqueue`, `Take`, `Claim`, `Generate`, `Persist`, `Mark`, `Announce`, `Crash`, `DeleteCommits` |

`Page` has thirteen scenarios (a new chat and another one, the browser's back, a reply
left and seen again, retries of a failed reply, a long thread read back while its
end moves, deletion) and shows that the screen shows one conversation and at rest
the one the address names (`OneConversationShown`), that at rest it is the history
in order and each message once (`ScreenIsHistory`), and that the spinner always
stops (`SpinnerStops`: the watchdog and the stream's end are fair, and so is the
service's side; presses are not).

`ScreenIsHistory` excepts turns this visit gave up (`lost`), each a limit of the
code: a reply that finished between the read of the page and the read of the active
job is missing until a reload (comment :705-711); a send before the active job is
known keeps it from being attached; a POST cancelled by leaving may commit later;
after a timeout of the watchdog the earlier reply is not shown. Not modelled: the
sidebar's pages, renaming, the model picker, scrolling, and what the model is told
(context, embeddings, titles).

### `ChatFiles`: attachments from the composer to their deletion

The composer's rows, each upload's three requests (prepare, blob, confirm), sends
and removals that overlap them; the rows and blobs of file-service; the references
chatbot-service keeps; the deletion of a conversation, its event through NATS or the
Redis outbox (`dispatch_event`, `drain_outbox_batch`), the cleanup consumer with its
deliveries; and the reconcile job, page by page over its listing.

`Files` (eight scenarios: three files, two conversations, two consumers, at most two
failures) shows that a file a message refers to is whole (`SentFilesAreWhole`), that
what nobody refers to is gone in the end, row and blob (`OrphansGo`), and that the
files of an announced deletion go without the job (`AnnouncedFilesGo`). Excepted are
files the user removed while they were being sent (`pressed`), files kept in the
composer for a day (`late`), and events whose deliveries were used up (`gaveUp`).

Fairness: consumers run, the outbox loop polls, and the reconcile job is started
again and again. The last is an operator's promise (chatbot-service's README says
to run it daily; nothing in the code starts it).

The consumer's fetch of up to five events is modelled one event at a time, and due
events that say the same are one. Known limits: the job scans an owner only while a
conversation or an unsent event of theirs is left, so the last conversation's files
stay if its process died between commit and publish; the job's OFFSET listing skips
rows while it deletes, until its next run; a removal whose answer is lost leaves a row
that cannot be removed (404); attachments leave the composer when a POST fails.

## 8. The event store

`EventStore` has the consumer that writes EVENTS to a table partitioned by month,
the dead letters and their replay from the detail page, the partitions boot and the
daily job make ahead, and retention. Time is a count of days. `EventList` puts the
list page over it: filter, order, page size, numbered pages up to the count's cap, the
walk by cursor past it, the address, and the one request in flight.

A message, a dead letter and its row each have a number of their own, given out once
(`seq`: the stream's sequence numbers and `gen_random_uuid`); a page that replays a
letter holds the number of its row. A letter carries the time of its failure
(`failed_at`), by which retention deletes it however late it is stored. A process that
dies, wherever it is (`Dies`), breaks the replays it was serving as well.

| Code | Actions |
|---|---|
| `consumer.ts`, `dlq-consumer.ts` | `Terminates`, `Stores`, `StoresAndDies`, `InsertFails`, `handleDlqMessage` |
| `app.ts`, `partitions.ts`, `retention.ts` | `buildApp`, `JobReads`, `JobDrops`, `JobDeletes`, `JobDeletesLetters`, `JobDies`, `Crashes` |
| `dlq-replay.ts`, `dlq-detail-page.component.ts` | `Stage`, `replayDlqRecord`, `markDlqReplayed`, `LeaveLetter` |
| `query.ts`, `cursor.ts` | `queryEvents`, `countCapped`, `nextCursor`, `encodeCursor`, `Position` |
| `events-page.component.ts`, `ops-paginator.component.ts` | `search`, `clearFilters`, `onTableSort`, `onPageChange`, `onCursorMove`, `goToPage`, `AnswerLands`, `RequestFails` |

`Events` (six scenarios: a walk over a full table and over one that grows, months that
pass under the job, an event that dies and is replayed from two tabs) shows that only
old events rest in the default partition (`WindowIsOpen`), that a letter marked
replayed has been published (`ReplayedIsStored`), that the page at rest is of one mind
(`ListAgrees`), and that the walk by cursor skips nothing between the page Next was
pressed on and the one it shows (`WalkMissesNothing`). Only safety is claimed.

`WindowIsOpen` assumes clocks that agree, and a boot or a job every `MonthsAhead`
months (`upkept`), which `ClocksAgree` says of the plans: an event of a month without a partition would rest in the default
one, and every later boot and job would fail to make that month's. The race of two
boots between `to_regclass` and the create is not modelled, nor are the loose index
scans of the filter menus and the dead letter list. Two replays of one letter both
publish and one of them reports 409; a dead letter whose publish fails on the last
delivery is lost. The dead letter list orders by `failed_at` without a tie-breaker.

## 9. Notifications

`NotificationService` has, for one owner, the two consumers that turn events and dead
letters into rows, the push to the open streams, the routes of the list, the digest
(count, mail, stamp) and retention. `NotificationBell` is the shell's bell over it: the
stream with its token and its reconnect timer, the badge, the drawer with its pages
and filter, and reads and writes whose answers overtake one another and roll back.

| Code | Actions |
|---|---|
| `consumer.ts`, `dlq-consumer.ts`, `projection.ts`, `stream.ts` | `Project`, `Tell`, `ProjectFails`, `Die`, `publish` |
| `email-digest.ts`, `retention.ts` | `findCandidates`, `unreadStats`, `sendMail`, `stampSent`, `purgeReadNotifications` |
| `notifications.service.ts`: stream | `connect`, `TokenComes`, `TokenIsRefused`, `Subscribe`, `onopen`, `onerror`, `ReconnectTimer`, `disconnect` |
| list and badge | `openDrawer`, `setUnreadOnly`, `loadMore`, `SetReadState`, `MarkAllRead`, `Served`, `Landed`, `Lands`, `onStreamNotification` |

`Notify` (eight scenarios: three notifications, three streams, at most four presses)
shows that nobody is told twice (`ToastOnce`), that the badge counts what is unread when
everything has come to rest (`BadgeAgrees`), that a bell that stays gets its stream back
(`StreamComesBack`; fairness: token requests settle, the timer fires, connections open or
fail), and that the digest passes nobody over (`DigestPassesNobodyOver`).

`BadgeAgrees` says nothing of behaviours that left the badge in doubt (`unsure`, with
its cases at the definition: a lost count, a push of a row already in the list, a write
that crossed a push, a row whose insert reported failure and is never pushed), and
neither it nor `ToastOnce` of a second stream (`doubled`: a bell that remounts while a
token is awaited opens two and closes one). `DigestPassesNobodyOver` excepts a row
created between the count and the stamp (`exempt`): the stamp is `now()`, so such a row
waits for something newer. Overlapping loads of the filter land in any order; the
drawer's cursor is cut to milliseconds and skips rows of the same one. Not modelled:
preferences, Web Push, the text of mails, and events that map to no notification.

## 10. Proofs

A leaf that only one prover settles, and slowly, names it and its time
(`ZenonT(60)`, `SMTT(60)`), so that the proofs do not depend on the machine's
speed; every other leaf is found by the default provers.

### The calls

`CallServerProofs` proves, for all sets of people, connections, calls,
conversations and instances, every assignment of tabs and sessions, and every
bound, from the assumptions `ConnsAreServed`, `NoneIsNobody` and
`BoundsAreNumbers` (which TLC evaluates in every run):

- `TypeCorrect`: `Spec => []TypeOK`;
- `OneAnnouncer`: `Spec => []OneAnnouncerPerLife`, that is, whatever coincides,
  fails or dies, no two processes hold the ending of one life of a call, and a
  life that was announced is neither held nor there.

The inductive invariant adds to the two what they need:

- `InfoOK`: a call's host and conversation are set together, so a minted call
  has a claim to write;
- `HandOK`: outside the loop heads a process has a call in hand, and it holds an
  ending exactly from its consume to its announcement;
- `EndingsArePast`: a life somebody holds or announced is at most `life[d]`. Without it `Save`, which begins life `life[d] + 1`, might begin a
  life already announced.

Each Redis command has a lemma for what it does to the typed keys and to the
endings; each action then moves one process and issues one command. The steps
of the proof follow `Next`, one lemma per group of actions.

**Places and endings** (the second half of the module, from the same assumptions, with every
crash, lapse and failed command allowed):

- `SweepSpares`: `Spec => []SweepSparesTheHeld`;
- `OpenPlaces`: `Spec => OpenPlaceIsKept`;
- `ImplementsCallEnding`: `Spec => EndingsAreClaimed`.

The first two rest on `PlacesInv`, three invariants on top of the one above, each inductive
with those before it:

- `Stations`: where a process of each kind may be. A connection never sweeps,
  a timer never joins; a connection that is still open is at none of the steps
  only a close takes. Without it an action guarded by `At(p, ..)` alone could be
  any process's;
- `Lives`: a live call, and any call a process has loaded, has begun a life, and a
  record that is there while its call is cleaned up is in a later life than the
  first. So the clean-up of an ending, which deletes the members key, empties no
  place of a first life;
- `Spared`: what a sweep has scanned, looked up and condemned spares whoever is in
  it over an instance whose heartbeat it had seen. It is `SweepSparesTheHeld`
  extended to the sweep's intermediate reads, as that property alone says nothing
  of the list a later step condemns from.

This half begins with one lemma per action that says what the step does to the
process that takes it (`...Effect`), and three that say which steps leave the
record, the places and the registry alone (`RegistryFrame`, `RecordFrame`,
`PlaceFrame`); the theorems on who gets to know use them too.

`ImplementsCallEnding` is the refinement of `CallEnding` step by step. `Save` begins a
life, the consume of the record takes it, `AnnounceEnding` tells, a TTL expires it,
a crash or a failed command loses at most what its process held; every other step
leaves what `CallEnding` sees as it was. It needs `Stations` (only a process on the
way through `endCall` can announce) and `HandOK`, and makes no assumption on
faults.

**Who gets to know**:

- `JoinsAreRecorded`: `Spec => [](Faultless => HistoryKnowsWhoJoined)`;
- `RingsReachEveryone`: `Spec => [](Faultless => UndecidedAreRung)`.

`Faultless` says that no Redis command has failed so far. It is not there for the
proof's sake: the join of a place and the write of the joined set are two commands
(`calls.go`), as are the save of a ringing call and its index entries, and when
the second fails the code goes on without it. Crashes, closes and lapses need no
such hypothesis. `Calls`, which checks both properties, allows no fault either. The
invariants:

- `Seated` and `Joins`: a place is held over a connection of its person, and the
  connection is gone, recorded, or at the step that records;
- `Dialled` (with `Minting`): an inviter is about the call it minted itself, which has no life until
  the invite saves it and does not ring until the invite is done. Hence each call
  comes to ring once, by one process (`BeginsToRing`);
- `Uncleaned`: while a call rings nobody is deleting its keys;
- `Indexed`: a ringing call is indexed under every participant once its ring went
  out, and during the index writes under all but those still to come;
- `Rung`: for each ringing call and each open tab of somebody undecided, the tab
  was rung, or its catch-up has the call still before it. This is
  `UndecidedAreRung` with the three reads of the catch-up taken apart; it is
  inductive only with `Indexed`, as a tab that signs in after the ring knows the
  call from the index alone.

### The call history

`CallHistoryProofs` proves, for every set of messages whatever they say, every
number of workers, calls and conversations, and every bound, from
`ConsumerAssumption` and `HistoryAssumption`:

- `HistoryTypeCorrect`: `Spec => []TypeOK`;
- `DealtWith`: `Spec => []AnsweredIsDealtWith`;
- `SumsUp`: `Spec => []RowSumsUpEvents`;
- `OnlyNews`: `Spec => OnlyNewsIsShown`;
- `Rebuilds`: `Spec => []Rebuildable`.

The inductive invariant adds to the first two state properties:

- `HandsOK`: only call events are ever projected, and a handler that is about to
  acknowledge has its event projected or dead-lettered. Without it `Acknowledge`
  could answer anything;
- `OrphansOK`: the calls of a dropped conversation have no row.

The argument has two halves. The first lemmas say, for every service with this loop,
which steps of the broker and the loop are `Quiet`: they answer nothing and bring
no handler past its work. The pure lemmas say what the merge of a row with one
more event keeps (`AnsweredSums`, `EndedSums`, `LastedSums`) and that a row that
sums up an event already is not changed by it (`UpsertIdempotent`), from which
`OnlyNews` follows with the shape of a row (`RowShape`: without an end it has no
reason and no duration).

`Rebuilds` compares the row with a recursive function over the stream (`Replays`). It
needs one more invariant, `ReadOK`: nothing is in a batch, in a hand, answered or
projected that is not in the stream. Without it a row could rest on an event that no
replay will meet. That the recursive definition has a solution (`ReplayIs`), and that
each of its values accounts for what the stream's beginning says (`ReplayAccounts`), are
inductions over the length of that beginning; the induction is over a set of numbers
(`Inducts`, from the well-foundedness of `<`), which needs no operator as a parameter, and
its step is the same lemmas about the merge. Row and replay then account for
the same events (`ToldIsSaid`), and only one row accounts for events that tell of one
answer and one end (`AccountsAgree`). That lemma is where `OneAnswer` was found missing:
with two times of the answer it is false, and TLC then showed the property violated on an
instance whose events disagree.

### The event store

`EventProofs` proves, for all events, tabs, page sizes, retention periods and plans,
from `StoreSizes`, `EventsAreNamed`, `PlansAreSound`, `ListSizes` and `NoneIsNoCursor`:

- `ReplaysAreStored`: `Spec => []ReplayedIsStored`;
- `WindowStaysOpen`: `Spec => []WindowIsOpen`, for plans of which `ClocksAgree` holds;
- `ListIsOfOneMind`: `Spec => []ListAgrees`;
- `WalkIsWhole`: `Spec => []WalkMissesNothing`.

The first says of a letter marked replayed that its event is on its way, stored, past
retention, a later letter, or given up by a step that says so (`Accounted`). Each of
these is left by some action, and the proof follows the event through them
(`StreamGoesOn`, `LetterGoesOn`, `RowGoesOn`). The publish and the mark are two steps,
so the invariant (`Replayed`) says it already of a letter a page has published and not
marked yet. What it needs of the store is the `Ledger`:

- `StoreTypeOK` and `Dropping`: the job's bounds lie in the past, and a partition it
  has listed ends before them, so what goes with a partition or a sweep is past
  retention then and for ever after (`DroppedIsOld`);
- `Bounded` and `Single`: numbers in use are at most `seq`; a letter's number is its
  own and its row's, a row's number its own;
- `Ordered`: a later letter failed no earlier. A later letter of the same event so
  outlives the one marked replayed, whichever of the two retention reaches first;
- `Pages`: a page that holds a row's number holds that row's event, so what it
  publishes is what it marks.

The attempt corrected the model. `Single`, `Ordered` and `Pages` failed at first,
because the model numbered a message by the greatest number in use, so that a number
came back when its letter was deleted, and dated a row by its arrival. Reading the
handlers again for it, every death of the process now breaks the replays it was serving.

`ListIsOfOneMind` rests on `PageInv`: as long as no filter is being edited, the
address is that of what is on screen, a request in flight asks for exactly that, and
an answer that stands answers it; with nothing in flight nothing loads. It needs
nothing of the store.

`WindowStaysOpen` has the one hypothesis `ClocksAgree`, which `MCEvents` evaluates for
the plans the run explores (`PlansKeepTime`): no publisher is ahead of the day, and no
day passes once the partitions made ahead are used up. Three conjuncts carry it.
`Told`: every event the store knows of, in the table, a message, a letter, a row or
the page of a letter, is of today or before. `Kept`: from this month to the last one
made ahead, each has its partition. `Upkeep` is what keeps `Kept`: boot and the job make
the window, and the job takes away only months past retention, which have ended
(`EndedIsPast`). The invariant is needed for the action as well as for the property:
`JobStarts` notes the month even where making the partitions fails (`EnsureFails`), and
`KeptIsOpen` shows that it never does.

`WalkIsWhole` is about ranks in finite sets. The rows of any table are in one order
(`StrictOrder`), a set of them has a last (`LastOfIsLast`), and the ranks have no gaps
(`NoGaps`, by the least one far enough down). From there: a cursor is that of a row of its page
(`CursorOfARow`), a page without one is the last (`LastPage`), and a page holds every
candidate up to its last row (`PageHasNoHoles`). `Walks` is the invariant: the rows
Next was pressed on, the request that followed, and its answer belong together, though a
sort or a new filter may come between. `Next` may be pressed while a request with the
other order is in flight, as `loadList` lowers the flag that should prevent it. Then the
cursor is of a row of the page, not of its last in the new order; `AnswerGoesOn` shows
that what is missed is still nothing.

### Notifications

`NotifyProofs` proves, for all notifications, streams, limits and plans, from
`ServiceAssumption` and `PlansAssumption`:

- `NobodyIsPassedOver`: `Spec => []DigestPassesNobodyOver`;
- `NobodyIsToldTwice`: `Spec => []ToastOnce`;
- `BadgeIsTrue`: `Spec => []BadgeAgrees`.

The first two follow from `Telling`:

- `Table`: rows keep their time, and a table with rows has a newest, so that one that
  is born is younger than all of them (`BornIsNewest`);
- `Stamp`: the stamp is no younger than the table, and every row there is no younger
  than the stamp, read or unread, was mailed or exempt. It must speak of read rows
  too, as they may be marked unread again; and, between mail and stamp, of
  what was counted being mailed;
- `Messages` and `Wires`: a loop holds one message, whose row is there; only what is
  acknowledged for good is purged, so no row is made twice; what is on a wire
  or toasted has a row; the plugin knows live connections only;
- `Places`, as long as no second stream was opened: a notification is with the loop
  that made its row, or once on one wire, or toasted. `fresh`, the result of
  the insert, is what keeps a redelivery out of this.

`BadgeIsTrue`: `Spec => []BadgeAgrees` needs more, as nothing holds of the badge of a busy
tab but an account of everything on its way. `Tallying` adds to `Telling`:

- `Types`: the rows are finitely many and in one order; cards, pages and writes are
  about rows there are or were;
- `Badge`: the number shown is the number of rows that will be unread once the writes on
  their way are served (`ToBeIn`: the last write about a row decides), but for the rows a
  push is still to bring (`Pushes`, all of which will be unread). It holds as long as
  nothing is in doubt (`Certain`) and no write under way is doubted: failed, about a row
  that is gone or is already as it should become, or a read-all that something came under
  (`Doubted`). For each write that nothing came under (`calm`), the number it would roll
  back to is that number for the requests before it;
- `CalmPosts`, `CalmCounts`: no write came after a calm one, and a calm answer of the
  count is the number of unread rows, with no write and no push on its way;
- `Empty`: a stream that was not opened yet carries nothing, so opening it pushes nothing.

A step either leaves rows and badge alone (`WhileSteady`, where `Passes` says what
becomes of the pushes), or changes one of them and spoils the requests under way, so that
only the first part of `Badge` is left (`WhileSpoilt`), or serves, loses or lands a
request. At rest there are no requests and no pushes, and what will be unread is unread.
`ServiceAssumption` says that `None` is no connection and no message of a loop.

### Conversations

`ConversationProofs` proves, for any people, conversations, limits and plans, from
`PeopleAreOrdered` and `PlansAreSound` (the tables a plan starts from have one direct
row a pair):

- `FirstMessages`: `Spec => []FirstMessageHasOneHome`;
- `ThreadsFollow`: `Spec => []ThreadFollowsUrl`.

Both rest on `Seated`:

- `Tables`: a direct row is keyed by its two people in order, and seats exactly them,
  and no key is there twice. `DirectAdded` shows that `createDirect`, made or found,
  keeps this and that the conversation the route answers with seats the two; it is
  here that the mutant key, unsorted, would give a pair two homes;
- `Flights`: what a flow has in hand. A first message that was answered names a row
  that seats Me and the draft's person; an add or a leave is about a group. As nothing
  that is `Kept` unseats a direct row, a flow may sleep through any number of steps;
- `Mail`: what `FirstMessageHasOneHome` says, message by message;
- `Screen`: what is open exists, and the page holds the subscription of just that.

`ThreadsFollow` adds `Follows`. A flow that opened the thread it made is ahead of
the URL until it navigates, so the URL's thread is open, or that of such a flow
(`OpenRows`), and the draft and the list are clean as long as there is none. Two
flows may be ahead at once, and the one that ends may find the URL already at its
thread while the other's is on screen: `GoFollows` is that case. The
proof does not use that the page allows one group at a time.

### Files

`FileProofs` proves, for any files, conversations, consumers, limits and plans, from
`PlansAreSound` (a file is picked once, and only files that are there are referred to
or old): `SentStayWhole`, `Spec => []SentFilesAreWhole`.

`Safe` follows each file on its way into a message: picked, shown in the composer,
uploading, in a POST, referred to. The places exclude one another (`FileOK`); a file
the composer shows ready, or a POST carries, is whole unless removed or old already.
Against it stands what may delete a file. A removal has a file the user pressed
(`RemovalsOK`). All other deletions come from an event, and whatever is or becomes one
(`Doomed`: delivered, in the outbox, with a consumer, the job's orphans, a committed
deletion) is either `Dead`, off that way and in no message, or `Spent`, a day old and
unused unless it was sent late. So:

- `delete_conversation` names what it listed a step before. In between a message of
  another conversation could come to refer to such a file; it does not, because a
  file that is referred to is nowhere in a composer or POST any more (`CommitSafe`);
- the job reads the references long before its event is worked off, and a message with
  an orphan may commit in between. What it looks at was a day old when it started
  (`JobOK`), so that message is `late`, the exception the property names. Without
  the age it is the counterexample of the mutant `startWithAll`;
- a redelivered or half-done cleanup changes nothing of this, as `DeleteSafe` speaks of
  single steps of `softDeleteFile`, whoever takes them and however often.

### Threads

`ConversationProofs`, which extends both chats of the messenger (that is why `ChatStore`
names its specification `ChatSpec`), also proves, for any conversations, messages, files,
windows and budgets, from `ChatAssumption`:

- `ThreadsShowOnce`: `ChatSpec => []NoDoubles`;
- `ThreadsKeep`: `ChatSpec => NothingVanishes`.

Three lemmas say what may be done to rows of distinct messages without doubling or
losing one (`Grows`): overwrite the row of a message (`MarkGrows`), append a message that
is not there (`AppendGrows`), and install a page over what a thread holds
(`InstallGrows`). The last rests on `OrderedLists`: the members of a finite set, put
in a total order by rank, are each listed once. `setThread` sorts by time, and rows may have the
same one, so the order is that of a stable sort (`Before`); the order by time alone is not
total. The rest is where rows come from (`Safe`):

- `TimesOK`, with `UnsentOK`: no two messages are stored at one time, so a page lists
  each once (`PageLists`);
- `PagesOK` and `FramesOK`: what an answer or a frame on its way carries;
- `ThreadsOK`: the rows of a thread are of distinct messages. It is what `NoDoubles`
  says by counting (`OnceCounts`), in the form the steps keep.

Nothing is assumed of the order in which answers and frames land, and no lemma looks at
the socket: a thread is safe from doubles and losses because of the three ways rows come
to it, whoever calls them.

### The chatbot's page

`ChatPageProofs` proves, for any conversations, turns, page sizes and plans, from
`ConstantsAssumption` and `HistoryAssumption` (in the history a plan starts from a turn
belongs to one conversation, and the turn that waits, if any, ends the thread the page
opens at): `OneConversation`, `Spec => []OneConversationShown`.

The property speaks of the screen; what can spoil it is everything that may still
arrive there. The invariant says of each such thing whose it is:

- `ServerOK`, the service's side: the rows of a thread and the pointer to its active job
  are of turns of that conversation (`ThreadsOK`, `PointersOK`), and two POSTs are about
  different turns, each of which has the conversation of its job as soon as it is stored
  (`PostsOK`). A job never changes its conversation (`Grew`), nor a post (`Follows`), so
  that what is known of an answer on its way stays true until it lands (`StillFits`);
- `ClientFits`, the page's: there is at most one subscription to a turn, and none while the
  page is not busy (`One`; without it `cancelOutbound$` would let one go and leave
  another). A stream is of a turn of the page's conversation. A POST that is awaited is
  not yet, as the conversation may come into being with it, but its answer names the page's if
  there is one (`OutFits`). A page of history carries rows of the thread it was asked of,
  and unless `threadLoadSeq` has moved on that is the page's (`AnswersOK`); the pending
  turn that was asked for likewise (`AskOK`). Then every bubble is of a turn of the page's
  conversation, awaited, or of a turn given up (`BubbleOK`);
- `Named`: with no navigation under way the address is the page's.

So leaving a thread (`Leaves`) makes all of this hold of the next one, because whatever was
asked for is stale, dropped or given up by then, and each handler that lands something
(`LoadShows`, `AskShows`, `AnswerShows`, `FrameShows`, `CutShows`) puts on the screen only what
the invariant said of it on its way. A step of the service leaves the page alone, and needs
only `Grew` and `Follows` (`Serves`). TLC checked the invariant on the scenarios of `Page`
before it was proved.

The attempt corrected the model. A turn id counted as unused as long as no job of it
pended, also when its message had been stored and Redis had then refused the job, so that
a turn could come back in another conversation, and `Grew` failed. An id is now used once,
as the ids of the service are. And where no id is left for a new conversation, none begins.

`Kept`, which leaves rows out of a list, is a recursive function; that what it returns is a
list of those rows is an induction over its length, made from the least number for which it
would fail (`Inducts`, `KeptRows`).

### Call tabs

`CallTabProofs` proves about one tab's tracks (`TabStage`, where `CallStage` is the
instance `S`), for all peers, devices and plans, from `StageTracks` (cameras are not
screens, and no track or peer is the value that stands for none):

- `ScreenReaches`: `S!Spec => []PresenterReachesEveryone`;
- `CamerasSent`: `S!Spec => []CameraReachesEveryone`.

The invariant, `StageInv`, is mostly about handlers that await (`asks`). Each that waits
for a device has a track of its own kind, which nobody else waits for and which is no
camera of the call's (`AsksOK`), so that what comes late can be let go without taking
anything from anybody. An exchange of cameras runs through the links one `replaceTrack` at
a time. `CamerasRun` says that the cameras the call has run, that the one an exchange brings
runs, and that of the cameras a peer is sent one is `Lit`: it runs, and no exchange that has
been to the peer's link will stop it. So the old ones may be stopped at the end, although a
peer may have come or gone under it, another camera may have been added, and another
exchange may have gone over the same senders. That every camera sent runs is not provable,
since it is false (section 6). `Presents` is the first property and that the screen runs.

About the tabs of a conversation and its room (`CallClient`), for all people, tabs, calls
and plans, from the assumptions of that module (`TabAssumption`: no call, tab or person is
the value that stands for none; `CallsAssumption`: there are finitely many call ids;
`TalkersAssumption`: who talks already is in the conversation, in an open tab;
`ReadersAssumption`: who reads a conversation's history is in it):

- `MicrophoneIsHeld`: `Spec => []MicrophoneFollowsCall`;
- `BannerTrue`: `Spec => []BannerIsHonest`;
- `RoomsTell`: `Spec => []RoomsAgree`.

`ClientInv` types the tabs, the queues and the room, and its types say what the handlers
rely on: an incoming call has an id, so has every frame but an error, a held stream a call. A
capture resolves in a tab whose call may be gone or another (`Browses`); the job holds what
it was for. Of the microphone it says (`Kept`) that until two captures meet no stream is
lost and at most one capture is awaited, none while `localMedia` has a stream: only so does
a capture that resolves overwrite nothing. The second theorem has two more parts. `Told`: of a call that is over, a tab
of the conversation that lost no frame has heard or will, on the bus or on its connection.
A room that ends a call and returns before it says so, or says so to fewer people, would
break it. And histories (`Histories`, `Unread`) know no call before it began, those
under way included, so that what a thread offers is a call it could have heard of: if it
is not live it is over, the tab has read everything it was sent, hence has heard, and
`ongoingCallOf` leaves out what was heard to be over.

The third theorem is the longest here, and its property the most deceptive: it speaks of
moments of rest, and the room and a dock agree at rest only if, at every moment before,
what is still on its way to and from the tab is what will bring them together. The inductive
invariant, `AgreeInv`, says that of a tab whose three queues (`up`, `down`, `bus`) may hold
anything:

- `Open` and `Records`: a tab that was never cut off is connected; the room keeps seats in
  live calls only, for people who have been in them, and a call's caller is in the conversation;
- `Fits`, of each tab in `Sound` (the only tab of its person, not cut off, not misled),
  which is `Outside` for somebody who is not in the conversation (no frame of theirs changes
  the room, so all they hear is refusals) and `Inside` for everybody else. Of `Inside`,
  `Fate` is the heart: a call that is on screen and has an id is either one the person will
  have a place in once the room has read what they sent, or their pending answer (`Will`,
  `Accepts`), or one that something on its way takes off the screen (`Over`, a refusal). `Undecided` says it of a call that rings, `Unnamed` of a dial
  that has no id yet, and `Placed` the converse: where the person will have a place is
  on screen, or about to be, by an answer on its way;
- what the order of a queue guarantees (`InTime`): news of a call that is over by now is
  followed by its end, later in the same queue or, for what is on the connection already,
  on the bus. A room that published the news of a call after its end would break it.

There is a lemma per step. A turn of the tab (`Turned`) changes its call and adds to what it
sends. A handler of the room is shown to keep the invariant in a world in which the
frame it serves is still on its way (`Agreed`), and then the frame is taken off (`RoomReads`).
A frame read by the tab (`Heard`) is the first of its queue. TLC found `AgreeInv` to hold on
the run's instance before it was proved, and the attempt to prove it showed what that instance was
too small for: with more calls the property was false in three ways, two of them the
behaviours `GoneIsOver` and `DialsAreAnswered` of section 11. The model keeps the tabs they befall
in `misled`, and the property says nothing of those (section 6).

### What is left to TLC

`TypeOK` of `CallServer` and `CallHistory` and `OneAnnouncerPerLife` are settled
for every instance and appear in no run.

Only model-checked:

- the liveness properties, among them `StrandedCallIsReaped`, `ClaimsAreFreed`,
  `LinkOpens` and `JoinResolves`: the prover has no fairness and no `ENABLED`;
- `RestIsAgreement`, which does not hold for every plan (a `lo` side with a refused
  microphone and no screen, or announcements together with other moves, see section 6), so
  that a proof could only be about the plans listed, as the run is;
- `ScreenIsHistory`, which does not hold for every plan: random walks of TLC over plans that
  have everything twice found states at rest whose screen is not the history (a retry pressed
  while the question for a running job was under way, and a retry of another message than
  the one shown, `RetryRerunsSameTurn` in section 11), so that a proof could only be about the
  plans listed, as the run is.

## 11. What the code does not guarantee

Properties that a comment, a test or a plain reading promises and that an
exploration refutes. They stay beside the checked ones in their modules, all but the
first without a run; give one to TLC in place of the named cfg's properties to see the
behaviour.

| Property | Module, cfg | What is said | What happens |
|---|---|---|---|
| `OneCallPerConversation` | `CallServer`, run `TwoCalls` | the one live call a conversation may have (`calls.go`) | section 3 |
| `EndsOnce` | `CallServer`, `Calls` | only one may announce the ending (`calls.go`) | a join that loaded the call before it ended writes the record back |
| `StartsOnce` | `CallServer`, `Calls` | `started` fires once (`wsapi/calls.go`) | two joiners both read the record as ringing |
| `CallerIsNotMissed` | `CallServer`, `Calls` | a missed event must not tell the caller that they missed their own call (`events.go`) | `endCall` asks who never joined after deleting the joined set |
| `ReaperSparesOpenCalls` | `CallServer`, `CallsFail` | reaping a live call is not harmless (`liveness.go`) | a record whose members are not written yet has no live member |
| `LostIsDeadLettered` | `CallHistory`, `History` with three faults | the DLQ takes what exhausts `max_deliver` (`streams.ts`) | publishing the dead letter fails on the last delivery |
| `NextOpenCorrects` | `ChatStore`, `Chat` with `MCReopening` | a failed watermark write is corrected on the next open (:1406) | the failed mark stays in the dedupe, section 5 |
| `SentCamerasRun` | `CallStage`, `Media` | one track feeds every link (:718) | with two cameras `useCamera` replaces one sender of each link and stops both, section 6 |
| `NoStrayMicrophone` | `CallClient`, `Client` with `MCCaptures` | no microphone stays open with no call attached (:1512) | of two captures under way the second overwrites the first, section 6 |
| `GoneIsOver` | `CallClient`, `Client` with `MCGone` | the call we pressed Join on is already over (:1016) | `call_gone` names no call: the refusal of a hang-up that came too late gives up the Join of another, live call |
| `DialsAreAnswered` | `CallClient`, `Client` with `MCRedial` | the conversation already has a call, so this invite becomes a join (:1026) | the news of the call just left moves the dial on (:1206), and its refusal is then ignored |
| `NoOfferForgotten` | `CallLink`, `Media` | the offer that is ignored crossed one of the ignoring side (:1366) | `makingOffer` is reset before the answer, so an announcement offers again |
| `RejectedRetryDeletesNothing` | `ChatPage`, `Page` | the failed reply put back is still in the history | the answer of a retry that deleted it is lost, and a second retry is refused |
| `RetryRerunsSameTurn` | `ChatPage`, `Page` with `MCUnseen` | "Try again" re-runs the same user turn (`chat-page.component.ts`:1296) | the server answers the thread's newest message; one of an earlier visit, stored after the page loaded, is answered in place of the one on the screen, whose failed reply stays in the history |
| `PutBackInPlace` | `ChatPage`, `Page` with `MCPutBack` | a failed reply is put back where it was (`chat-page.component.ts`:1344) | it is put at the index it had, and a page of older rows that came meanwhile has moved the list |
| `MillisecondIsWalked` | `EventList`, `Events` | the rows strictly after this one (`query.ts`) | the cursor is cut to milliseconds, the order is not |
| `CursorFitsFilter` | `EventList`, `Events` | a changed filter drops the cursor (`search`) | a filter edited but not searched, then Next, carries it over |
| `LeavingBringsWindowBack` | `Conversations` | navigating away brings the docked window back (`chat-dock.component.ts`) | leaving the messenger for another of the shell's apps leaves the thread active |
| `MembersShown` | `Conversations` | an add answers the full list (`messenger-api.service.ts`:139) | it answers the rows it added, and `applyParticipants` replaces the list by them |
| `ComposerFollowsThread` | `Conversations` | a message goes to the thread on screen | opening another thread keeps the draft's person (`chats-page.component.ts`:216), so the first send goes to them |
| `CameraOffIsOff` | `CallStage`, `Media` | a camera that is off sends nothing (`toggleCamera`) | `useCamera` lights the new camera by what the call said before it awaited |
| `CaptureEndsWithCall` | `CallStage`, `Media` | `teardown` stops what is captured | a device handed over after the call ended stays on |
| `MutedIsNotWarned` | `CallStage`, `Media` | the dead-microphone warning is not for one that is muted | muting leaves the warning that is there |
| `NewShareTakesStage` | `CallStage`, `Media` | a new share takes the stage back | one exchange may replace a screen by the next, and the count does not rise |
| `VideoOpensExpanded` | `CallStage`, `Media` | a video call opens expanded | the panel keeps the size the last call left it in |
| `RemovalTakesItsRow` | `ChatFiles`, `Files` | a removed attachment's row goes | the row is named by an index taken before the answer (`chat-page.component.ts`:1150) |

## 12. Not modelled

Components with status `not_modelled` or `partly` in `PROJECT.json`, each with its
reason. In short:

- **With a protocol of their own, not yet taken up**: the hub, presence and the
  authorisation cache of realtime-service; session and token refresh in the front
  ends (several requests refresh at once, an answer may come after a logout); the
  rate limiter; the dead letter list.
- **Without one**: accounts-service and api-gateway (single statements and a
  stateless proxy), platform-nats (topology; `max_deliver` and acknowledgement are
  the external part of `PullConsumer`), TURN credentials, metrics, configuration,
  logging, layout, translation, themes, landing pages.
- **Out of TLC's reach**: browsers' media, SDP and ICE beyond the sets of tracks and
  candidates; what a language model answers; PostgreSQL's isolation below a
  statement or a transaction taken as atomic; clocks that disagree, where a module
  says it assumes they agree.
