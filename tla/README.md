# Agent HUD in TLA+

Agent HUD is a desktop program (Rust, Tauri and TypeScript) that watches the
coding agents on a computer.  It reads their logs for usage, shows the requests
that wait on the user, and lets the user answer them from the HUD.  Almost
everything in it happens between programs that do not know each other: clients
append to logs while they are read, hooks of a client run as short processes and
write into a folder, a client's own card races the HUD's, and threads on both
sides stop at any point.  This project models those parts, checks them with TLC
on small instances and proves the most important facts with TLAPS for every
value of the constants.

Paths below are relative to the repository's `src/crates` unless they begin with
`docs`.

1. [Inventory](#1-inventory)
2. [Modules and the code they model](#2-modules-and-the-code-they-model)
3. [Runs](#3-runs)
4. [Bounds and fairness](#4-bounds-and-fairness)
5. [Proofs](#5-proofs)
6. [Where code and documents disagree](#6-where-code-and-documents-disagree)
7. [What is not modelled](#7-what-is-not-modelled)
8. [Plan](#8-plan)

## 1. Inventory

For each component: its state, its operations, whom it talks to, what is hard
about it and what makes it correct.

### Requests that wait on the user

**Request owner** (`core/src/requests.rs`, `requests/answer.rs`,
`requests/deliveries.rs`, `requests/views.rs`).
State, all under one mutex: the queue of pending cards, each with the sending half
of a channel, the hold time, the ids dismissed until their source settles them,
the sessions each native source says wait, a revision counter, delivery receipts.
Operations: `register`, `register_native`, `cancel`, `settle_native`, `expire`,
`set_hold_ms`, `answer`, `views`, `native_waiting`, `note_delivery`.
Used by hook threads, native adapters, the engine.  Hard: the sends to the clients
come after the unlock, so an expiry, a cancellation and an answer of one card
interleave; `answer` is an expiry, a take and a send in three sections.
Correct: each request is answered or given up, once; an id that was dismissed
is not shown again; deadlines follow the hold time.

**Hook callback channel** (`platform/src/hooks/unix/mod.rs`, `unix/send.rs`,
`hooks/callback.rs`; the same protocol on Windows in `hooks/windows.rs`).
State: the `running` flag, a count of connections, a thread per connection.
Operations: accept, turn away (64 at a time), read a frame within two seconds,
register, poll the channel, the client and the deadline, cancel, reply, stop and
join.  Hard: three parties end a wait; the thread looks at the channel, the
connection and the deadline at different times; `Drop` joins every thread.
Correct: no card without a thread behind it, every client is released, what a
client acts on is what the user chose, a stop ends.

**Render cache and delivery** (`core/src/snapshot.rs`,
`host/src/service/collector.rs`, `host/src/service/backend.rs`).
State: the key and due time of the last render, the collector's wake bits, the
snapshot that was delivered.  Hard: rows, key and due time are read one after
another while hook threads change the cards.  Correct: what is on screen is late
by a bounded time only; no card outstays its deadline.

**DeepSeek Harness asks** (`platform/src/deepseek_plugin/asks.rs`, `card.rs`,
`channel.rs`, `agent-hud.mjs`).
State: a folder of ask, answer, check-in and heartbeat files; in the app the asks
an observer knows, its worker, a thread per card; in Harness the race of each ask.
Hard: two programs share nothing but files; the client's own card races the HUD's;
`Drop` does not join the worker.  Correct: Harness acts only on the user's answer
to that ask; cards belong to asks that are watched; what was settled leaves the HUD.

**Words for a Claude Code session** (`platform/src/claude_plugin/channel.rs`, and
`register.ts` in the plugin's own process).  State: a file per prompt, a file that
asks to cancel it, what the plugin has under way.  Operations: leave, look, claim,
submit, note the outcome, cancel, sweep, reload.  Hard: two programs share files only; a
pass fails anywhere, a reload comes in the middle of one, a cancellation crosses the
claim.  Correct: words reach the session once at most, and never after the app said
that they were taken back.

**Other native adapters** (`platform/src/clients`: Claude Desktop, Codex Desktop,
Antigravity, DeepSeek's web questions).
State: streams or polled files per client, the replies that are under way.  Hard:
reconnects, replies that race the client.  Correct: as above.

### What hooks report

**Hook inbox** (`platform/src/hooks/inbox`, `core/src/hook_events.rs`).
State: one file per session and kind; the account lock; in the app the watcher's
pending paths, the bytes last seen in each file, the evidence of each session.
Operations: `record_event` (a process of its own), hand-over to the app through
the callback channel, watcher notices, `drain`, `ingest`.  Hard: writers are
processes that can die anywhere, notices are coalesced or lost, drains remove
files that writers replace.  Correct: evidence never goes back in time; what
stays in the inbox is seen; an older account report never overwrites a newer one.

**Hook installation and configuration** (`hooks/install.rs`,
`hooks/statusline_install.rs` and `statusline_install/line.rs`, `install/files.rs`,
`hooks/mod.rs`, `reminders.rs`).
State: the client's settings files, the record that undoes an installation, the
plan of the request in progress, the preference of connected files, the running
observers.  Hard: a plan made stale by the client's own save; a rollback halfway
through several files; an observer that is restarted.  Correct: what a client has
saved is never undone; a file holds what the last answered request said.

### Usage

**Log ingestion** (`core/src/ingestion.rs`, `ingestion/scan.rs`, `lines.rs`,
`agents/src/transcript/log.rs`, `carried_usage.rs`).
State: `Reads` (listing, pending, forced, failed), the checkpoints in memory, a
cache of parsers, the ledger and checkpoints in the database.
Operations: list, remind, begin, read within a budget, commit, start over, hand
over from one parser version to the next.  Hard: the log grows or is rewritten
while it is listed and read; each step fails on its own; the app is killed
between a read and its commit; a handover goes on over many passes.
Correct: every line is counted once, the ledger and the checkpoint agree, every
line of a quiet log is counted in the end.

**Log listing and file watcher** (`core/src/log_files.rs`, `log_files/walk.rs`,
`platform/src/file_changes.rs`).  State: cached folders, the set of changed paths
or "unknown".  Hard: overflow at 10,000 paths, roots that cannot be watched yet,
folders that cannot be listed.  Correct: no change is missed past the reconcile.

**Usage ledger, projection, prices** (`core/src/database`, `usage_buckets.rs`,
`statistics`, `pricing`, `quota_history.rs`, ...).  State: tables.  Mostly pure
functions of the ledger.  Correct: buckets and totals agree with the events.

**Conversation feed** (`core/src/conversation_catchup.rs`, `conversation_feed.rs`,
`conversation_collect.rs`, `conversation.rs`).  State: in memory how far the store says it
knows each log, and the gaps noted; in the store, which is a product's own, the turns
and that position.  Operations: deliver a read, note a gap, catch up after a pass.
Hard: the ledger and the store are two files; either can be ahead after a failure or
a crash, and a position says nothing of holes before it.  Correct: what the
store lacks is read again.

**Account readings** (`platform/src/accounts`, `core/src/accounts.rs`).  State: what was
read of each provider, with its failures and the time of the attempt; the
requests for a reading, the homes and the work its sources do; the restart copy.
Operations: look what is due, read, settle, refresh, sign in or out, change homes or
consents.  Hard: all of these come while a reading is in flight or the worker is about
to sleep.  Correct: what is shown is of the homes and the sign-in there are, or
about to be read again.

**Island events, data version** (`core/src/island_events.rs`, `data_version.rs`).  State:
the last snapshot's events.  Correct: nothing is told twice or skipped.

**Client log parsers** (`agents/src`).  Formats of some thirty clients.

### Host and network

**Host** (`host/src`: coordinator, windows, tray, screens, backend).  State: the
coordinator's mailbox of bits and facts, the worker's copy of what it draws from.
Hard: changes merged before their consumer runs, facts read at different moments of a
pass.  Correct: a worker at rest has drawn what is so.

**Instance locks** (`platform/src/instance`).  State: a lock file with a name in
it and an endpoint to hand over to.  The exclusion is the system's file lock.

**Phone sharing** (`share/src`: `share/mod.rs`, `share/worker.rs`, `worker/usage.rs`,
`share/settings.rs`).  State: the switch in `share.json`, the thread's inbox, the
request the settings page waits for, the notes on what was read of the ledger.  Hard: a
request given up after 20 seconds still runs; three clocks decide what is read
again.  Correct: what the user was told holds; phones see changes within two reads,
older days within a full one.

**LAN server** (`lan/src`: `server.rs`, `server/connection.rs`, `pairing.rs`,
`peers.rs`, `events.rs`, `credentials.rs`, `address.rs`).  State: the grants in
memory and in `clients.json`, the invitation, the connections with their sockets,
the stream generation and the streams counted per phone, whether the server runs.
Operations: start, stop, invite, revoke, refresh the address; accept, serve, pair,
authorize, stream.  Hard: stopping and revoking race connections in any state; a grant
that cannot be saved; the app dies between a save and an answer.  Correct: what was
revoked gets nothing more, an invitation pairs one phone, every call returns.

**LAN cache** (`lan/src/cache.rs`, `cache/serve.rs`, `server/events.rs`).  State: the
records served, when each was written or removed, the base, the sequence and the
revision, checkpoints on disk.  Operations: publish, load, answer a snapshot or the
changes since a cursor, stream.  Hard: cursors outlive restarts and clocks that are
set back; a stream looks and then waits.  Correct: changes lead exactly from the
version a phone has to the newest, a cursor names one version for ever, no update
is slept through.

**Runtime and engine, HUD language, TypeScript windows, MCP tools, OS adapters,
packaging** (`runtime`, `engine`, `hud`, `packages`, `apps`, `tooling`): wiring,
rendering and pure checks.

## 2. Modules and the code they model

| Module | Models | Built on |
| --- | --- | --- |
| `Requests` | the owner's critical sections and the engine's calls | |
| `HookCallbacks` | connections, their threads and clients, the server | `Requests` |
| `HookPromise` | what the channel promises of each request (abstract) | |
| `RequestSnapshots` | hook threads, window calls, collector turns, renders | `Requests` |
| `DeepSeekAsks` | Harness, the ask folder, observers, delivery threads | `Requests` |
| `HookInbox` | hook processes, the folder, the watcher, drains | |
| `Ingestion` | one log, the client that writes it, passes and commits | |
| `LogFiles` | the disk, the watcher's change set, listings | |
| `LanServer` | grants, invitation, connections, streams, start, stop and revoke | |
| `LanCache` | versions, cursors and changes, a phone with its stream | |
| `PhoneShare` | the settings page and the sharing thread | |
| `PhoneUsage` | what is read of the ledger and served of it | |
| `ClaudePluginChannel` | prompt files between the app and the plugin | |
| `CliSettings` | a connection of several settings files, with rollback | |
| `HostMailbox` | wakes, the window worker and what it has drawn | |
| `AccountReadings` | the worker that reads accounts, and what makes a reading due | |
| `ConversationFeed` | positions, gaps, deliveries and the catch-up of one log | |
| `HookCallbacksProofs`, `HookInboxProofs`, `IngestionProofs`, `LogFilesProofs`, `LanServerProofs`, `DeepSeekAsksProofs`, `LanCacheProofs`, `ProtocolsProofs` | theorems | their module, `TLAPS` |
| `Protocols` | the eight small protocols, `RequestSnapshots` and those from `PhoneShare` to `ConversationFeed`, each in behaviours of its own | an `INSTANCE` of each |
| `MC...` | small values for the constants | their module |

`PROJECT.json` maps every definition to its lines.

**Requests.**  `pending`, `holdMs`, `dismissed` and `revised` are the fields of
`State`; `created` and `deadline` are the fields of a pending card, 0 when there is
none.  A *ticket* is one registration: its sender lives in the card, and `sent` is
what went over its channel.  `Push`, `Drop`, `Cancel`, `ExpireSection` and
`SetHold` are critical sections.  `engine` is the call in progress of the one
thread that answers and renders (the host holds its Backend lock for every such
call): `EngineExpire`, one `EngineNotify` per expired card (the sends follow the
unlock), then `EngineTake` and `EngineSend`, or `EngineDone`.  `told` is what
`answer` returned to the HUD.  `revised` says that the revision has moved since a
render last read it, which is all its number is used for.

**HookCallbacks.**  `pc` is where the thread of a connection is; the steps of
`wait_for_answer` that read different things are different steps: `KeepWaiting`
(flag and connection), `Receive` or `TimeOut` (the channel), `CheckDeadline` (the
card and the clock), `CancelCard`, `Reply`.  `cli` is the client's side.  A client
may leave at any moment.  `HookPromise` is the abstract specification:
`PromiseSpec` is the refinement, by `outcome` (which reads the card, the engine and
the channel) and `taken`.

**RequestSnapshots.**  A render is `RenderExpire`, `RenderList`, `RenderKey`,
`RenderDue`, and hook threads run between any two.  `KeepSnapshot` is
`render_if_changed` answering "unchanged".  `TimePasses` only when the collector
has nothing due: the property is about how late the code lets the screen be, not
about how fast it runs.  `changed` is a history variable.  `Protocols` runs it with the
cards of hooks alone (`Native` empty), each under an id of its own and able to be answered
in the client; which decision is sent makes no difference to a render.

**DeepSeekAsks.**  The left half is Harness: `Ask`, `ClientSettles`, `NoProvider`,
`TurnAborts`, `PollAnswer`, `HostDies`.  The right half is the app: `Start`,
`CheckActive`, `Beat`, `List`, `ShowAsk`, `PassOver`, `SettleGone`, `StartThreads`,
`ReadSessions`, `SetWaiting` are the worker's pass in its order; `TakeKnown`,
`SettleDropped`, `ClearWaiting`, `RemoveApp` are `Drop`; the rest is the thread of
one ticket.  `SettleNative` is two sections (cancel, then forget the dismissal),
with `forget` between them.  `WebChanges` and `WebPublishes` stand for the other
DeepSeek observer, which publishes under the same source id.

**HookInbox.**  A report is one call of `record_event`: `Begin`, `CheckValid`,
`ReadOld` (with the account lock), `Rename` or `FailToWrite`, `HandOver`; `Die` may
come anywhere.  `Changed` is what the system will tell the watcher: the path, or
only that something was lost.  A drain is `BeginDrain`, `ListFolder` or
`ListFails`, `ReadRecord` and `RemoveExpired` file by file, `Ingest`.  `ReadFails` is a
file that is there and cannot be read, or makes no sense: the drain takes it for one that
is not, and nothing asks for it again until it changes or the whole folder is listed.
`Unread` is a history in `seen`: it marks a file without an entry because of that.

**Ingestion.**  A file's length counts half lines, so that a line can be there in
part.  `gen` counts rewritings; two files with the same length and `gen` have the
same modification time.  `BeginReset` and `Begin` choose where to read from;
`Open`, `ReadLine`, `ReadEnd` are the read; `Commit` is the one transaction
with what follows it in memory; `LoadFails`, `OpenFails`, `ReadFails` and
`CommitFails` are its failures.  `Kept` is what a handover leaves of the earlier
usage: `Covers` are the times whose old rows go with this read.

**LogFiles.**  `disk`, `there` and `bad` are the file system; `Gathered` is what the
watcher's callback makes of one event: the path joins `changes`, or the set turns
`Unknown` when it is full or the system dropped events.  A pass is `BeginPass` (the
watcher's targets and the change set are taken), then `BeginFull`, a
`ListFolder` per folder, a `StatFile` per file and `EndFull`, or `BeginPart`, the
same for each reported folder (`BeginOuter`, `EndOuter`), a `Recheck` per
reported file, and `EndPass`.  Time goes by only while nothing is due.
The system may refuse any look: `ListFails` and `StatFails` are a folder and a file the
walk passes over, as an error, or, in the folders of `Silent`, without a word;
`RecheckFails` leaves a reported log listed as it was, its report spent; a reported folder that is
refused is taken for none unless logs are listed in it (`unseen` in `BeginPart`).
`Silent` are the folders whose walker swallows what it is refused: Antigravity's, and
roots in which `is_file` and `is_dir` look for a database.
`age`, `gone`, `hidden` and `blind` are history variables: how long ago each file changed or came
in sight, which were not there at some time of the pass, which its walk was refused and said
nothing of, and which lie where the code cannot or does not look, or were refused since the
last walk.

**LanServer.**  `host` is the call in progress of the one thread that starts, stops,
invites and revokes; `Withdraw`, `ShutSockets`, `MoveGeneration`, `ClearStreams`
and `Join` are its steps in the code's order, with `WithdrawFails` for a file that
cannot be saved.  `conn` is where the thread of each connection is: the generation is
read and `running` is looked at before the request (`ReadGeneration`,
`CheckRunning`), then pairing (`Pair`, `PairFails`, `Paired`, `Tell`), a snapshot
or changes (`Authorize`, `Reply`), or a stream (`CountStream`, then `LookRunning`,
`AskGrant`, `WriteFrame` in turn, and `Uncount`).  `HeaderFails` is a stream whose header
cannot be written: its thread ends, and the stream stays counted; `lost` is a history of how
many did since the phone was last cleared.  `AcceptsNone` is the listener that is woken for a connection it
does not get: it waits again, or ends.  Tokens are numbers in the order they are
made; `from` gives the invitation of each, `barred` the newest invitation there was
at the last revocation, `withdrawn` the tokens it took, `known` the token each phone was told.
`Dies` is the app's death at any point: memory goes, `file` stays.

**LanCache.**  A version is what `publish` made: a cursor and the records.  The cache
keeps the newest records and, of the past, only times of writing and removal, as the
code does; `made` keeps all versions, as history, for the properties.  `Look`,
`Tell`, `Rest` and `Wake` are the loop of the stream.  The phone is external.

**The other small protocols.**  `PhoneShare`: the page's requests go through the
thread's inbox; `Take`, `TurnOn`, `TurnOff`, `Save`, `Answer` are the thread's steps,
`GiveUp` the 20 seconds.  The page asks for one thing at a time.  `PhoneUsage`: `Read`
takes the `Window` or the `Whole` by the notes of `usage.rs`; a snapshot's revision is taken as the current
one (a lagging one causes one more read), and what retention prunes is left out.
`ClaudePluginChannel`: `ReadFolder`, `Take`, `Claim`, `Recheck`, `Submit` and `Became`
are the plugin's pass and its notes, `PassFails` may come anywhere in it; a reload ends the pass of the old instance; an identity is used once.
`CliSettings`: the files come in the order the user lists them, which is any; `PlanFile`, `CheckEdit`, `WriteEdit`, `Save` (the preference),
`CheckUndo` and `PutBack`; `raced`
names the files the client saved between a check and the write that follows it (the
code has nothing that keeps the client out), which the property excepts.
`HostMailbox`: `Woken` merges; `Take` may find the screens changed as well, because
the worker polls for them.  Measuring, configuring windows and drawing the menu bar may fail
(`CannotMeasure`, `CannotApply`, `CannotDrawMenu`): that is logged and nothing is owed for
it, so `amiss` names what last failed, and the property excepts that.  (What is tried again
with a plan equal to the one before counts as drawn, as in the code, which compares plans.)
`AccountReadings`: `DueAfter` is `due_after` with times in units of its least pause,
`Begin`, `ReadAccount` and `Settle` are the parts of a reading between which the lock
is free; a sign-in (`sign`) is whatever a reader finds when it looks, and a reading
says of which it is.  `unheard` marks a consent that nobody woke the worker for.
`ConversationFeed`: a position counts whole lines.  `Meet`, `Deliver`, `DeliverFails`
are `deliver_conversation`, `Wanted` and `Replayed` what the catch-up reads; `failed`
is history: a delivery failed, or the app died, while a gap was noted.

## 3. Runs

| Run | Question | Instance |
| --- | --- | --- |
| `hook_callbacks` | Is each request answered or given up, once, and by the user?  Is every client released, does a stop end?  Does the channel implement `HookPromise`? | two connections, one served at a time (so one is turned away), two hold times |
| `snapshot_unchanged` | Does "unchanged" mean unchanged? (violated) | two cards, hold times 1 and 3 around a safety refresh of 2, time to 5 |
| `deepseek_asks` | Who may answer an ask, what becomes of its card and its answer? | one ask, all decisions, its deadline, the other observer |
| `deepseek_stops` | What of an observer that is dropped in the middle of a pass? | one ask, two registrations, a stop |
| `hook_inbox` | Can evidence go back, can a record stay unseen, can account callbacks overwrite each other? | two origins of a session, which do not expire, and a notification, which does; or three account reports |
| `ingestion` | Is every line counted once, through failures, kills, rewritings and handovers? | three lines out of time order, two versions, a line per pass, all four failures, one rewriting |
| `log_files` | Is every change listed, at once when the watcher works and by the next reconcile when not? | two logs in two folders, the root's walker saying nothing of what it is refused and the other's telling, a change set of one path, a reconcile after one unit |
| `failed_reads` | Does a log leave the listing only if it was not there? (violated) | the same |
| `lan_cache` | Do changes lead from any cursor to the newest version?  Is an update slept through? | a record with two values, three versions, a clock of two hours that may be set back, restarts |
| `lan_server` | Can a revoked phone get anything, an invitation pair twice, a call hang? | one phone, two connections, two grants, two invitations, one call of any kind, saving that fails, a header that is lost, a listener that breaks down, the app's death |
| `protocols` | Do the eight small protocols keep what each promises?  How late may the screen be? | see below |
| `conversation_holes` | Is what the conversation store lacks read again? (violated) | a log of five lines whose store fails, without crashes |

What each property says stands above it in its module.  In short:

- `OnlyTheUsersAnswer`, `NoOrphanCard`: no order of expiry, cancellation, answer,
  disconnect and stop lets a client act on what the user did not choose, or leaves a card
  that nobody reads.  `PromiseSpec`: the same as a state machine of three variables,
  which a reader of another component can rely on without the threads.
  `EveryClientIsReleased`, `StopEnds`.
- `MissedAtMostSafety`, `ExpiresOnTime`: a card missed by a render's key is put right
  by the safety refresh; an expired card leaves on time, also when the hold time was
  shortened.
- `CardsAreWatched`, `HarnessTakesTheUsers`, `SettledGoes`, `AnswerIsLeft`,
  `OneCardPerId`, `DropEnds`.
- `AccountsNewest`, `EvidenceNewest`, `LatestIsSeen`.
- `CheckpointMatches`, `OneRowPerLine`, `EveryLineIsCounted`, `ShorterIsReplaced`.
- `ChangesAreListed`: no change is missed for longer than the time between two walks;
  `ReportsAreEnough`: while the watcher works and has nothing to report, the listing is
  right but for logs that were refused; `RemovedAreGone`: a log leaves the listing only
  if it was not there, never because a folder could not be listed, where the walker
  tells of that.
- `ChangesAreExact`, `CursorsNameVersions`, `NoLostWakeup`, `PhoneCatchesUp`.
- `RevokedGetsNothing`, `RevokedStayOut`, `PairedOnce`, `StreamsAreThere` (no stream is
  counted that has no thread, but those lost with their header), `CallsReturn`.
- `ToldIsKept`: the switch is what the page was last told, also when an earlier
  request was given up and ran later; `ServedInTime`; `WordsOnce`;
  `ClientsSettingsStay`: what the client saved is in force whatever a request did
  and however it failed; `DrawnIsSo`: a worker at rest has drawn what is so, but for
  what it could not measure or draw when it last had to;
  `ShownIsCurrent`: an account that was removed or signed out does not come back with a
  reading that was in flight, and the worker does not sleep through what is due;
  `HolesAreNoted`: after crashes, first failures and any order of reads, deliveries and
  catch-ups the lines the store lacks are in the gap that is noted.

Every property of a passing run has a mutant in `PROJECT.json`: one definition
changed as a plausible bug would change it (`X_How` beside `X`), for which TLC finds
the property violated in that run.

## 4. Bounds and fairness

Bounds, all named where they bite: `MaxTime` ends the clock; `Register` makes no
request whose deadline lies past it, so every deadline is reached; `Fresh` of
`DeepSeekAsks` gives an observer as many tickets as it can need; `MaxRewrites` ends
rewriting; a version never goes back (`Start`); `MaxGrants`, `MaxInvitations`,
`MaxClients` and `MaxCalls` end what phones and the settings page do in `LanServer` (one call
of any kind: start, then an invitation, a revocation or a stop), `MaxLost` the headers that
are lost, `MaxVersions` what is published.  `FirstFree` of `MCLanServer` serves a connection
in the first free place, since places are alike, and `BreaksAlone` lets the listener break
down only while nobody is served; the proofs need neither.  In the small protocols: three requests and two
launches (`PhoneShare`), two days, two names, two changes and a whole read every two units
(`PhoneUsage`), two prompts, a life of one and two loads (`ClaudePluginChannel`), two
files with two lines, two saves and two requests (`CliSettings`), three changes
(`HostMailbox`), two sign-ins, three units of time and a failure (`AccountReadings`),
five lines, the last two of which are filled in a log never seen (`ConversationFeed`),
two cards, hold times of 1 and 3 around a safety refresh of 2 and time to 5
(`RequestSnapshots`).
`SweptAlone` of `MCProtocols` lets the third unit of time come only where one prompt at
most was left: words that nobody took are swept then, and two prompts meet before.
`FailsAlone` has the screens, the windows or the menu bar fail, not two of them at once, and
`EndsBetween` ends the host between two passes of its window worker.
`Apart` of `MCHookInbox` keeps the reports of sessions and of an account in
behaviours of their own: their files and their lock are apart.

The instances are small in the number of clients because the components keep them
apart: an owner's section touches one id, a hook's thread its own connection, a log
its own rows, a phone its own grant.  What does depend on numbers is in the
instances: two connections for the cap, for the join and for one that serves while the other pairs,
two registrations of one id for dismissal, hold times on both sides of
the safety refresh, three reports for "older over newer over newest", two lines
whose times are not in line order for a handover's spans, budgets smaller than the
log so that a handover takes several passes, a change set that two events overflow,
two settings files so that the second can fail after the first was written, an
invitation and the one that replaces it, a clock that can show the same hour again.
`protocols` uses the symmetry of names, prompts and sign-ins, which no module orders, and
checks invariants only.

`CHECK_DEADLOCK FALSE` is set where inputs are bounded: such a model stops when they
are used up (and a client that reports nothing more is a state the system may
really stay in).  That nothing hangs is said by the liveness properties instead.
`log_files` never stops and is checked for deadlock.

Fairness, and why the code gives it:

- `HookCallbacks`: weak fairness of each connection's thread, of the engine's call in
  progress and of the join.  These are threads that poll with time limits (a read of
  two seconds, a `recv_timeout` of 100 ms) and never wait for one another but in the
  join; and of the clock, while time is all that changes (a deadline comes).  No fairness of the
  client, the user or the server's stop: a client is released also when nobody does
  anything, by the deadline or by the thread's own time limits.  A read that has neither a frame nor a time-out is
  one step, `Decline`.
- `DeepSeekAsks`: weak fairness of the observer's worker, its `Drop`, the delivery
  threads and the engine's call.  None of Harness, which may end.
- `HookInbox`: weak fairness of notices and drains; strong fairness of `ListFolder`,
  since a listing that fails is tried again at the next turn and does not fail for
  ever.  A record that cannot be read is not tried again, and `LatestIsSeen` excepts it.  None of the hooks.
- `Ingestion`: weak fairness of passes and of pauses that end; strong fairness of
  the steps that can fail instead, and of a commit after a read that succeeded: disks
  do not fail for ever.
- `LanCache`: weak fairness of the stream's loop and of the phone's reading and asking
  while it has a stream; a wait has a time limit of its own, which the fairness does
  not need (`NoLostWakeup`).  Nobody has to publish, connect or set a clock.
- `LanServer`: weak fairness of the call in progress and of the listener.  None of the
  connections' threads: a call joins the listener only.
- `LogFiles` and the eight small protocols state their bounds as safety
  properties of times and of states at rest.

## 5. Proofs

All theorems hold for every value of the constants under the assumptions their
modules name (`RequestsAssumption`, `FreshIds`, `HooksAssumption`,
`InboxAssumption`, `IngestionAssumption`, ...), which TLC evaluates in the runs.
`FreshIds` is the one that carries weight: a hook's id is made from the owner's
sequence, so it belongs to one registration.

**HookCallbacksProofs.**  `TypeOK`, `OneHolder`, `NoOrphanCard`,
`OnlyTheUsersAnswer`, `AnswersAreFinal`, `DeadlineFollowsHold` and the refinement
`PromiseSpec`, for any number of connections.  None is inductive alone: that a
sender is in one place depends on what the engine holds, and that the client's
answer is the user's depends on what the thread has read.  The invariant is

    Inv == TypeOK /\ EngineInv /\ HolderInv /\ ThreadInv /\ MessageInv /\ ServerInv

`EngineInv` ties the step of the call to what it holds (only a step "notify" has
unsent tickets, a ticket in hand supports the decision), `HolderInv` says that
card, engine and channel exclude each other, `ThreadInv` that a card is there only
while its thread listens and that nothing is known of a ticket before it registers, `MessageInv`
that what a thread and its client got is what was sent, `ServerInv` that a server
that is down has no active thread.  The proof has one lemma per group of actions
(server, client, quiet steps of a thread, register, cancel, engine, user).  For
the refinement `IInv` adds `RegisteredInv` (a thread past registration has a card, a
message or the engine on its way), and each step is shown to map to a step of
`HookPromise` or to a stutter: an expiry to one `GiveUp` of all its cards, a
`CancelCard` to the `Take` or the `Abandon` by which the client is done.

**HookInboxProofs.**  `TypeOK`, `AccountsNewest`, `EvidenceNewest`.  The invariant
`Inv == TypeOK /\ Writers /\ Recorded`: an account report that is being written holds
the lock and is not older than what is in the file (`Writers`), and whatever is in
a file, in a drain or in the evidence has begun, so that its time no longer
changes (`Recorded`).

**IngestionProofs.**  `TypeOK`, `CheckpointMatches`, `OneRowPerLine` and
`ShorterIsReplaced`, for logs of any
length and any order of times, any budget, any set of versions and any failures.
`Inv == TypeOK /\ Memory /\ Ledger /\ Reading`: the checkpoint in memory is the one in
the database while the app is up, and the cache is that or empty (`Memory`); the
lines of the current rules are those before the offset and, in a handover, older
rows lie outside the span already replaced (`Ledger`); the events of a read are the
lines between where it started and where it is (`Reading`).  `ShorterIsReplaced` needs
`Fresh` besides: a read that began with a shorter listing starts from nothing and carries
nothing, and its events come from the file as it was listed or as it became since.

**LanServerProofs.**  `TypeOK`, `RevokedGetsNothing`, `RevokedStayOut`, `PairedOnce` and
`StreamsAreThere`, for any number of phones, connections, grants and invitations.

    Inv == TypeOK /\ Taken /\ Stopped /\ Ended /\ Invited /\ RevokedStayOut
               /\ PairedOnce /\ Promised

A revocation takes the grants in one step and shuts the sockets in a later one, and a
connection is authorized in one step and written to in others.  So the invariant says
what each knows in between: file and memory agree and neither holds a grant
that was taken (`Taken`); a server that has stopped has no open socket past its
request (`Stopped`); no connection is served with a grant whose revocation has
returned (`Ended`); the open invitation is newer than the last revocation and unused
(`Invited`); a phone that is told, or about to be told, of its grant can count on it
(`Promised`).  The threads' records stay behind the name `Threads` in the proof: one
lemma gives what a changed record still is.

`StreamsAreThere` bounds a number by the size of a set, the connections that will take their
stream off the count (`Counted`), and of the streams lost with their header (`lost`).  Other steps keep all that the set has or set the number to 0;
`CountStream` adds one to both, `HeaderFails` to the number and to `lost`, and `Uncount` takes one
off both unless the number is 0 already.  That the connections are finitely many is an assumption of the module.

**LogFilesProofs.**  `TypeOK`, `ChangesAreListed`, `ReportsAreEnough` and `RemovedAreGone`, for
any logs and folders, any limit of paths and any time between walks.

    Inv == TypeOK /\ Disk /\ Walk /\ Recent /\ Reported /\ Held

A pass looks at the disk a folder and a file at a time while clients write, move and remove
logs, and a file that comes into sight behind the walk is missed by it.  `Walk` says of each
file of a walk that it is still ahead, or that what was seen of it is right unless it changed
meanwhile or cannot be listed; `Recent` is what is left of that when the walk has ended, which is
`ChangesAreListed` with the age of the last walk in place of the time between two.
`Reported` says that a file which the listing, or the walk that is to correct it, has
wrong has a path on its way: in the change set, in the batch that was taken, or in what the
partial walk has still to look at.  A path that no longer is a folder is known for one
only by the folders of the logs that are listed, so `Held` is needed for a folder that moved
away.  `RemovedAreGone` follows from `Walk`: what a walk without errors did not see was not
there, or was passed over without a word.  A look that is refused spends a report or leaves a file out
of a walk; `blind` takes the file out of `Reported` until the next walk, which is what the code
makes up for it with, and `Recent` needs no report.

**DeepSeekAsksProofs.**  `TypeOK`, `HarnessTakesTheUsers` and `OneCardPerId`, for any number of asks,
tickets, observers and stops; `CardsAreWatched` for observers that are not stopped
(`Stops = {}`, the case its run checks).

    Inv == TypeOK /\ Owner /\ FreshInv /\ TellInv /\ AnswerInv /\ HarnessTakesTheUsers

`Owner` is the request owner's part (who holds a ticket: card, engine or channel).
`FreshInv` says that a ticket no thread was started for is known nowhere, so that a
stale decision cannot meet a new card.  `TellInv` follows a decision through its thread: what
was sent is something the card allows, and while a thread listens for it, or has it, the
HUD was told that it arrived.  `AnswerInv` says that an answer in the folder is the user's: it is
written by a thread that received it, and a message once sent stays sent.  `Watch`, for
`CardsAreWatched`, adds that no observer is stopped and that what a pass has still to look
at is not known yet.

**LanCacheProofs.**  `TypeOK`, `CursorsNameVersions`, `ChangesAreExact` and `NoLostWakeup`, for any
records and values, any clock, and restarts and cleared caches at any point.

    Inv == TypeOK /\ CacheInv /\ PhoneInv
    CacheInv == Saved /\ Counted /\ Current /\ Marked /\ Traced /\ Encoded /\ CursorsNameVersions

The cache keeps one copy of the records and, of the past, only when each was last written
or removed; what a version looked like is known only to the history `issued`.  `Traced`
relates the two: a version that a base still reaches agrees with the published records
wherever nothing was written or removed since.  A commit keeps it because a deletion is
forgotten only when no version before it is served any more, and because a version that a
base reaches after the commit is the new one or was reached before, which needs the order of all
cursors (`Saved`) and that the published version ends its base (`Current`).  `PhoneInv`
says that a frame leads from one issued version to another, so that a phone which applies
it to the version it starts from holds an issued one.

**ProtocolsProofs.**  What `protocols` checks of the eight small protocols, for any number of
requests, names, words, files, sign-ins, lines and cards and any bounds.  `who` names the one that
runs; `Inv` says that it keeps an invariant of its own, since the others stay as they
began.  None of the properties but `ShownIsCurrent` is close to inductive.

    ShareInv == Share!TypeOK /\ ShareInOrder /\ ShareQuiet /\ ShareDone /\ Share!ToldIsKept
    UsageInv == Usage!TypeOK /\ UsageTimes /\ UsageTried /\ UsagePassed /\ UsageRecent
                    /\ UsageFull /\ UsageNamed
    ClaudeInv == Claude!TypeOK /\ ClaudePass /\ \A w \in Words : OneWord(w)
    SettingsInv == Settings!TypeOK /\ SettingsSaves /\ SettingsEdits /\ SettingsStep
                       /\ SettingsStay /\ SettingsUntouched
    HostInv == Host!TypeOK /\ HostMail /\ HostFacts /\ HostDrawn
    ReadingsInv == Readings!TypeOK /\ ReadingsAgain /\ ReadingsSlept /\ ReadingsPast
                       /\ Readings!ShownIsCurrent
    FeedInv == Feed!TypeOK /\ FeedPending /\ FeedPositions /\ FeedEnds /\ FeedSpanned
                   /\ FeedFollowed /\ Feed!HolesAreNoted
    SnapsInv == Snaps!TypeOK /\ SnapsTimed /\ SnapsListed /\ SnapsDated /\ SnapsWoken
                    /\ SnapsTurnFollows

- *Sharing.*  The page waits for its last request only, and requests are done in order:
  when the answer comes, nothing that could undo it is left in the inbox or in the
  thread's hands (`ShareInOrder`, `ShareQuiet`), and the thread has done what it says
  (`ShareDone`).
- *Usage.*  A pass may rest on an earlier read.  A day that differs from the ledger has
  differed only since the read that would have seen it: the last one of its revision for
  today and yesterday (`UsageRecent`), the last full one for the others (`UsageFull`).
- *Words.*  They go one way: open to be claimed, in the plugin's hands, submitted.
  `OneWord` says which files, marks and answers there can be at each; whatever the
  app was told is one of the last.
- *Settings.*  An edit is planned from what a file held and changes only what is installed
  (`SettingsEdits`); a file the request has not written, or has put back, is as its
  client left it (`SettingsUntouched`, where `Touched` follows the call's position).
- *Host.*  What the worker has, or has drawn, that is not so is on its way: its owner owes a
  wake, the mailbox has its bit, the worker is at a step that still looks at it, or it was
  looked at and failed (`amiss`).
- *Readings.*  A reading of another sign-in or of other homes than there are is followed by
  another (`ReadingsAgain`), and a worker that sleeps unwoken sleeps no longer than until
  one is due (`ReadingsSlept`): what is left of every pause falls by one at most when a
  unit of time passes, which is a lemma on the minima and maxima of `due_after`.
- *Feed.*  A delivery looks at the store's position and at the gap, and neither says what the
  store holds.  `FeedEnds` says that the store holds the line its position names, so a line
  it lacks lies before the position; `FeedFollowed` says that while a gap is noted every read
  begins where the position is, so that a delivery never has a second span to note beside
  it.  That is what fails after a failed delivery, and `conversation_holes` shows what is
  then lost.
- *Snapshots.*  Both properties speak of a collector at rest; in between a render reads the
  queue several times.  What is past its deadline has left before the rows are listed
  (`SnapsTimed`), a card that came or went since did so in this turn (`SnapsListed`), and the due time
  kept with a key is early enough for the deadlines and for all that the key does not
  tell (`SnapsDated`); so is the collector's next turn, unless a wake is on its way (`SnapsWoken`),
  and a render for the window leaves the collector a turn of its own.

**Model-checked only.**  All liveness (`EveryClientIsReleased`, `StopEnds`,
`SettledGoes`, `AnswerIsLeft`, `DropEnds`, `LatestIsSeen`, `EveryLineIsCounted`,
`PhoneCatchesUp`, `CallsReturn`): liveness under fairness and ENABLED are beyond this
prover.  Every invariant and action property of a passing run is proved.

## 6. Where code and documents disagree

Three runs end in a violation, of a property that a comment states.

- `snapshot_unchanged`.  A card registered after `views` has listed the cards
  (`core/src/snapshot.rs:223`) and before `render_key` (256) is counted in the key
  the render leaves and is missing in its rows.  The next `render_if_changed` answers
  "unchanged", which lines 120-121 promise only when nothing changed.  The card shows
  when the safety refresh is due, 15 s later at most (`MissedAtMostSafety`).
- `conversation_holes`.  A gap that is noted already keeps its end
  (`core/src/conversation_catchup.rs:44-51`).  When two deliveries in a row fail, the gap ends where
  the second began; if a third succeeds before the catch-up runs, the store's position
  moves past the second's lines, which are in no gap.  Lines 3-5 say that "the spans it
  lacks are noted here and read again later", `conversation_feed.rs:86-87` that "core
  replays from there on a later pass".  `HolesAreNoted` shows that nothing is lost as
  long as no delivery fails, and the app does not die, with a gap noted: gaps are in
  memory only, so a crash loses one for good if a later read was delivered.

- `failed_reads`.  `core/src/log_files.rs:117` says that "a failed subtree read cannot prove
  that cached files disappeared", and refresh keeps them when its walk has errors.  But
  `walk_antigravity` (`log_files/walk.rs:124-180`) takes no errors: a folder that `read_dir` is
  refused is walked as an empty one, and its logs leave the listing as removed.  So do those of a
  root in which `is_file` and `is_dir` (71-99) may not look for the database they ask for.  The next
  walk that can read the folder lists them again.  `RemovedAreGone` shows that nothing else
  takes a log away.

While modelling we met other places worth knowing.  The models contain the
behaviour, and properties of the runs are stated so as to hold with it.

- `hooks/callback.rs:36-42`: after `recv_timeout` ran out, the deadline check finds the
  card gone and returns no decision, even if `answer` has sent one in between.
  The HUD was told "ok".  `HookPromise` lets a client leave with no decision
  whatever was decided (`Abandon`).
- `deepseek_plugin/asks.rs:111-117`: a worker past its check of `active` writes
  `app.json` again after `Drop` removed it; the file then stays until it is stale.
  `deepseek_plugin/tests.rs:488-489` asserts that it is gone.  The same worker
  may register a card after the drop.
- `asks.rs:280` notes a delivery as confirmed when the answer file is written, though
  Harness may have had another answer; `core/src/requests/deliveries.rs:8-9` says that
  only the source's reply confirms one.
- `asks.rs:158` passes over an ask the observer knows before it looks for the session's
  check-in (168): the card of a host that died stays until a sweep a day later,
  unlike the comment at 35-36.
- `asks.rs:239` and `clients/deepseek/questions.rs:239` replace the waiting sessions of
  the same source id, so each pass of one takes back what the other said.
- `hooks/inbox/mod.rs:124-128`: only account events take the lock, so two callbacks of
  another kind can leave the older record in the file.  Evidence does not go back
  (`EvidenceNewest`) while the app runs.
- `hooks/inbox/watch.rs:93-107`: a record that is there but cannot be read is dropped from
  `pending` and not tried again until its file changes or the folder is listed whole.
- `ingestion/scan.rs:190` compares lengths of listings, not the offset a read reached:
  a log that grew between its listing and its read and was then started over to a
  length between the two is read on from the old offset
  (`docs/parity/c01-claude-codex.md:87` speaks of the offset).  `ShorterIsReplaced`
  states what the code does ensure.
- `hooks/inbox/watch.rs:96`: a drain reads an expired record and removes its file by
  name.  A hook that has renamed a new record over it meanwhile loses it, though
  `docs/client-hooks.md:47` says that the inbox keeps the latest record of each kind.
- `ingestion/scan.rs:273` and 318: when a log whose last line was partial cannot be
  opened, its `waiting_for_more` is still set from the read before.  It takes the new
  stamp and leaves `pending`, so the failed read is not tried again, unlike
  `ingestion.rs:22-23` says, until the log changes.
- File listing: a watch that succeeds when it is tried again (`file_changes.rs:112`) does not mark
  the changes unknown, although the comment at 109 says why one should; a log
  that a hook's reminder lists (`ingestion/scan.rs:36`) is not noted in `holders`, so a
  folder above it that moves away is found by the next walk only; one folder that
  cannot be listed keeps every vanished log of all roots until the next full walk
  without errors; a reported log that cannot be looked at (`log_files.rs:229`) stays listed as it was
  until the next walk, since its report is spent.  `blind` names these files.
- LAN server: after a disconnect, a late decrement takes the count of the phone's
  new stream; `revoke_clients` (`share/worker.rs:178-183`) does nothing and answers Ok while
  sharing is off, though `clients.json` keeps its grants and `docs/local-network.md:47`
  says that revoking withdraws every token; a stop with revocation whose save fails
  returns before streams and cache are cleared; a stream whose header cannot be
  written (`server/connection.rs:179`) returns before it is counted down, so the page shows a
  phone that is gone until its grant is revoked or the server stopped (`lost`); an error
  of `accept` other than "would block" ends the listener (`server.rs:170`) while the page goes
  on showing the address.
- Sharing: when `settings.save` fails after the link was started or stopped, disk and memory
  disagree until the next change (`ToldIsKept` speaks of what was answered with Ok).
- Claude Code: the app may tell "expired" by the clock (`claude_plugin/channel.rs`, at 205)
  while the plugin, past its own look at the clock, still submits.
- `hooks/install.rs:225` and `statusline_install.rs` compare and then write: a client's
  save between the two is lost (`raced`).  Errors of a rollback are ignored, against the
  comment of `set_opted_in` that every file stays as it was.
- Conversation catch-up: `replay` (`conversation_catchup.rs:179-184`) skips to the next line
  when no turn starts before its span.  That is meant for a log cut at a byte; a gap begins
  at a line, which is then skipped whole (`Replayed`; the properties speak of logs that
  begin with a turn).
- Account readings: a consent that changes (`accounts/sources.rs:15-47`) asks for a reading
  but does not wake the worker, which may sleep on for 300 s (`unheard`).  Only homes are
  compared when a reading lands (`worker.rs:170`), so one that was in flight at a sign-out
  shows the old account again until the next reading, and longer if that fails.
  `schedule.rs:87` says "Account requests are never <60s apart"; a provider whose entry was
  removed (homes, sign-in, consent) is read at once.
- Windows and menu bar: a failure to configure a window (`host/src/hud/plans.rs:215-220`) or to
  draw the menu (`coordinator/worker.rs:155-157`) is logged and tried again only when the
  next change comes (`amiss`).
- `core/src/dispatch.rs:44-45`: when the files and the preference are saved and the answer cannot be made,
  the files are rolled back and the saved preference stays; no property reads it.
- `platform/src/accounts/sign_in.rs` saves the credential outside the lock under which the account is removed and
  a reading forced; the model makes one step of it.  What a reading finds between the two is
  read again.
- Conversation lines longer than `MAX_LINE` are skipped by a replay
  (`conversation_catchup.rs:200-202`), while an ordinary read hands over a skeleton of them.  The
  model speaks of lines that both can read.
- `coordinator.rs:126-129`: two threads publish to the pages, so an older presentation
  may arrive after a newer one.
- `instance/mod.rs:172` and 195: between taking the lock and emptying the file a new
  holder's name is still its predecessor's.

## 7. What is not modelled

Inside the modelled components: `refresh_native` and `checked` of the owner (Claude
Desktop), what reviewers noted, the checks of a question's answers; the other
entries of a render's key and the other turns of the collector; an ask that cannot be
shown, several asks of one session, prompts, the age of `app.json`, a spawn that
fails; first surfaces and titles that a record carries on, completions told apart by
turn, times in the future, temporary files left by a dying hook; archives, logs that
were removed, sessions adopted by or mapped onto others, running without a database,
a version that goes back, several events in one line, a modification time too
coarse to tell two writes apart; several roots, links and the clients' rules of which
files are logs; TLS, the automatic credential of an account, peers' names and the routes of
extensions; the texts that are installed in a client's settings; status pages, trial sign-ins
and windows kept from earlier readings; conversations of logs that are rewritten, and the
budget that several logs share.

Components without a module are listed with their reason in `PROJECT.json`: formats
of clients, prices and projections (data, with tests of their own), drawing and
windows, system calls, packaging.  They are most of the repository's lines: each client's
parsers and adapters, the HUD's design language and the TypeScript windows hold
little state of their own.  Instance locks are the system's file lock.  The
others are in the plan.

## 8. Plan

Done, in this order, because requests and usage are what the program is for:
`Requests` and `HookCallbacks` with `HookPromise`; `RequestSnapshots`;
`DeepSeekAsks`; `HookInbox`; `Ingestion`; then `LogFiles`, `LanServer`, `LanCache` and
the other small protocols; proofs of the safety of all of them.

Next, most important first:

1. `refresh_native` and the replies of the desktop clients beside `DeepSeekAsks`.
2. What is news between two snapshots.
3. Conversations of logs that are rewritten, several logs in one budget.
4. Buckets and statistics as operators, against a reference over the events.

Each with the proofs of its invariants, and refinements of the kind of `HookPromise` for
`LanServer` (a grant is given once, and taken) and `Ingestion` (a line is counted once).
