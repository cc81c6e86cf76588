# Disjorn: TLA+ models, checks and proofs

Disjorn is a self-hosted chat server for a small house of people and the bots that live with them, together with the
harness that runs those bots: residents that are summoned in a channel, that may wake at an hour of their choosing,
that build software in containers and have it merged. This directory holds TLA+ models of the parts whose correctness
depends on the order in which things happen, the configurations with which TLC checks them, and theorems that the TLA+
proof system checks for every value of the constants. Paths below are relative to the repository (`server/...`,
`sdk/...`, `harness/...`); `PROJECT.json` maps every definition of every model to the lines it stands for.

Contents: 1 the system and its components, 2 the modules, 3 what each run checks, 4 what is proved,
5 disagreements between the code and what it says of itself, 6 what is not modelled, 7 the plan.

To check something: `tlc -config MCWriteLock.cfg MCWriteLock.tla`, `tlapm ServerProofs.tla`.

## 1. The system

### How the parts work together

```
 web client ──HTTP/WS──┐                                 ┌── residency: adapter, wake runner (one per resident)
                       ├── server (one process, asyncio) ─┤       │ launches sessions (podman, model)
 bots with the SDK ────┘      SQLite, one connection      │       ▼ unix sockets, SO_PEERCRED
                                                          └── broker (root's agent, a thread per call)
                                                                  builds, gates, merges, wakes, hops, apps
```

**The server** is one asyncio process over one SQLite connection. A request handler is a coroutine: between two `await`s it
is alone, at each `await` every other handler may run. Writes go through `execute()` and `transaction()` of `db.py`,
which share one `asyncio.Lock`. Reads take no lock. When a handler has committed it calls `events.publish(event)`, which
awaits each subscriber in the handler's own task. The subscriber that matters is the hub (`ws.py`), which sends the event to
the sockets of the people and bots of the channel, with awaits between them. There is no queue between a commit and its
fan-out, so two handlers' fan-outs interleave.

**A bot** uses the SDK client: one WebSocket for live frames, and REST pages to fetch what it missed while it was not
connected. It keeps the last seq it has seen per channel (the *cursor*).

**A resident** is a bot whose adapter turns a mention into a session of a language model, under a daily budget; a mention
by another *bot* additionally costs a *hop* that the broker grants. The broker also keeps the *wake spool*: a resident asks
for a wake, the runner of its seat polls the spool and launches it in its window.

### Inventory

| Component | State it keeps | Operations | What is hard | What makes it correct | Module |
|---|---|---|---|---|---|
| Database access (`server/app/db.py`) | one connection with its transaction, `_write_lock`, `db_write_block` (a ContextVar with an `active` flag) | `execute`, `transaction`, `connect` | one connection for all handlers; a task spawned in a block inherits it; statements that raise; crashes | a unit of work is durable as a whole or not at all; a commit publishes its own work only; everyone waiting is served | WriteLock |
| Messages (`routers/messages.py`) | `messages` rows with `seq`, `flags`, `deleted_at` | create, edit, delete, list | each reads, awaits, writes, awaits, reads back and publishes | seqs without gaps; no text without its flags; a delete is final; announced once | MessageStore |
| Privacy (`privacy.py`) | none | `detect_flags`, `filter_event_for_bot` | flags as of which moment | flagged text reaches no bot | MessageStore, Delivery |
| Event bus and hub (`events.py`, `ws.py`) | sockets of users and bots | `publish`, `handle_bus_event`, connect, disconnect | fan-outs overlap; people come, go and change membership meanwhile | who was a member all along hears it; who never was does not | Delivery, Channels |
| SDK client (`sdk/disjorn_sdk/client.py`) | `last_seen_seq`, connection, page under way | `events()`, `_backfill`, `_parse_frame`, `seed_seq` | frames lost with the link, pages that overlap live frames, restarts | nothing twice, in order, nothing skipped | BotClient, Delivery, OrderedFeed |
| Channels (`routers/channels.py`) | `channels`, `channel_members` with `last_read_seq` | create, invite, kick, leave, add/remove bot, mark_read, delete | each checks first and writes after an await | no rows behind a deleted channel; no membership nobody gave; read state ascends | Channels |
| Wake lane (`broker_wake.py`, `residency/wake.py`) | spool of records, claims of the runner on disk and in memory | `wake` verb, poll, claim, serve, report | threads on the broker, crash of the runner at any step, failing saves, pruning | daily cap; a wake is one session; none overlooked | WakeLane |
| Summons (`residency/adapter.py`, `budget.py`, `hops.py`, `HopLedger`) | budget file per seat, hop ledger per work item | detect, hop, spend, session, reply, un-park | residents that mention each other; midnight; restarts; lost answers | bots do not keep each other busy; budgets hold | Summons |
| Sockets, sessions, presence (`ws.py`, `auth.py`) | sockets per user, `sessions` rows | accept, recheck each minute and before operations, presence | presence broadcasts overtake each other; a session revoked while its socket is open | a closed session hears nothing more; presence converges | planned |
| Direct messages (`routers/channels.py`) | the channel of a pair | `POST /dms` | look-up and insert in two steps | one DM per pair | planned |
| Accounts, reset requests, throttle | single rows, counters in memory | log in, register, reset, limit | little: one statement or one block each | limits hold in a process | not modelled |
| Approval cards (`routers/approval.py`) | card, two principals' rows | propose, decide, close | two deciders at once | closed once, by what both said | planned |
| Notifications, push, unfurl, media | rows after the fact, calls out | best effort | failure of the outside | a failure changes nothing else | not modelled |
| Slash commands, planning room, summaries | cards, comments, flags | parse, forward | little | the card says what the broker did | not modelled |
| App turns (`broker_apps.py`, `cc/apps/run-apps.sh`, `routers/apps.py`) | the session's row and events; `_active_apps`, tickets, units, results, the token ledger | apps-build, reaper, stage posts, stop, end, adoption | posts lost or tried again, stop and end against the end of a turn, broker restarts, late records | one turn writes at a time, is charged once, counts against the ceiling, is told | AppTurns |
| App sessions and publishing (`routers/apps.py`, `cc/apps/disjorn-apps-launch`) | sessions, `live_publishing_at`, `apps.status`, the directories `preview`, `live`, `live.prev` | open, lapse, end, publish, revert; remix, share, grants, quota, menu | checks before the transaction, two units that rename, a turn that renews what is copied, killed units, server death in a publish | what went live stays served and whole; Revert reaches the deploy before; a claim is given back | Publishing (the last five operations are not modelled) |
| Apps serving gate (`gate.py`, `origin_wall.py`) | none (signed grants) | serve | none between requests | only a holder of a grant is served | not modelled |
| Bots, avatars, speech, emotion | single rows | administration, classification | none | | not modelled |
| Start-up, CLI, migrations | schema version | run before serving | none: nothing runs beside it | | not modelled |
| Web client stores (`client/src/ws.ts`, `stores/messages.ts`, ...) | a list of messages per channel with its seams, sockets, unread | live frames, first page, scrollback, window around a search result, seam fill, resync | pages cross live frames, deletes and each other; sockets are lost and replaced | a hole has a seam; a reconnect brings what was missed | WebClient (other stores not modelled) |
| Resident launcher (`residency/launcher.py`) | a subprocess | launch, pump, deadline | deadline against the end | a session ends | inside WakeLane and Summons, as an action |
| Merge pipeline (`broker_merge.py`, `gates.py`) | refs of the gatehouse, `_gate_runs`, `_merge_lock`, ledger, PASS posts | /merge, end of a chat build: claim, fold, pin, gate, classify, merge, second look, push, ledger | the branch and `main` move between any two steps; two merges; a crash after the push | what lands is a tree that was gated; unasked merges are green, Tier 0, within the budget; a PASS is about what lands | MergePipeline, GatedMain |
| Builds (`broker_build.py`, `brokerd.py`) | reservations, sidecars, spool files, transient units, the spec's Status, the day's count | confirm, reserve, files, ticket, spawn, reap, refuse, adopt, sweep | broker restart at any step; two builds of one slug; midnight | told once, with its files; the ticket stays its own; the cap holds | Builds |
| Broker dispatch, mirror, planning verbs (`brokerd.py`, ...) | audit log | one verb per call | thread per connection | each verb's own | not modelled as such |
| App harvest and launcher (`apps_harvest.py`, `disjorn-apps-launch`) | the served trees | harvest, publish, revert; commit, scan, quarantine, remix | renames that fail, units that are killed | see publishing | Publishing (the last four operations are not modelled) |
| Containers, scripts, hooks | outside processes | | a session or build that ends, fails or is killed | | seen as outcomes |
| House memory, consolidation, classifier, metrics | files | batch programs | no concurrent actors | | not modelled |
| Backup and deployment | unit files | `Restart=on-failure` | it is what makes restarts actions | | not modelled |

The hazards of this code that a test would hardly reach are listed, each at its line, in `PROJECT.json` ("hazards"), with the
properties that would catch each one going wrong, or the reason why none does yet.

## 2. The modules

```
 MCWriteLock ── WriteLock ──────┐                     (the write lock of the server)
                   ┆ its result  ├── ServerProofs
 MCChannels ────── ┆ Channels ───┘
                   ┆ is used by
                  MessageStore ──┐
                                 ├── Delivery ── MCDelivery    Delivery implements MessageStore, BotClient, OrderedFeed
                   BotClient ────┘       └── DeliveryProofs
 MCWakeLane ────── WakeLane ────┐                     (the clients of the broker's daemon)
                                ├── BrokerProofs
 MCPublishing ──── Publishing ──┘
 MCSummons ─────── Summons ── SummonsProofs
 MCMergePipeline ─ MergePipeline ─ MergePipelineProofs         MergePipeline implements GatedMain
 MCBuilds ──────── Builds ─── BuildsProofs                     (a build's end is what BuildEnds of MergePipeline is asked by)
 MCAppTurns ────── AppTurns ── AppTurnsProofs                  (its posts are what Publishing sees of a turn)
 MCWebClient ───── WebClient ── WebClientProofs                (a browser's tab; the server as MessageStore shows it)
```

A component module declares the constants and their assumptions, the state, one action per step between two points where
another actor may run, the specification and its properties. An `MC` module adds a symmetry set or a constraint that only the
model checker needs. Operators named `Action_Something` next to an action are variants of it with a plausible slip
(a dropped guard, a swapped order): they are no part of a specification and serve to confirm that the properties
notice the slip.

### WriteLock: `server/app/db.py`

`holder` and `waiters` are the `asyncio.Lock` (`waiters` is its FIFO); `step`, `unit`, `ctx` and `token` are the tasks, the ContextVar
as each task sees it and what `reset(token)` puts back; `active` is the flag of each `_WriteBlock`; `inTxn`, `pending` and
`durable` are the connection and the file. `stray` remembers the statements that joined a block after its transaction was over.

`ExecuteAutocommit` / `AcquireAuto` / `AutoExecute` / `AutoExecuteRaises` / `AutoCommit` are `execute()` outside a block,
`ExecuteJoins` and `BodyWrite` are `execute()` in a live block, `OpenTransaction` ... `LeaveBlock` are `transaction()`. `SpawnChild`
copies the context, as `asyncio.create_task` does. `transaction()` asks no question before it takes the lock: a task that opened one inside its own live block would wait for itself
(no caller does, and the tasks of the model open one unit at a time). `CrashAndConnect` is the death of the process in any state, followed by
`connect()`: uncommitted work is gone. A statement is an element of `Units \X Nat`; what it writes is not looked at.
The implicit transaction that Python's `sqlite3` opens before an INSERT, UPDATE or DELETE is modelled, and so is that it stays open when
the statement raises.

### MessageStore: `server/app/routers/messages.py`

A request is a handler with a `pc` and a `job`, the locals it carries over an await. `create` takes the lock of WriteLock (`writer`) and holds it
for SELECT MAX(seq)+1 and INSERT; `edit` and `delete` read the row, check it, wait, UPDATE, read back, publish. A text is the set of flags
its phrases trigger. `events` is what was handed to `events.publish`. That a block is atomic and exclusive is not assumed
out of the blue: it is AllOrNothing and CommitsOwnWork of WriteLock. TLC checks the module as a part of Delivery.

### BotClient: `sdk/disjorn_sdk/client.py`

One channel. The server is arbitrary: any frame may arrive, and any page in ascending order from `from_seq` may be answered.
`Connect` goes to a backfill when `connected_before` and the channel is known; `FetchPage`, `BackfillItem`, `PageDone`, `BackfillFails` are
the loop of `_backfill`; `ReceiveCreate` and `ReceiveOther` are `_parse_frame`. `Restart` is a new process that seeds the
cursor saved by the old one. A lost link is noticed by `recv()` only. TLC checks it inside Delivery; the proofs are about the client
alone, with the arbitrary server, and then show that the whole path runs it.

### Delivery and OrderedFeed: the server and a bot together

Delivery extends MessageStore (whose `StoreInit`, `StoreNext`, `StoreRequest` and `StorePublish` are parts of its own), instantiates BotClient as `Client`, and adds the hub: `Publish` hands the event to the handler's own
fan-out (`flight`), `ListBots` and `SendToBot` are the two steps of `handle_bus_event` towards a bot (it filters, enriches with an await,
and sends). `FetchPage` is `GET /channels/{id}/messages`: LIMIT first, privacy filter after it, as the code does. `shown` records every flag
triggered by text of a person that reached the bot. `lost` is history: five things let the client's cursor pass a message, and each adds there, where it happens, just the messages it can cost. They are the first connection of a process, which is not
backfilled (`Connect`), a page that came back short because a row of it was hidden (`FetchPage`), a page that failed (`BackfillFails`), a frame that overtook the create of another handler (`SendToBot`, `Overtaken`), and an edit that takes the flags off a message
the bot was passed by for (`Handle`, `Unhidden`). What is still on its way to the bot, on the wire or in a handler, is not lost (`OnItsWay`).

OrderedFeed is what the SDK documents: messages are posted, some vanish (deleted, hidden, or lost in one of the five ways), and the bot is handed what remains
in order, nothing twice, nothing left out. `Delivery!IsAFeed` is the refinement
`posted <- Len(rows), gone <- Gone \cup lost, handed <- yielded`.

### Channels: `server/app/routers/channels.py` with the hub's membership events

One text channel with its rows, `read` state, a count of posts, and the handlers with their checks and their writes on different sides of an
await. After its commit a handler fans its event out: `all` for a public channel, else person by person (`todo`), asking `is_member`
for each (`Ask`), and sending after another await (`Send`). `owed` and `entitled` are history: who has been a connected member
(or the subject) *ever since* the commit, and *at some time* since. The code must send to all of the first and only to the second.
`Witness`, conjoined to every step, keeps them.

### WakeLane: `harness/broker/broker_wake.py` and `harness/residency/wake.py`

The calls of the broker are threads: `Ask` reads the clock before the lock, `Count` and `Write` are under it, `Prune` after it. The runner's
`Poll` splits the spool into due and missed by the clock *of the poll*, and `TakeMissed`, `ReportMissed`, `TakeDue`, `Launch`,
`SessionEnds`, `BatchDone` are its batch. `MarkServed` claims in memory and in the file; the save may fail, with a warning. `Crash` and
`Restart` may come at any step; `Restart` may find the file unreadable, and then knows of no claim. The record windows use `Grace`; files older than `Retention` are pruned; `MaxServed` is the number of
claims the file keeps. `unsaved` and `forgotten` are history: claims that never reached the file, and those that a runner no longer knows of: a dead runner took them with it, the file had dropped them for newer ones (`Dropped`), or could not be read.

### Summons: `harness/residency/adapter.py`, `budget.py`, `detector.py` and `HopLedger`

Seats share a channel. `Handled` reports a person's post on a work item (which un-parks it), `Detect` decides if a post is a summon,
`ClearTheHopWall` asks the broker for a hop when the summoner is a bot, with an answer that may be lost *after* the hop was charged, `SpendBudget` spends,
and `Reply` posts. A reply on a chain that may go on keeps its mentions of other seats, any other reply has them demoted. `Reconnect` is a restart of an adapter: it
resumes at the end of the channel. `Midnight` resets what is counted per day. `granted` and `sessions` are history.

### MergePipeline and GatedMain: `harness/broker/broker_merge.py`, `gates.py`

How `loop/<slug>` gets onto the gatehouse's `main`. The git history is modelled as what each commit reaches; a *tree* is the set of changes among
it, which is what tells two trees apart here. `main` and `tip` are the refs. A thread (`run`) carries the locals of `_merge_in_background` over its git calls,
each of which is a step: `Claim`, the fold of `main` into the branch (`FoldClone`, `FoldMerge`, `FoldPush`), the pin (`ReadMain`, `ReadTip`), `Gate` and
`Classify`, which name the *branch* and so see whatever it is by then, `PassAgain`, and under `_merge_lock` budget, clone, fetch and merge, the two
second looks, push and ledger. Around it a seat pushes its branch, a person pushes to `main` from the keyboard, reviewers post a PASS, and the broker
restarts. `TakeLock` counts nothing when the ledger cannot be read; `blind` and `unledgered` are history, the self-merges let through by a full ledger nobody could read and those whose line a crash took. Time is counted in PASS posts: a commit is dated by how many are older, and a pushed commit may be dated earlier than it is pushed.

GatedMain is the promise: main only grows, by one change when the keyboard pushes, and a tree that the broker lands was put through the gates as it is.
`MergePipeline!GatedAsItLands` is the refinement `mainTree <- Tree(main), landings <- the trees of landed`.

### Builds: `harness/broker/broker_build.py`, `brokerd.py`

`ReadSpec`, `Reserve` (the slot of the day and the slug, under one lock), `OpenLogs`, `WriteTicket`, `Announce`, `Spawn` and `Audit` are start-build; the unit runs outside the
broker; `Reap` narrates and `Unlink`, `RemoveTicket`, `FinishBuild` tidy up. The preflight may refuse a build, whose reaper gives the slug back first
(`RefusedRelease`) and restamps, narrates and removes files afterwards. `Crash` at any step loses the threads and the memory; `Adopt` looks at the tickets one by one,
a ticket that cannot be read is removed; `AdoptNone` is a directory that cannot be listed. `TidyAdopted` and `Poll` end what it finds, or the reaper raises before it has told and keeps its ticket (`kept`), and `Serve` sweeps files no ticket names and opens the doors. `Midnight` moves the day. `robbed`, `cut`, `misrefunds` are
history: what the properties must except, each of them an exception with a bullet in section 5.

### AppTurns: `harness/broker/broker_apps.py`, `harness/cc/apps/run-apps.sh`, `server/app/routers/apps.py`

One app with one build session. A launch is one call of apps-build with its reaper: `View` reads the session, `Sweep` and `Resolve` deal with tickets left behind, `CheckCeiling`,
`Claim`, `WriteTicket`, `Spawn`, and `Undo` when any of it fails. The unit starts, writes its record, ends. The reaper looks for the record, asks for the
stop flag, synthesizes a halt, or gives up (`FindResult`, `PollStop`, `Synthesize`, `GiveUp`). A post to the server is `Gate` (the 410 check, read without the lock), then `Commit` (the transaction with
its charge), either of whose answers may be lost (`LosePost`), and is tried a second time if what went wrong was a VerbError. The line that tells the room follows the commit and may fail (`Land`, `unsaid`). The ledger may be unreadable or unwritable (`WriteLedger`, `SpentAs`). `ReadStop` / `RequestStop` are the two steps of a press of stop; `EndSession` puts a stop on a session whose turn runs. `Crash`, `Adopt` and
`Serve` restart the broker. Tokens are counted in records. `forsaken`, `unheard` and `crossed` are history: units and tickets the broker has let go of, ends that were lost or refused, and launches that claimed on a view
older than a turn's end or a ledger nobody could read, or whose ticket or record met another call's. The properties except them, each with a bullet in section 5.

### Publishing: `server/app/routers/apps.py`, `harness/cc/apps/disjorn-apps-launch`, `apps_harvest.py`

The directories of one app (`preview`, its old copy, `live`, `live.prev`, the swap of a revert) hold the number of the turn whose tree they are, nothing, or half of one
(`Torn`). A press of Live checks (`Press`), claims its session (`Claim`), is checked by the helper (`Preflight`) and becomes a unit named after its mode and app: `Start`, `Copy`, `Clear`, `Look`, `Aside`,
`Place`, `Done`, each a rename, a removal or a transaction that may fail, a removal also half way and the rename that puts back what was live like the one it undoes, then `Release` of the claim by a server that may have died. `Revert` is a swap of three renames, with its way back. Beside them sessions open, lapse
and end, and turns renew the preview in the two renames of a harvest. `Kill` ends a unit between two steps; `ServerCrash` takes the requests and leaves the units.
`happened` is history: a turn that started after the question about running turns (`late`), a question systemd did not answer (`blind`), a publish and a revert at once (`overlap`), a removal of `live.prev` that stopped half way (`half`), a unit that left
nothing at `live` because it was killed between two renames or could not put back (`dark`), and a dead server (`crash`).

### WebClient: `client/src/ws.ts`, `client/src/stores/messages.ts`

One tab and one channel. `held` is the list, a set of seqs since the store orders and deduplicates by seq; `loaded`, `reachedStart` and `gaps` are the store's fields, `connected` and `hadReady`
the socket's. A call of the reader is two actions with the answer in between: `EnsureLoaded`, `FetchOlder`, `EnsureAround`, `FillGap` ask, `Serve` is the server's answer of that moment, `PageArrives`,
`WindowArrives`, `FillArrives` merge it. `Connect` is the ready frame; but for the first, it starts `ChannelsRefreshed` and the pages of `BackfillArrives`. `Dispatch` applies a live frame, `Miss` is a fan-out that found no socket.
`Seam` is where MessageList draws a divider. `LinkLost` and `ServerBounces` differ in that the second takes the pages asked for with it; a request fails in no other way, which is what the comment in
`resync` says it usually means. The server is as MessageStore shows it: seqs without gaps, frames after the commit and in any order.

`jumped`, `severed` and `owed` are history. `owed` is what was posted while the tab followed the channel. `jumped` is where the store merges and does not ask whether the pieces meet: what lies between a live frame and its neighbours in the list
(`Hole`), between a page of a backfill and a newer message that a search window or a live frame brought meanwhile (`Overtaken`), below a window that is merged into a list which deletes have emptied (`Unreached`),
between a list and the page of a second first load (`Doubled`), and between the deleted edge of a page in flight and the next message, when a window or a fill ties the seams anew meanwhile (`Crossed`). `severed` says that one step took *all* of a
piece of the list (`Piece`: what lies between two seams), whose seam then stands for nothing. Each is added exactly where its step happens, so that the properties except nothing else.

## 3. What each run checks

State counts are of distinct states.

| Run | Instance | States | Properties |
|---|---|---|---|
| `write_lock` | 3 tasks, 3 units, 2 statements each | 277 000 | AllOrNothing, CommitsOwnWork, InheritedBlockDies, WaitersAreServed |
| `delivery` | 1 handler, 3 rows, 4 events, pages of 2, 2 drops | 33 000 | NothingSkipped, IsAFeed, Delivered |
| `delivery_wall` | 2 handlers, a person and a bot, 1 flag, 2 rows, 3 events; a drop, a failed page, a restart | 2 577 000 | HiddenTextStaysHidden, SeqIsGapless, TextIsFlagged, NothingSkipped |
| `channels` | 2 handlers, an owner, an admin who is a guest, a bot, 1 post, 3 requests | 1 560 000 | OutsidersHearNothing, NoOrphanRows, MembersHear |
| `wake_lane` | 3 wakes, a day of 2 ticks, times 0..4, a file of 2 claims, 1 crash | 636 000 | DailyCapHolds, ServedOnce, EveryWakeIsTaken |
| `summons` | 2 seats, caps 1/1/2, 4 posts of which 2 by people, 2 days, 1 crash | 6 000 000 | HopsPerLook, BudgetHolds, BotSessionsAreEarned |
| `merge_pipeline` | 2 branches, 2 threads, tiers 0 and 2, a budget of 1, 3 changes, 1 PASS, 2 merges asked for, 1 crash | 2 189 000 | SelfMergesAreGreenTierZero, BudgetHolds, ReviewedOrHarmless, GatedAsItLands |
| `builds` | 1 spec, a cap of 1, 2 builds, 2 days, 2 crashes | 682 000 | ToldOnce, TicketStays, BudgetHolds, HarvestHasItsFiles, EveryBuildIsTold |
| `app_turns` | 2 launches, a ceiling of 1 record, any two of a lost post, a line not posted, a ledger that fails, a restart, a press of stop, an end | 9 341 000 | OneWriter, NeverOvercharged, CeilingHolds, EveryTurnIsTold, ClaimComesBack |
| `publishing` | 2 sessions, 2 presses, turns up to the third, 1 fault | 1 276 000 | LiveIsServed, LiveIsWhole, RevertReachesBack, ClaimIsReleased |
| `web_client` | pages of 2, backfill pages of 1, windows 1 past their target, 1 post before and 3 after, 1 delete, 1 loss, 2 pages in flight | 4 717 000 | HolesAreMarked, CaughtUpWhenQuiet |
| `inherited_stop` | 2 launches, a ceiling of 2, one trouble | 128 000 | TurnsStartUnasked, violated (section 5) |

Every property of a passing run has a mutant in `PROJECT.json`: a plausible slip in one of the modelled functions with which the same run fails. The type
invariants of all modules are proved (section 4) and are not part of the runs.

**write_lock.** Three tasks are a block, a child spawned in it and a bystander, the smallest group in which a write can land in somebody
else's transaction; two statements make a block that can be half done. The units are used in order of their numbers, which only leaves out renamings.

**delivery.** One request at a time, no flags, no failed page and no restart: of the five ways to lose a message only the first connection of a process is left, so that IsAFeed and Delivered say the most they can. Four events and pages of two give a full page, a short page, an empty page, and a page that overlaps live frames. The connection drops at any moment, twice, with frames in the socket. The run shows the promise of the SDK; `delivery_wall`
shows, with everything that is left out here, that a message is lost in the five ways only.

**delivery_wall.** Two overlapping requests create, edit and delete, with the fan-outs between their steps: the flags that count are read at
different moments by the live path, by the path of deletions and by the pages. Two rows are enough for a gap or a collision of seqs, two handlers for an edit and a
delete of one message that both read it before either writes. All five ways to lose a message occur, and NothingSkipped says that there is no sixth. Given flags, detected flags and the absence of flags all occur with one flag.

**channels.** Two handlers of any verb, people who connect and leave at any time. Three requests are e.g. an invitation, a kick and the deletion of the
channel, each overlapping its neighbour. A person is owner, another one is an admin but no member: the two kinds of right differ.

**wake_lane.** Days of two ticks over five ticks put midnight twice into the run, a cap of one makes the second call of a day a refusal, a retention of four
lets records be pruned while the runner is late, one crash at any step shows a restart. `MaxServed = 2`, below the three wakes, lets the file drop a claim, as the real one does after 500.

**summons.** Two seats that mention each other are the loop the hop wall exists for; caps of one are reached by one chain; two posts of people un-park
between the chains; a budget of two lets a seat answer a person and a bot.

**merge_pipeline.** Two branches and two threads give two merges that overlap at every step, with a budget of one that the second must find spent. Three changes
are one per branch and one more, which a seat pushes under a thread or the keyboard pushes to `main` so that a branch must fold. A PASS is posted before, between or
after any of it. Tier 1 is treated as Tier 0 is for `/merge` and as Tier 2 is for a build's end, so two tiers show all the branches of the code.

**builds.** Two builds of one spec share its slug, its ticket and its unit's name, which is where they can hurt each other. Two days and a cap of one put
midnight between a reservation and its refund, two crashes put a restart into the adoption itself.

**app_turns.** Two launches overlap at every step: a second hand-off while the first is being reaped, or after its turn's end and before its tidying up. Two troubles show e.g. a stop
pressed against a lost post, a session ended and the broker restarted, or a post lost twice. A ceiling of one record makes any record that is forgotten one too many.

**publishing.** Two presses from two sessions are the least number in which units or claims meet: two publishes, a publish and a revert, two reverts. The third turn renews the preview while they copy it.
One fault is a rename or a removal that fails (a removal at once or half way, and the rename back together with the one it undoes, since they fail for one reason), a unit that is killed, a systemd that does not answer, or a server that dies.

**web_client.** Pages of two show a page with a hole of its own (a deleted message), a page that meets the list and one that does not; backfill pages of one make a resync of two posts several pages. `TwoInFlight` lets the reader have two pages in flight, or one beside the resync's. The delete hits an edge of a piece or of a page
in flight, or empties the list before a window falls into it; the loss comes before, in or after any fetch. Without the exception for a live frame, a second first load (`Doubled`) or a window into an emptied list (`Unreached`) HolesAreMarked fails in this run. What takes a larger instance was run outside the project, and holds there too:
an overtaken backfill (`Overtaken`; `Page = 1`, `MaxAsked = 1` without the constraint, 2 379 000 states), and a seam that outlives the message below it (`survives`, which compares by order; `Page = 1, BackPage = 2, History = 3, MaxPosts = 5, MaxAsked = 1`, 1 266 000 states). In both the properties fail when that exception is dropped,
or `RecomputeGaps` keeps only seams whose message is there. `Crossed` needs seven messages, three of them deleted, with windows of 3 past their target: it is out of TLC's reach as an instance, and the proofs are what says that it is needed and that nothing else is.

Deadlock is checked in `write_lock`, whose behaviours never end. The other runs bound the number of posts, requests, calls or events, and stop when they are
used up and everybody is idle: they say `CHECK_DEADLOCK FALSE`.

### Fairness, and why the code justifies it

* `WriteLock!FairLockSpec`: weak fairness of each task's own step once it is queued or holds the lock. The event loop runs every task that
  can run, and the bodies of blocks are a few statements. Nothing is fair about starting a unit, spawning, failing or crashing.
* `Delivery!FairSpec`: weak fairness of a handler's steps (the same event loop) and of the client's loop: `events()` reconnects for ever
  with a backoff of 30 s and its jitter at most. A drop is never fair, and drops are bounded: a link that always drops before a page is
  through would indeed deliver nothing.
* `WakeLane!FairLaneSpec`: weak fairness of the runner's loop, and of its restart: its unit has `Restart=on-failure`. Time and calls are not fair.
* `Builds!Spec`: weak fairness of each thread of the broker, whose calls have timeouts and whose reaper has a deadline, and of the restart with its adoption (`Restart=on-failure`). The unit
  itself is not fair: that a build that hangs is told comes from the deadline. Crashes are bounded.
* `Publishing!FairSpec`: weak fairness of a press of Live once it has begun: a unit has `RuntimeMaxSec`, and the server goes on with a request whose helper has returned. Turns,
  sessions, faults are not fair.

## 4. What is proved

The theorems hold for all values of the constants allowed by the named assumptions (`DeliveryAssumption`, ...), which say no more than that sets are
what they are used as, that bounds are numbers and that a "nobody" is not a member.

**ServerProofs, the write lock** (any number of tasks, units and statements). `LockInv` is LockTypeOK, AllOrNothing and four parts that make it inductive:

* HolderInv: exactly the holder is in the part of the code that is under the lock;
* UnitInv: a unit under way belongs to one task, and has issued nothing before its turn;
* ContextInv: only the holder's block can be live, and nobody has inherited a block whose body has not begun;
* PendingInv: all that is uncommitted, strays aside, belongs to the holder, and all of the holder's is there.

AllOrNothing alone is not inductive: nothing in it says that the writes a commit publishes are those of the task that commits. With PendingInv a
COMMIT moves exactly the holder's statements. `UnitsAreAtomic`, `CommitsAreOwn` and `InheritanceEnds` follow.

**DeliveryProofs** (any handlers, actors, flags, rows, drops, failures, restarts). First the handlers alone: `IInv` says that the handler that holds `writer` has read the current maximum of the seqs, that the flags a job carries cover its text, that only the creator of a row
announces it as new and has not done so while it is still to, and that a row's author and seq never change. `DeletesAreFinal`, whose property DeleteIsFinal is not spent a run on, follows. Then the path: `PathRunsTheHandlers` is the refinement
of the handlers by the whole path, which carries over `SeqsAreGapless`, `FlagsComeWithTheText` and `MessagesAreAnnouncedOnce`. The privacy wall needs one thing more: the event of a fan-out has at least the flags of its text, or is a deletion
and has no text (`FlightInv`), so that flags read later or earlier than the text do no harm. `HiddenTextNeverReachesABot`.

**DeliveryProofs, the client** (any number of messages, any page size, any server). `Client!IInv` adds to the two properties that a backfill asks for what lies beyond the cursor,
and that the rest of a page is beyond the cursor and in order, so each item handed over extends `yielded` upwards. `HandedOverInOrder`,
`CursorIsNeverBehind`, `CursorNeverGoesBack`. These are about the arbitrary server of BotClient; `PathRunsTheClient` shows that the real one, hub and pages included, is such a server: what it sends are frames of rows, and its pages
ascend. So all of them hold of the path.

**DeliveryProofs, the feed** (any handlers, flags, pages, drops, failures, restarts). `NothingIsSkipped` and the refinement `PathIsAFeed` (of OrderedFeed) say that the client passes over nothing but what is deleted, hidden or in `lost`. Since `lost` is
filled only where one of the five causes happens, with only the messages it can cost, the theorems say that the code has no sixth way to lose a message.
The invariant `FeedInv` follows a message through the path: it is handed over, gone or lost, or it is beyond the cursor (`Coming`): the link is down or a backfill that has not read so far is still to ask for it, it is in the page in hand, or it is on its way, in a handler or on the wire (`Kept`).
What is on its way is not overtaken: no frame comes before the create of a message that is not lost, on the wire (`WireInv`) or in the handlers (`TellInv`), and a create that the filter will stop is of a message that is hidden or lost (`HiddenInv`). `SeenInv` and `ToldInv` say that
what the client holds is of rows that exist, and that a handler tells of one message at a time. `FeedInvariance`.

**ServerProofs, the channels** (any people, bots, requests, posts). `IInv` is TypeOK, NoOrphanRows and HandlerInv: whom a fan-out has found to be a member, or listed for an unasked send,
or sent to already, is entitled. `WallHolds` (nothing is sent to one who never was entitled), `DeletionIsClean`, `ReadStateAscends`. One lemma per
group of actions; `OthersKeep` says once that a handler that does not move keeps its part, since entitlement only grows. `NobodyIsForgotten` (MembersHear) adds `HearInv`: within a
fan-out, everyone who is still owed the event has it, is being asked or sent to, or is in the list yet to come; `owed` only shrinks, so the lists, taken after the commit, cover it.

**BrokerProofs, the wake lane** (any wakes, days, caps, crashes). DailyCapHolds needs that the count under the lock is of a spool from which nothing of the day has been pruned, hence the assumption that
`Retention` exceeds a day and the longest wait for the lock (`CapInv`). ServedOnce and OneEnding (`WakesRunOnce`, `WakesEndOnce`) need no bound on the wakes: `EndingInv` says that a claim is in the file, or its save failed (`unsaved`), or later claims have pushed it out (`Dropped`), so that a
wake the runner does not know of was never touched or is `forgotten`.

**SummonsProofs** (any number of seats, any caps, any posts). `IInv` is TypeOK with PlaceInv, BudgetInv, WallInv and HopsInv: what the ledger and the budget files hold is what
was granted on their dates, so the hops granted since the last look of a person are at most `HopCap`, and each look adds at most one more
`HopCap`. `LooksPayForHops`, `DayHasItsCeiling`, `BudgetIsKept`.
`BotsDoNotFeedThemselves` needs a counting argument (EarnInv): each session started by a bot's post is a distinct pair of a seat and a post of a bot that mentions it;
a post of a bot that keeps its mentions is the reply of a session that a person started or a granted hop paid for; it mentions at most all other seats. Hence
sessions of bots are at most (N - 1) times the sessions people started plus the hops granted.

**BrokerProofs, publishing** (any sessions, presses, turns, faults). A unit's name is its mode and its app, so at most one publish and one revert move directories (`UnitsAreAlone`). What is served is then at `live`, at `live.prev` of the publish
that moved it aside, or in the swap of the revert that holds it (`SomethingIsServed`), unless a unit was killed there or could not put it back (`dark`): `AppsStayServed`. When a publish and a revert never met there is one unit at most, and how far it is says where
each tree must be (`Exact`); `told` is what the outcome of the last operation says is at `live` and `live.prev`, its failures, half removals and kills included: `RevertFindsTheTreeBefore`. And a tree is whole unless one of the four things that can tear it happened (`late`, `blind`, `overlap`, `half`): from the question about running turns
to the end of the copy no turn renews the preview (`Whole`): `ServedTreesAreWhole`.

**MergePipelineProofs** (any branches, threads, tiers, budget, pushes, restarts). The pipeline gates and classifies a branch by its name, so what the gates saw need not be what was pinned. `IInv` is therefore
conditional: at each place, what a thread believes of main, its branch, the gates and its PASS (`ThreadsKnow`) holds as long as the branch is where it was pinned. A ref never goes back (`RefsAscend`), so when the second look finds the branch at the pin,
it was there all along and the condition can be dropped. `History` says that the commits are closed under reachability, `PassesSaw` that a PASS newer than a tip's date saw that tip unless it was pushed late, `OneMerges` and `Counted` that under
the lock one self-merge at most has landed without a line. TypeOK says here that the book-keeping is exact, one claim per working thread and the lock while one merges, and needs a small invariant of its own beside `IInv` (`ClaimInv`; `PipelineTypeCorrect`). `Counted` also counts the merges that a ledger nobody could read let through (`blind`). `UnaskedMergesAreHarmless`, `MergesAreReviewedOrHarmless`, `DayHasItsBudget` follow, and `WhatLandsWasGated` is the refinement of GatedMain, safety only as its Spec is.

**BuildsProofs** (any specs, cap, builds, days, crashes). Everything is keyed by the slug: the claim in memory, the ticket on disk, the unit. `TicketInv` says when a name can be trusted: a build that was neither robbed nor refunded, and is between its
reservation and its end, holds its slug alone and has its ticket; `AdoptInv`, that while the broker adopts nothing else runs, and a slug not looked at yet has no thread. TicketStays is not inductive without the two, since a restart forgets the claims
and rebuilds them from the tickets. `ToldInv` bounds the narrations of a build by one and the crashes between a narration and the removal of its ticket, `FilesInv` says that whoever will read the files has them, and so will whoever finds the ticket.
BudgetHolds needs the count against the slots *taken* (`CountInv`), not against the builds audited, and that a count of another day goes with no build of today under way (`DaysInv`).
`BuildsAreToldOnce`, `BuildsKeepTheirTickets`, `BuildsStayInBudget`, `HarvestsHaveTheirFiles`.

**AppTurnsProofs** (any ceiling, launches, troubles). `IInv` has ten parts. `Typed`, `ShapeInv` (what each place says of a launch's record) and `DiskInv` (what is on disk or runs was left by a launch that began, under its turn number) are the ground. `ClaimInv`: the app is
claimed by exactly the launch that is past its claim. `KeepsInv`: a turn that runs, as far as its reaper knows, has its ticket, and `TodoInv`: a ticket an adoption has still to look at has no thread. With these `WriterInv` is inductive: a unit that works is
watched by the launch that claims the app, or waits for an adoption, and there is one such unit. `MeterInv`: the charged turns are those whose record was written, and each has been charged once. `TellInv`: a turn the room was told of and not told the end of is the one the session runs, and
an ended session carries the stop that lets its end through the gate; a turn whose terminal event was committed is heard of, or its line was the one the server failed to post (`unsaid`). `CountInv`: as long as no call crossed another, one launch at most has a cost that may still reach the ledger, and a launch about to claim that saw every other launch end knew all that was spent.
`OneTurnWrites`, `TurnsAreChargedOnce`, `TurnsStayUnderTheCeiling`, `TurnsAreToldToTheEnd`, `TheAppComesBack`.

Looking for this invariant corrected the model: the properties held in the run only because it has two launches. With three or four, (a) two calls can resolve the same late ticket, and its record is logged for one and missed by the other; (b) a call that logged another
turn's record and died before it removed the ticket lets the next broker log that turn again; (c) a refusal at the ceiling, posted under the number of the running turn, makes the session look idle, so that its end leaves no stop and the turn's end is refused with 410.
The code does all three; `crossed` and `unheard` now record them, and the guard of the ceiling reads the marked tickets of the call's own view.

**WebClientProofs** (any page sizes and lengths of the channel, any deletes and losses, any number of pages in flight). `IInv` says where a hole may begin and end. It begins at a message of the list or at the edge of a scrollback or fill in flight, whose message a delete may have taken since (`Anchors`); it ends at one of
these, or where a backfill in flight goes on (`Tops`). `Seamed`: from where a hole begins up to what is missing in it there is a seam. `Bottom`: a message of the list is below what is missing under a top when the start was reached. `SeamsAreInside`: a seam has messages on both sides.
`PageInv` says what of a served page is still true when it arrives: it is whole between its ends and up to its edge (posts are newer and deletes only take away), and down to the start when it is short. For the resync, `TailComes`: what is missing above the whole list has a frame under way,
or there is no socket, or a fetch in flight that brings it; `LostIsAbove`: what is owed lies above something held, so that a seam or the tail accounts for it. The lemma most cases rest on is `SeamAround`: around anything missing there are two ends of the list and a seam between them;
`PiecesStay` carries it over steps that delete. `NoHoleIsUnmarked`, `ResyncCatchesUp`.

Looking for this invariant corrected the model, too. `severed` asked before whether a step took *some* end of a piece, and so excepted harmless deletes; and four exceptions were missing that larger instances need: the overtaken backfill, the window into an emptied list, the second first load, and the seam
that is tied below the deleted edge of a page in flight (`Crossed`, section 5), which takes a list of seven messages with three deletes and was found by the case of the proof that failed.

**Model-checked only.** Liveness (WaitersAreServed, Delivered, EveryWakeIsTaken, EveryBuildIsTold, ClaimIsReleased): the proof system does not
treat fairness and ENABLED. Facts that
need induction over data are out of reach of the provers used; no module uses a RECURSIVE operator.

## 5. Where the code and its words disagree

With a run that exhibits it:

1. *A stop that the next turn inherits* (`inherited_stop`, `server/app/routers/apps.py:933`). A turn that halts before its scaffold is posted as a `scoped` event with its halt, and `_running_turn` asks for a terminal event *after* the last
   scoped one: the halted turn counts as running until the next begins. A stop pressed then is accepted, stays on the row, and stops the next turn, against "409 when no turn is running" (`apps.py:1269`) and "the next turn of this session
   starts unasked" (`apps.py:1536`). With `>=` in place of `>` the run passes.

Found in the same way, with the definition that shows it in the module; add it to the configuration named to see the trace:

2. *A failed autocommit statement leaves its transaction open* (`server/app/db.py:182`; `INVARIANT BeginFindsNoTransaction` in `MCWriteLock.cfg`). `execute()` has no rollback: when its statement raises, the
   implicit transaction stays open after the lock is released, and each following `transaction()` fails at BEGIN IMMEDIATE until an autocommit
   write succeeds.
3. *An overtaken message is lost* (`sdk/disjorn_sdk/client.py:557`; two handlers in `MCDelivery.cfg` and `Overtaken(h, e.seq)` dropped from `SendToBot`, NothingSkipped). Two fan-outs overlap, the later message arrives first and moves the cursor, the earlier one is dropped as
   "already delivered by a backfill pass".
4. *A hidden message ends the backfill* (`sdk/disjorn_sdk/client.py:547`; one flag, four rows and five events in `MCDelivery.cfg` with `lost` left alone in `FetchPage`, NothingSkipped). The server filters after LIMIT, the client takes the short page for the last one, and the next live
   frame moves the cursor past the rest.
5. *A reader who was kicked comes back* (`server/app/routers/channels.py:877`; `PROPERTY PrivateRowsAreGiven` in `MCChannels.cfg`). `mark_read` checks membership before it waits for the lock, and its upsert restores the row of a private channel.
6. *A PASS need not have seen what it lets through* (`harness/broker/PROTOCOL.md:547`; `INVARIANT PassSawTheTree` in `MCMergePipeline.cfg`). What makes a PASS stale is the commit time of the tip, so a commit dated before the PASS and pushed
   after it is covered by it; the same holds of a fold whose merge was made before the PASS and pushed after. ReviewedOrHarmless excepts just these (`late`).
7. *A running build without a ticket* (`harness/broker/brokerd.py:790`; `INVARIANT RunningBuildsHaveTickets` in `MCBuilds.cfg`). The reaper of a build that the preflight refused gives the slug back before it removes ticket and claim by the
   slug's name; a build that took the slug in between loses both, and a broker that restarts does not know of it.
8. *A hole without a seam* (`client/src/stores/messages.ts:162`; `INVARIANT NoSilentHole` in `MCWebClient.cfg`). A live frame is inserted above the list whatever lies between: a post whose frame comes later, or was missed while the socket was
   away, is under no seam, against "seq values whose successor in `list` is NOT known to be adjacent" (`messages.ts:16`). HolesAreMarked excepts these (`jumped`). `Doubled` and `Crossed` of the list
   below are two other ways.
9. *A backfill that never ends* (`client/src/stores/messages.ts:242`; `FairSpec`, `PROPERTY TailIsReached` and `MaxPosts = 3` in `MCWebClient.cfg`). A full page of tombstones above the list leaves `lastSeq` where it was, and the same page is asked for again, for ever,
   against "use the page's own max seq to guarantee forward progress" (`messages.ts:241`): the guard compares that seq with `fromSeq`, which it is never below. In the program the page has 200 messages, all of them deleted. With `BackPage = 2` and one delete the property holds.

Met while modelling; the models contain these behaviours unless a bullet says otherwise, and no run is spent on them.

*Messages, channels and delivery*

* Overlapping edits of one message: each merges its flags into the row it read, and the later UPDATE overwrites the other's (`messages.py:521-525`, against the
  comments at 27-28 and 519-520, that flags are only ever added). TextIsFlagged still holds: the flags always cover the text written with them.
* An edit that read the row before a delete updates and announces the deleted row (`messages.py:516-525`); two overlapping deletes publish two events (`messages.py:546`).
* A write that joins a block between its COMMIT and the clearing of `active` is part of no transaction anyone ends (`db.py:168` against 218): it is durable with the next commit, or never. InheritedBlockDies bounds when
  this may happen.
* An edit that overlaps another can write older flags over newer ones and so bring a hidden message back to light, which a bot that passed it is never told (`Unhidden`).
* A page of a backfill that fails is left "for the next reconnect", but the live frames that follow move the cursor past it (`client.py:529-533`).
* `seed_seq` says of a restart that "the first *re*connect backfill will cover the gap" (`client.py:403-405`). The first connection is not backfilled (`client.py:462`), and its live frames move the cursor
  past the gap before any reconnect.
* The audience of a deletion is computed before its transaction (`channels.py:715`): who is invited in between loses the channel and is not told.
* Not in the models: two `POST /dms` of one pair can both find no channel and create two (`channels.py:788`); a server that dies between the commit of a message and its publish leaves a row nobody heard of until the next page (`messages.py:324`);
  the presence broadcasts of a last socket that closes and a new one that opens can overtake each other (`ws.py:748`).

*Web client*

* Live frames are ignored until the first page has arrived: "ensureLoaded will fetch them" (`messages.ts:165`). A post that is committed after that page was read and announced before it arrives is neither fetched nor inserted; the next frame jumps over it.
* A channel that was loaded and is empty is not resynced (`messages.ts:319`), so what was posted there while the socket was away stays unseen until a reload, against "the new ready's resync covers them" (`ws.ts:151`). `owed` begins with a list that holds something.
* A live frame between the ready and the backfill raises `lastSeq`, from which the backfill then starts (`ws.ts:355`, `messages.ts:226`): what was missed below it is not fetched.
* A backfill takes its next page from the newest message of the list, not of the page before (`messages.ts:226`), and merges without a look at the seams (`messages.ts:228-239`). A search window or a live frame that has raised the list's last in between makes it skip what
  lies between: a hole without a seam, which nothing fetches (`Overtaken`).
* A list that deletes have emptied keeps `reachedStart`, and a window around a search result that is then merged into it is taken to begin the channel (`messages.ts:258-264`): scrollback stops there (`Unreached`).
* Nothing keeps two first loads of a channel apart (`messages.ts:188`), and two whose pages do not meet are merged without a seam (`Doubled`).
* `recomputeGaps` ties a seam to the message below the hole as the list now has it (`messages.ts:63-67`). When the edge of a scrollback page in flight was deleted, a window that arrives meanwhile can tie the seam above that edge to a message below it; the scrollback page then fills
  in between, and what was above its edge is under no seam (`Crossed`).
* The first ready resyncs nothing (`ws.ts:249`): a post between the first page and that ready is missed.
* When all of a piece of the list is deleted, its seam goes with it or stands for nothing, and `fetchOlder` recomputes none (`severed`).
* Not in the models: a page that arrives after `dropChannel` caches again what the tab may no longer read (`messages.ts:150`); a page read before an edit or a delete and merged after it brings the older text, or the message, back (the merge of a page over a delete is in the model, and what the list then holds is no hole).
* Not in the models: a page of the resync that fails while the socket lives; nothing asks again before the next reconnect (`ws.ts:359`).

*Residents*

* A batch of the wake runner reads the clock once (`wake.py:596`). A due record that waited behind another session can start after its window, when the broker's `_active_wake`
  (`broker_wake.py:371-381`) takes the seat for not woken and the rule that a review needs another owner is not applied, against the promise of `harness/broker/PROTOCOL.md:860-863` that the imprecision is on the safe side. It shows with
  `Wakes = {1, 2}, Day = 5, Cap = 2, Grace = 1, Retention = 7, DailyCap = 2`.
* `report_missed` claims a wake before it posts it (`wake.py:608`), and writes no accounting line: a crash or a failed send leaves no trace, against "There is no path that ends quietly" (`wake.py:27-30`).
* A claim whose save failed is forgotten by a restart, and so is one that 500 newer ones have pushed out of the file while its record is still in the spool, and all of them when the file cannot be read, which `_load` takes for an empty one (`wake.py:250`): the wake is run again, against
  "A wake is one session" (`wake.py:266-271`). ServedOnce and OneEnding except exactly these wakes (`forgotten`).
* The adapter saves its cursor after a post is dispatched, and backfilled posts never summon: a crash in a session loses the summon without a word (`adapter.py:152`).

*Builds*

* A slot that is refunded after midnight is given back to the new day, whose cap is then exceeded by one (`misrefunds`); a build whose audit line a crash took is not counted after the restart. BudgetHolds excepts just these.
* A ticket that cannot be read is garbage to a broker that comes back (`broker_build.py:902`), though its unit may run: nobody reaps or narrates that build, and its slug is free. A sidecar directory that cannot be listed (886) leaves all tickets for the next restart, and a reaper that raises before it has
  told (968) leaves its own. EveryBuildIsTold ends where a build is `left` or `kept` in this way.
* A ledger of merges that cannot be read counts no merge (`broker_merge.py:625`), and the day's budget is then no bound. BudgetHolds of MergePipeline counts these (`blind`) beside those whose line a crash took (`unledgered`).

*App turns*

* The reaper releases the app before it removes its ticket (`broker_apps.py:853`): the next turn may find it, and `Undo` or a crash in between can remove or leave a ticket of another call. Two calls that read the session before either turn is counted share a turn number.
* `end_session` says that a turn that runs is asked to stop (`apps.py:1235`). Between the launch and its `scoped` event no turn counts as running: the session ends without a stop, the turn goes on, and its posts are refused with 410.
* The ledger of tokens is written and read under `except OSError` (`broker_apps.py:384-387`, `408`): a line that could not be written, or a ledger that could not be read, counts for nothing, and a turn may be launched over the ceiling. CeilingHolds excepts launches on such a view (`crossed`).
* A post that fails with anything but a VerbError is not tried a second time (`broker_apps.py:366-370`), against the retry its neighbours get.
* The line that tells the room follows the commit of the terminal event (`apps.py:1545-1555`): when it fails the post has landed, and nobody says it again (`unsaid`).
* A terminal post that is lost twice leaves the stop it should have consumed on the row, for the next turn.
* A refusal at the ceiling is itself posted as an event, which ends the turn that another call is running as far as `_running_turn` can see.
* `create_session` looks for an open session before its transaction (`apps.py:1067`): two requests open two, and the quota check has the same shape. Two sessions of one app are in Publishing.

*Publishing*

* A server that dies while it waits for the helper leaves `live_publishing_at` on the session, and each later press is refused; migration 014 says "an admin clears with one UPDATE". ClaimIsReleased excepts just this.
* A publish and a revert have different unit names and can interleave: a deploy is lost, or a tree is left in `.staging` (`overlap`). Two sessions that publish one after the other without a turn in between make `live.prev` a copy of `live`, which migration 014 gives as the harm that the
  claim prevents; it is what a serial second press does too, and RevertReachesBack takes it for what the owner asked.
* A publish whose removal of `live.prev` raises half way (`disjorn-apps-launch:936-937`, an `rmtree`), or that is killed there, leaves half of it, which Revert would serve (`half`). `told` says so, and no other path leads there.
* When the rename that puts back what was live fails like the one it undoes (`disjorn-apps-launch:945`, `976`), nothing is served until the next press (`dark`).
* "Each of them is made again by the seat inside the unit" (`disjorn-apps-launch:1144`) is not true of the check for a running turn: a turn that starts after the question renews the preview under the copy (`late`).
* Not in the models: `share_app` writes the visibility of a row it read before, and can so narrow what another request has widened, against "SHARING NEVER NARROWS".

## 6. What is not modelled, and why

Within the modelled components: attachments, emotion, search, slash dispatch and text commands of a message (data of a row, or output after the commit); `reply_mode` and
listings of a channel; identity checks of a wake call, the gatehouse snapshots, accounting lines and text of the wakes; pattern triggers, digests and the own-posts ledger of the adapter; the
wording of refusals, the mirror refresh and the wall on writes of broker_merge (`broker_merge.py:968-1409`); the parse of a build's report; what a turn commits, scans and quarantines; remix, share, grants, quota and menu of the apps; edits, revoked membership
and the other stores of the web client. Reads take no lock, so a handler may read
what another's open block has written and may yet roll back: the models see the writes of a block at its last statement, and do not contain such a read.

A crash of the server is an action of WriteLock and Publishing, and not of Delivery: there it looks like a drop of all links. A multi-channel client is not modelled:
its channels share nothing but the link. A gate run is one step of MergePipeline: it works on a clone made at one moment, and what moves afterwards is the business of the second looks.

Not modelled at all: pure input and output, text and layout, single-row requests without an interleaving, batch programs over files, shell around podman and systemd, the
cryptography of sessions and grants. The table in section 1 says which component is in which class.

## 7. Plan

In this order; each item is a module with its `MC` module, a run, and proofs where they are named.

1. **Presence** (`ws.py`): sockets, recheck of sessions, presence broadcasts that overtake each other. **Direct messages** with their look-up and insert.
2. **Remix, share and quota** of apps, beside Publishing.
3. **WebClient** composed with MessageStore and the hub, with edits and revoked membership. A crash of the server in Delivery.
4. Composition of WakeLane with the review rule of builds (the late wake of section 5), and of Builds with MergePipeline (a build's end asks for the merge).
5. The wall on writes of broker_merge, and approval cards.
