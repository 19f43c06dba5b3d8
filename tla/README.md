# Zupersync: models, checks and proofs

Zupersync keeps **Tuper** (a field-service application) in step with **Zuper**, the system of record. It receives
webhooks from both, re-reads Zuper and writes Tuper through Tuper's API, and, when pushing is on, sends changes made
in Tuper back to Zuper. Its own PostgreSQL store holds deliveries, a queue of changes, settings, commands and logs.
This directory holds TLA+ models of that program, the TLC runs that check them and the TLAPS proofs about them.
Paths below are relative to the repository's root; `src/` holds the service's own source.

## Inventory

| Part | State it keeps | Operations | What is hard |
|---|---|---|---|
| Per-key turns, `src/processor.ts` `oneAtATime`, `whenIdle` | `chains`, an in-memory map from key to the last promise | call, settle, forget, wait | the entry must lead to every call that is not over, and go away when none is |
| Zuper receiver, `src/receiver.ts` | `sync.webhook_events` | store, answer 200, process after the answer | deliveries lost, late, repeated; storing may fail; inbound may be off |
| Delivery processing, `src/processor.ts` `processEvent`, `syncRecord`, `writeOne`, `flagDeleted` | Tuper's rows, `jms.zuper_sync_map` | read Zuper, write, map, later passes, mark deleted, record the outcome | overlapping runs, several passes with reads of their own, errors half way, records unknown on both sides |
| Replay, `src/reconcile.ts`, `processPending` | attempts and outcome on each delivery | a tick takes a batch of unfinished deliveries | overlaps the webhook's own run; cap on attempts; restart |
| Tuper receiver, `src/receiver-tuper.ts` | `sync.outbox` | turn a verified change into a queued row | nothing replays it; nothing is queued while pushing is off, and a change that cannot be queued is lost |
| Pusher, `src/pusher.ts`, `src/pusher-customers.ts` | `sync.outbox` status, attempts, `next_try_at` | select, group, claim, plan, send, verify, link, mark | two runners at once, leases, answers that never come, Zuper's 200 that means nothing, inbound sync in between, rows that are only planned in the way of those that are sent |
| Number collisions, `record-numbers.ts` | numbers of Tuper's own records | move a number aside and retry | two movers |
| Sweep, `src/sweep.ts`, `src/sweep-records.ts` | `synced_at` per mapping | find drift, re-sync up to a budget | stale list rows, clocks, cap |
| Collections, `src/collections.ts`; note hosts, `processor.ts` `syncHostNotes` | list-only records; notes of a record | one list pass at a time; removal by absence | coalescing, partial lists, a list that shifts while it is read |
| Settings, `src/settings.ts` | `sync.settings`, what is applied, `sync.engine` | load, apply, heartbeat | loads of one container overlap; two containers; restarts; a first start on an empty store |
| Commands, `src/commands.ts` | `sync.commands` | expire, claim, run, record the outcome | two containers; a crash or a failing query between claim and outcome |
| Call log, `src/api-log.ts`; write log, `src/tuper-writes.ts` | a buffer in memory | record, flush, purge | buffer at its cap, flush in flight at exit |
| Routes, `src/routes.ts` | none | from an event to what is done about it | a part that went taken for the record |
| Importer, `src/lib/migration/zuper-sync.ts` | Tuper's rows, uid maps in memory and in Tuper, what one run shares | walk a list, write a record, make what it names, keep the rows that hang off it | records side by side, answers nobody reads or hears, delete-then-insert, pages that fail, runs stopped half way |
| List-contract helpers | none | write a row, a thread, a checklist | data shape rather than control |
| Dashboard, `dashboard/` | the form a person has open; `sync.settings_history` | refresh, edit, save the settings; ask for a command | two people; a page that refreshes under unsaved edits; a save that fails |

How they interact: receivers and timers all live in one Node process and meet at awaits; the per-record turn of
`oneAtATime` is what separates them. Between processes (two containers are alive during a deploy) only the store
separates them: the claim on outbox rows and on commands. The dashboard never calls the engine: it writes versions of
the settings and commands, the engine polls for both and reports back what it applied. The inbound sync of a record
calls the pusher first (`setBeforeInbound`), and the handling of job webhooks waits for the pusher's create
(`JOB_CREATE_LOCK`).

What makes each part correct, with the property that says so where a run checks it:

- Turns: calls under a key run one at a time, in order (`InTurn`, `TurnsAreTaken`), none is lost or left waiting
  (`NothingForgotten`, `EveryTurnComes`), a wait covers the calls before it (`IdleCoversEarlier`), and the map empties
  itself (`EntriesAreDropped`).
- Receiver, processing, replay: the copy is always a version Zuper had and never goes back (`FollowsZuper`); a closed
  delivery was applied (`ClosedMeansApplied`); a deletion by Zuper, and only one, stays (`DeletedStaysDeleted`,
  `DeletedByZuper`); no second row (`OneRow`); nothing verified is left undecided (`EveryDeliverySettles`).
- Tuper receiver and pusher: one runner per row (`OneRunner`), finished rows stay finished (`OverIsOver`), no value of a
  field that is compared is sent twice (`NoRepeat`) and none is put back over a newer one (`NeverResurrects`), sent means
  taken where the field is read back (`SentWasTaken`), one record per create (`MadeOnce`, `NoTwin`), every change settles
  that is not crowded out (`EveryChangeSettles`).
- Settings: every container comes to run by the last version and says so (`SettingsSettle`).
- Dashboard: no save undoes another person's, and the history is one chain (`SavesStand`).
- Commands: run once at most (`RunAtMostOnce`), and taken or expired in the end (`AsksMet`).
- Sweep: what Zuper holds comes to be what Tuper holds, webhooks lost or not (`EveryChangeArrives`).
- Collections: an ask is answered by a pass begun after it, which leaves just the list's rows (`AsksMet`).
- Note hosts: the notes come to be Zuper's, and none it lists is flagged (`NotesFollow`).
- Deliveries and routes: one closed without a word is done in every record it names (`ClosedIsDone`), a record is marked
  deleted only when Zuper has none (`DeletedIsGone`).
- Importer: no record and no item gets a second row, but where an answer went unread or unheard, and what is written is
  linked to no other row than the mapped one (`NoSecondRow`), every pass and walk ends (`WorkEnds`), no record of a list
  that only grows is missed (`NothingMissed`), child rows come to be Zuper's list (`ListFollows`), the newest record
  decides what a field is, unless records cross (`NewestDecides`).
- Number collisions: a record in Zuper comes to hold Zuper's number (`EveryNumberArrives`), and no two rows the same.
- Call log: every row is stored, in memory, or counted as dropped (`Accounted`).

## Modules

| Module | What it is | Composes |
|---|---|---|
| `Turns` | abstract: under one key calls run one after another in the order made | |
| `Chains` | `oneAtATime` and `whenIdle`, promise by promise | implements `Turns` |
| `ChainsProofs` | TLAPS proofs about `Chains` | |
| `Mirror` | abstract: Tuper's copy is a version Zuper had and only moves forward | |
| `Inbox` | receiver, processing, replay: Zuper to Tuper | implements `Mirror`; takes the turn `Chains` provides |
| `InboxProofs` | TLAPS proofs about `Inbox`: types, the refinement of `Mirror`, what a closed delivery means, one row, deletions | |
| `Outbox` | Tuper's receiver, the queue, the pusher and the inbound flush: Tuper to Zuper | takes turns as `Chains` provides them |
| `OutboxProofs` | TLAPS proofs about `Outbox`: types, one runner, what is over stays over, what is sent was taken, and what Zuper's records never get twice or get back | |
| `Settings` | the engine's side of the settings: load, apply, report | follows what `Dashboard` saves, there one step |
| `Dashboard` | the form and the transaction that saves it | |
| `DashboardProofs` | TLAPS proofs about `Dashboard` | |
| `Commands` | the queue, from asking to outcome | its handlers replay-failed and discard-unsent are actions of `Inbox` and `Outbox` |
| `CommandsProofs` | TLAPS proofs about `Commands` | |
| `Collections` | list passes, coalesced; removal by absence | |
| `Sweep` | the timed pass that finds what webhooks did not bring | writes records in the turns of `Chains` |
| `ApiLog` | the buffers of the call log and the write log | |
| `MCService` | `Settings` to `ApiLog` in one run | |
| `ServiceProofs` | TLAPS proofs about `ApiLog`, and about the form as `MCService` has it | rests on `DashboardProofs` |
| `Routes` | the table of events and the lookup over it | |
| `Deliveries` | which work a delivery asks for and when it is closed | `Routes` |
| `DeliveriesProofs` | TLAPS proofs about `Deliveries`, over the whole of `Routes` | |
| `NoteHosts` | the notes of one record | in the turns of `Chains` |
| `RecordNumbers` | numbers both systems hand out | |
| `Writers`, `Catalogue` | what the importer writes beside a record's row; its passes | |
| `Import` | one pass over records, and the next | `Catalogue` |
| `ChildRows` | the rows that hang off one record | `Writers` |
| `ZuperLists` | a list walked page by page | |
| `FieldDefinitions` | what kind a custom field is | |
| `MCRecords` | how records come over: the modules from `Routes` on, in one run | |
| `RecordsProofs` | TLAPS proofs about the seven parts of `MCRecords`, each and in one run | rests on `DeliveriesProofs` |

### Chains

Calls are numbered; `calls[i].prior` is the promise call *i* found in the map, `chains[k]` the map's entry (0 when
absent). `OneAtATime` is the synchronous part of the function, `Start` the `.then(fn)`, `Settle` the end of `fn`,
`Forget` the clean-up callback, `WhenIdle`/`Resume` the two halves of `whenIdle`. Resolving and rejecting are one
outcome, because every link is followed by a catch. `seen` is a history field for the property.

### Inbox

A record is the version of it that was read. A row has two parts, `main` and `detail`, because a job is written by a
first pass and then by passes that read Zuper again. An execution of `processEvent` is a `run`: run *n* is the one
`setImmediate` starts for delivery *n*, run 0 the replay's. Its `pc` walks through `Begin` (attempt counted, route),
`Acquire` (the turn), `Fetch`/`FetchGone`, `Write`, `SetMap`, `Enrich`, or `Mark` for a deletion, then `CheckHeld`
after a 404 and `Finish`. `Tick` and `ReplayNext` are `processPending`. What can go wrong is one disjunct each,
switched on by name in `Disturbances` and counted by `disturbed`: a failed read (`fetch`) or write (`write`), a
mapping upsert or read whose error is dropped (`setMap`, `readMap`), an outcome that cannot be recorded (`finish`), a
delivery that cannot be stored (`capture`), a forged one (`unverified`), the inbound switch, the command
replay-failed, a crash.

### Outbox

A record is one field whose values are numbered by the edit that set it, so "older" and "the same again" can be told.
What the pusher does about it depends on which field it is, so records are told apart by it: those in `Compared` have a
field the planner compares with Zuper's before sending it (of a job all but description, customer, organization and
asset, `src/pusher.ts:359-380`), those in `ReadBack` one that `verify` reads after (`src/pusher.ts:582-602`: the start
of a job's schedule, status, title and people); `Listed` are the records of the kinds PUSH_ENTITIES names, the others
are only planned (`Effective`). `zuper[k]` holds, for each record Zuper has made for *k*, everything it has held. An
execution of `pushPending` is a run, named by its container and by the record it flushes or `Tick` for the loop.
`Select` (the oldest rows, `Batch` times `PerRecord` of them, and of those the first `Batch` records: `Chosen`), `Group`
(plan-only filter, create delay, age check), `Claim`, `PlanRow`, `Compare`, `Put`/`Verify` or `Post`/`Link`/`FollowUp`,
`Mark`, `Done` follow the function from top to bottom; the turns `push:<record>` and `JOB_CREATE_LOCK` are guards on the
other runs of the same container. Time is relative: `wait[i]` is `next_try_at` minus now and a run's `age` is how long
ago its batch read the clock, since claims and leases are computed from that reading. `SyncStarts`, `SyncReads`,
`SyncWrites` are the inbound sync with its flush; `Import` is the webhook of a job Zuper has just made. The follow-up of
a create (operation "follow") names only fields that are read back. "unqueued" is a change the Tuper receiver cannot
queue (`src/receiver-tuper.ts:85`, `148-150`). `MaxRows` bounds the rows people add. `config.push.retryFailed` is at its
default, on. A link that cannot be recorded ("unlinked") stands for an upsert that fails and for an answer without a
uid. Kinds without a planner and plans that are blocked end their row in one step and are left out.

### Settings and Dashboard

A settings document gives each field a value or lacks it, as one saved by an older version does; `Normalise` fills
what is lacking. `docs` keeps the document of every version, and its length is the version stored.

`Settings` is the engine: a load is `Read` (the query's snapshot), `Insert` and `FirstHistory` on an empty store, `Apply`,
then `Beat`, the heartbeat. `setInterval` does not wait for the load before, so a container has several loads, and the
older one may be answered last: `Apply` then takes an older version, as the code does, until the next tick.

`Dashboard` is two people with a form each. `Refresh` is the effect that takes a new version in, `Reload` the buttons
"Discard" and "Load version", `EditField` an edit, `Submit` the button, with `version` and the fields as they are then.
`SaveBegins` is `SELECT ... FOR UPDATE` and the comparison of versions, `SaveEnds` the update, the line of history and
the commit, `SaveRollsBack` a failed transaction; `lock` is the row lock.

### Commands

`Look` and `Ask` are the two statements of `requestCommand`, `GrowLate` the ten minutes after which a command expires.
`Wake`, `Expire`, `Claim`, `Run` and `Finish` follow `next()`. What a handler does is one step, which ends well or not.
A container that stops is replaced by one that does nothing yet.

### Collections, Sweep, ApiLog

`Collections` is one list. `Ask` is `syncCollection`, `Join` the three cases of `coalesce`; a pass is `Read`, `WriteRow`
by row, `GoneFromList` and `Finish`, and may fail in between. `removal` is what the list's own pass does with a row no
longer listed. `asked` and `answers` hold how many edits of the list an ask had seen and its pass had read.

`Sweep` is one kind of records. `swept` says how the kind is listed, compared and written; `newer` is the comparison
`updated_at > synced_at`, which a write clears with the time of the write and not of the read. `HookReads` and
`HookWrites` are the webhook path. `crossed` remembers what changed between a read and its write.

`ApiLog` numbers the rows in the order they were recorded: `Record` cuts at the cap, `Flush` takes a batch of one log,
`Insert` and `InsertFails` are its answers (a lost one included), `PutBack` the batch in front of what came since, and
`Terminate`, `TimeUp` the five seconds at SIGTERM.

### Routes and Deliveries

`Routes` has one definition per module of the table, and tells events apart by what they are about, since all of a
module's events of a kind share a rule: what is done about the record, a part kept with it, several records, a removal, a
note, a file, a list. `Deliveries` runs `processEvent` on them: `Skip`, `List`, `Unnamed`, `Notes1`, `Delete1`, `Sync1`,
and `Begin`, `BulkRecord`, `EndBulk` for several uids. `owed` is, per delivery, what its event changed and Tuper does
not show; each read of Zuper settles it for every delivery about that record.

### NoteHosts

The deliveries about one record wait in `queue` in the order of their turns. A pass is `Begin`, `ReadPage` until the
last, `WriteNote` for each note that is new, changed or named, `Flag` for the ones that went, `End`; a failure puts
the delivery back for replay. `missed` is what a page boundary passed over because a note was removed while the list
was read.

### RecordNumbers

`number` is Tuper's column, `theirs` Zuper's. An import is `Begin` (the refused write), `Find` and `Check`
(`releaseNumber`), `Renumber` or `AskNext` and `MoveToNext` (`moveToNext`, in one call where Tuper's sync API allows
it), `Again` (the second write). `ReplayPass` takes the deliveries that failed.

### The importer

`Writers` and `Catalogue` are tables: for each function that makes a row a record only names, and for each that keeps a
list, how it finds, adds and removes; for each pass, what it loads first, what it makes, how many records at once.
`Import` checks every *shape* these tables give: `Look`/`Hit` are the map in memory, `Join`/`Attempt` the attempt
records share (`once`), `Find`/`Make`/`SameName`/`Keep`/`Kept` the making, `Update`/`Insert`/`MapOwn` the record's row,
and `Stop`/`RunAgain` a pass that stopped and the next. `KeptNowhere` and `OwnKeptNowhere` are a mapping the database
refuses, whose answer `setMap` does not read (`src/lib/migration/zuper-sync.ts:176-179`): the pass goes on with the one in
memory. `MadeUnheard` and `InsertUnheard` are an insert that is done though its connection broke
(`src/tuper-client.ts:52-54`). `torn` keeps the uids and records either happened to, or a stop between row and mapping.
`Widths` is what ZUPER_SYNC_CONCURRENCY may be (`4400-4401`): set, it runs a pass wider than its own that was to go record
by record, and makers that share no attempt then work side by side (`lone`).

`ChildRows` checks every *way* of a writer, statement by statement. `deleted` are the files only marked deleted; they
count as there when the file is listed again (`src/lib/migration/zuper-sync.ts:3612-3613`, `3629-3634`). `unknown` are the
listed items whose reference Tuper does not know yet, which the writers pass over (e.g. `428`, `802`). An answer without
the list is taken for an empty one by the writers whose gate is "always". `ZuperLists` is `zuperFilterPages` with its
fall-back to single records, `zuperListPages`, and `loadMap`.

`FieldDefinitions` is `ensureZuperFieldDefinitions` for one field. Each run has `Lanes`, the records of a chunk that are
worked on side by side; a record is `Take` (the check against what the run has met, and the comparison when the
definitions are in memory), `Read` (they are not), `Write` (the awaited update or `ignoreDuplicates` upsert, answered or
not) or `Fails`. `rows[c]` is the copy a run has in memory, `image` what a record under way was compared with, `kept`
whether that is still the run's own copy. `newest`, `unsaid` and `apart` are history for the property: the newest record
met; whether it got to say what it is, and as the newest; whether records came one at a time so far.

## Runs

Parts that share no state are run together, so that one run asks the same kind of question of all of them: `MCService`
and `MCRecords` have a variable `part` that says which is at work, and the others stand still in one of their initial
states. A property of such a run is that of the part it names; its liveness has the form "from some point on",
for the part at work.

Every operator named `...Anyway`, `...Blindly`, `...Quietly` and the like beside a definition is a slip of it: none is
part of a specification; each shows that the property it is paired with notices it.

| Run | Shows | Bounds |
|---|---|---|
| `chains` | turns in order, nothing forgotten, waits cover earlier calls, entries dropped, `Turns` implemented | 2 keys, 4 calls, 1 wait |
| `inbox` | copy follows Zuper, closed means applied, deletions stay, one row, forged deletions ignored | 1 job-like record, 3 versions, 2 deliveries and the replay, 1 disturbance of 5 kinds |
| `inbox_live` | every stored, verified delivery settles: closed, or its attempts used up | 2 versions, 2 deliveries, 1 disturbance: switch, crash, lost mapping, misread mapping, forced replay |
| `outbox` | one runner per row, finished rows stay finished | 2 containers, 1 record, 2 values and 2 rows, modes live, dry-run and off, 1 disturbance of 6 kinds |
| `outbox_create` | made once (unless a human was told the create gave up), no twin | 1 container, a record Zuper does not know, 1 disturbance of 5 kinds |
| `outbox_retry` | no value of a compared field sent twice, none resurrected by retries; sent means taken where it is read back; every change settles that is not crowded out | 1 container, 2 records: one listed, compared and read back, one none of these; batches of one record and one row, 3 values, 2 rows, modes live and dry-run, 2 disturbances of 7 kinds |
| `service` | settings: the last version wins and is reported; form: saves stand; commands: run at most once, taken or expired; list passes: every ask answered; sweep: every change arrives; log: every row accounted for | settings: 2 containers, 2 loads at once in one of them, 2 versions, 1 failed query or restart; form: 2 people, 2 fields, 3 saves; commands: 2 people, 2 containers, 2 asked, 1 failed query or restart; lists: 3 rows, 3 asks, 2 edits, 1 error; sweep: 2 records, window of 2 passes, cap 1, 2 edits, 1 failure; log: 4 rows, buffer 3, batch 2, 2 outages |
| `records` | no second row, what is written is linked, child rows follow, passes and walks end, no record of a list missed, the newest record decides a field, a delivery closed is done, deleted is gone, notes follow, every number arrives | import: 3 records naming 2, chunks of 2, the setting off and on, 2 passes, 1 fault; child rows: 2 items, 2 edits, 2 slips; lists: up to 4 records, page 3, cap 1, 2 tries, 1 made meanwhile; fields: 2 kinds, 2 times and none, 2 runs of which one an event's, 2 records side by side; deliveries: every module whose rules no other has too, 2 records, 2 deliveries, 2 tries, 1 failure; notes: 2 notes, page of 1, 2 edits, 1 error; numbers: 2 records from each system, 1 pushed |

Two deliveries and the replay are enough for every overlap of two runs of one record, and three versions for a stale
read between two newer ones; the proofs below remove the bounds for every safety property of `Inbox`. Two containers
with their loop and flush give four runners of one row. Two records and batches of one are the least in which rows that
are only planned stand before one that is sent. Two attempts are the least with a retry; the lease of two minutes, in
steps of one, the least in which a claim can be seen before and after it ends. Of `service`: a load that overlaps a
newer one needs two loads and two versions; a lost update needs two people and two versions, and the third save lets one
of them save again; two asked commands let each container hold one; three asks are one a pass answers, one that waits
for the next, and one that joins it; two records and a cap of one make the sweep leave work to the next pass; a buffer
of three and batches of two make a batch that is put back meet the cap. Of `records`: two records of a chunk and one of
the next meet in every way over what they share, and the second pass finds what the first left; a page of three over
four records has a full page, a short one and an empty one; a module whose rules another has too can show nothing that
one does not; two deliveries are a bulk and what crosses it; two notes on pages of one are the least in which a page
boundary moves; two records from each system give two imports that move the same or each other's holder; two runs of two
lanes have records cross within a run and between runs, and the second, an event's, reads one record. `NotesFollow` was
also checked once with larger bounds (three notes, pages of two).

Runs that are expected to be violated state what a comment, a message or the README says and show what the code does:

| Run | What the code does |
|---|---|
| `outbox_dropped` | an edit that an inbound sync overwrites before it is queued is skipped as already in Zuper |
| `outbox_second_post` | after an unanswered create the record's next change posts it again |
| `commands_stuck` | a command taken by a container that stops stays started for ever, and cannot be asked for again |
| `bulk_of_one` | a bulk deletion that names one record is re-read, answered 404 and given up, the copy live |

The passing runs leave out exactly the disturbances that break their properties. `OneRunner` and `OverIsOver` hold
while a batch ends within the lease; `NoRepeat` and `NeverResurrects` hold for one loop and its retries, without a
second runner beside it; `MadeOnce` holds with one container. Beyond those bounds the models show weaknesses that no run
keeps. Where a property states it, change the constants as given to see it violated; the others are behaviours of the
models that no property forbids:

- `Inbox`, "setMap" in the disturbances of `inbox`: one mapping upsert whose error nobody reads
  (`src/processor.ts:120`), and the next event about the record inserts it a second time.
- `Inbox`, "readMap" in the disturbances of `inbox`: a map read whose error nobody reads closes a deletion undone.
- `Inbox`, "crash" in those of `inbox`: a crash between a row's insert and its mapping makes a second row.
- `Inbox`, `Recoverable = {u1}`: a late deletion marks a record that was recovered and re-applied since.
- `Inbox`: the attempts of a delivery can go down when its webhook's run and the replay's overlap.
- `Chains`: `whenIdle` waits for the calls made before it, and resumes with a later one still queued
  (`src/processor.ts:301` says "every call in flight").
- `Outbox`, "inbound" in `outbox_retry`: the loop and a flush plan before either sends, and one value is sent twice, or
  an older one last, since claims are per row and plan and send are two turns (`README.md:503-504` says the tick and the
  flush "can never send the same change twice").
- `Outbox`, a listed record without `Compared` in `outbox_retry`, and `NoRepeat` asked of every record: after an answer
  that was lost the next attempt sends the value again. That is what the code does with a job's description, customer,
  organization and asset, where `README.md:511` says of them too "only fields Zuper does not already hold", and
  `src/pusher.ts:26-30` that the next attempt "skips what Zuper already has".
- `Outbox`, a listed record without `ReadBack` there, and `SentWasTaken` asked of every record: an update answered 200
  and ignored is marked sent. That is so of a job's priority, type, prefix, tags, due date, addresses, description,
  customer, organization and asset, and of a customer's description, where `README.md:540-541` says "a 200 that changed
  nothing fails the row" and `src/pusher.ts:32-34` "A 200 is not proof".
- `Outbox`, `EveryChangeSettles` without `Crowded`: a batch is cut to the oldest rows and records
  (`src/pusher.ts:728-741`) before the rows that are only planned are dropped from it (`745`), and in live mode the
  planned ones stay selected. A batch full of rows of a kind that is not live, which nothing takes away but
  discard-unsent, keeps every later change from being sent, where `src/pusher.ts:684-686` says "so a kind of record goes
  live on its own".
- `Outbox`, "unqueued": a change the Tuper receiver cannot queue, or queues under the Tuper id because the map could not
  be read (`src/receiver-tuper.ts:85`), is not sent, and nothing replays it. No property speaks of rows that were
  dropped.
- `Outbox`, "discard" in `outbox_retry`: discard-unsent deletes a row whose push is under way, which goes on and sends
  it; the command answers "Nothing was sent to Zuper" (`src/commands.ts:33`).
- `Outbox`, "switch" to a mode that only plans: a failed row is selected on every tick and filtered out again
  (`src/pusher.ts:745`), so it is not planned again, against the comment at `src/pusher.ts:716-719`.
- `Settings`: for as long as until the next tick, a container may go back to an older version.
- `Settings`: two containers that start on an empty store each write a first line of history (`firsts`), and a container
  that stops between the document and its line writes none.
- `Commands`: two people who ask at once queue a command twice (`dashboard/src/lib/control.ts:98`, against its comment);
  a command that waits behind a long one is run late rather than expired, since expiry is looked at once per tick.
- `Outbox`, two containers in `outbox_create`: each posts the record, one for its create and one for its next change.
- `Outbox`, "slow" in `outbox`: a batch that outlives the lease (`MaxSlow` is its greatest age) loses its rows to
  another runner. "old" in the same run: the age check re-labels a row that was sent meanwhile.
- `Outbox`, "crash" in `outbox_create`: a crash between the `POST` and the link makes a second record.
- `RecordNumbers`, with no `FromZuper` and a `MaxPushed` of 2: two records made in Tuper that get each other's numbers
  from Zuper each hold the other's for good (`EveryNumberArrives`), since a holder that is itself in Zuper is not moved
  (`src/processor.ts:270`), where `README.md:126` says "A work order number Tuper already used is moved, not refused."

What the newer properties leave out, because the code does it:

- `RecordNumbers`: a record that is pushed after an import found it is not in Zuper and before it moves it (`crossed`).
- `NoteHosts`: a note that a page boundary passed over while the list was read is flagged by a deletion without a uid,
  and without one a change made between the read of a note and its write stays unwritten until the next (`astray`).
- `Sweep`: what is compared by time and changed between the read and the write of another writing; a job that left the
  window while a pass failed, was capped or not run (`crossed`, `excused`). A note or customer is written from the row
  the list gave, outside the turn, so a deletion marked meanwhile may be undone.
- `Collections`: rows already marked deleted are counted as missing by every pass, so past a quarter of the list
  nothing is removed any more, where the comment at `src/collections.ts:137` says "one pass behind at worst".
- `ApiLog`: rows a failed batch squeezes out when it is put back at the cap are not counted (`squeezed`).
- `Deliveries`: a bulk delivery whose records failed is closed with a reason and never replayed; a list pass that wrote
  something and failed on the rest is closed without one (`src/processor.ts:587`). `List` writes no record of the model.
- `FieldDefinitions`: the newest record may not decide what a field is, against the comments at
  `src/lib/migration/zuper-sync.ts:1058-1062` and `1106-1107`. Two records of a chunk, or an event beside a pass, both
  find no definition, and the upsert of the second is ignored; both pass the comparison, and the older one's update
  stands; or one is compared with a copy in memory ("kept current here", `1073`) that another run has overtaken. A
  record without a time, or whose call failed, does not decide either, and a newer record that only agrees does not move
  the time kept, so that one between the two may then undo it. The property asks nothing until a newest record is next
  compared with what is stored (`unsaid`), and asks that it always is while records come one at a time (`apart`).
  Tuper's own column type (`field_type`) is set when a definition is added and never after (`1056`, `1100`), and is not
  modelled.
- `Import`: a plain insert is made again by the next pass where a run stopped right after it, where its mapping was
  refused and nobody read that, or where it was done and its answer lost (`torn`); a record whose mapping was refused is
  counted as written. With ZUPER_SYNC_CONCURRENCY set, passes that go record by record run side by side, and makers that
  share no attempt then make a named row twice (`lone`): the properties ask nothing of named rows there.
- `ChildRows`: a file of a record that is taken off its list and put back stays deleted in Tuper; items whose reference
  has not come over are passed over; a writer whose gate is "always" empties its list on an answer that lacks it. All
  three are named in `Follows`, and last until the record is next written with a different answer (the first for good).
- `ZuperLists`: a plain list that grew by a page between two pages is taken for one that repeats itself. Lists only grow
  (`Grow`): a record removed while the list is walked moves those behind it back over a page boundary, one of them is
  not read, and so it is with the map when its rows are deleted while `loadMap` reads them.

Details that are simpler in the models than in the code:

- `NoteHosts.ReadPage` reads every page; the code stops after 50 (`src/processor.ts:408`), and notes beyond that would be
  flagged. Pinned notes, merged from the first page, are notes like others.
- `Inbox.Enrich`: the read and the write of a later pass are one step, within the record's turn. The query of the attempts
  at `src/processor.ts:547` does not fail.
- `Collections.Finish` deletes and unmaps in one step (`src/collections.ts:206-210`); the passes of one list that differ
  in their days or their depth have keys of their own (`293-294`) and are one key.
- `Deliveries.Delete1`: the map is read without an error here (`src/processor.ts:496-499`; `Inbox` has it as "readMap").
- `ApiLog.Flush`: the counter of what was dropped is cleared with the warning; the code clears it (`src/api-log.ts:215`)
  even when the warning is held back as the second of a minute (`222-226`), so a drop may never be said. `Accounted` is
  about the counter and not about the log line.

## Fairness

`Chains`: promise callbacks run (weak fairness of `Start`, `Forget`, `Resume`) and every `fn` ends (`Settle`): the
fetches inside have timeouts. `Inbox`: awaits return, the replay's timer fires, and a run that keeps finding the turn
free gets it (strong fairness of `Acquire`, which the order of turns in `Chains` justifies). `Outbox`: the same, and
minutes pass and Tuper's webhook arrives. `Settings`: a container that runs has its timer fire, and its queries end,
with an answer or an error. `Commands`: the same, and handlers end. `Collections`, `Sweep`, `Import`, `ChildRows`,
`ZuperLists`, `NoteHosts`, `RecordNumbers`: the work under way goes on, the sweep's timer and the replay's fire. Each is
one weak fairness; in `service` and `records` those of the parts are joined, since one part is at work. `Dashboard`,
`ApiLog`, `Deliveries` and `FieldDefinitions` state no liveness. Nothing is assumed
of Zuper, of deliveries, of people or of crashes.

## Proofs

`ChainsProofs`: `Spec => []` of `TypeOK`, `InTurn`, `NothingForgotten` and `IdleCoversEarlier`, and that `Chains`
implements `Turns`. None is inductive alone: the invariant adds that an entry, when present, is the *last* call under
its key, that `prior` is the last call under the key before it, and that a call settles only after its prior.

`InboxProofs`: `Spec => []TypeOK` and `Spec => FollowsZuper`, for any records, deliveries, attempts and disturbances.
The invariant `IInv` says who may be between reading and writing (the holder of the turn, one run per record: `Turn`),
that what a run inside has read is not older than the copy and not newer than Zuper (`Reading`), that between the
write and the mapping the row to be mapped carries that version (`Mapping`), and that nothing is ahead of Zuper
(`NothingAhead`). From it every step is a step of `Mirror` or a stutter. Assumptions: `InboxAssumption` only.

The other safety properties of `Inbox` follow each from `IInv` and one invariant more. Three of
them assume that the disturbances named do not happen; with them the code does break the property (Runs, above).

| Theorem | Invariant it adds | Assumes |
|---|---|---|
| `ClosedApplied`: `ClosedMeansApplied` | `Progress`: how far each run has brought the change it is about, pass by pass | no "setMap" |
| `FlaggedByZuper`: `DeletedByZuper` | `Genuine`: what is processed or waits was verified and Zuper sent it; `Flagged`: a flagged row, or a run about to flag one, has a deletion Zuper sent | |
| `OnlyOneRow`: `OneRow` | `Single`: a row that is not mapped is about to be, by the run that wrote it and holds the turn | no "setMap", no "crash" |
| `DeletedStays`: `DeletedStaysDeleted` | `Laid`: the record is gone for good, no run is about to write it, its row is flagged; `Buried`: a run over its deletion that is about to record success left it so | no "readMap" |

`CommandsProofs`: `RunOnce`, that is `RunAtMostOnce` for any containers, people and commands. The invariant is that a
command in hand is in one container's hands, has no outcome, and before the run has not been run (`Owned`), and that one
that waits has neither (`Fresh`): the claim is one statement that takes only what waits. The least of the waiting ones
exists by well-foundedness of the naturals. Assumption: `CommandsAssumption`.

`DashboardProofs`: `SavedStands`, that is `NothingUndone` and `HistoryIsChain`, for any people and fields. The invariant
is that each form was opened on a stored version, as that version was (`Opened`), and that the one who saves does so over
the version he opened (`Holding`). Assumed: the defaults are a full document, and nobody is called "nobody".

`DeliveriesProofs`: `ClosedDone` and `DeletedGone`, that is `ClosedIsDone` and `DeletedIsGone`, for any records and
deliveries and for *every* module of the table: `Table` shows of each that what is done about an event is of the event's
kind, `RouteFits` the same of the lookup. The invariant says that each delivery that came fits its route (`Fit`), and
that a bulk delivery under way has settled the records it is past or has noted a failure (`Going`). Assumed: a delivery
names finitely many records.

`OutboxProofs` proves eight results about the pusher, for any records, modes, attempts and lease. The first four hold
for any containers and rest each on the one before it; the others say what Zuper's records never get, and are about one
container:

| Theorem | Invariant it adds | Assumes |
|---|---|---|
| `OutboxTyped`: `TypeOK` | `Typed`: what a run has in hand at each point (`Fit`), and that a record once linked stays so, so that what is read of it is there | |
| `SoleRunner`: `OneRunner` | `Leased`: from the moment a batch read the clock to the end of the lease of what it holds there is a whole lease, and `InTime`: the batch is over before; so what is held is due for nobody | no "slow" |
| `OverStaysOver`: `OverIsOver` | `Open`: what a run holds has not ended, since only who holds it ends it; `Young`: nothing in a batch's hands is too old | no "slow", no "old" |
| `SentIsTaken`: `SentWasTaken`, which is about the fields that are read back | `Grounded`: what a run holds is of one record, what it reads back is there, and once it knows that Zuper took the value the record's history has it, since histories only grow (`HistoryGrows`) | |
| `CreatesAreNotImported`: `NoTwin` | `Single`: only what Zuper has was imported, and not the record a run is about to link (`Unlinked`), since imports wait for the creates of their own process | one container |
| `NeverTwiceTheSame`: `NoRepeat`, which is about the fields that are compared | `Fresh`: the loop is alone at work (`Solo`), no value is newer than the last one given (`Aged`), and what a run is about to send of a compared field differs from what Zuper shows (`Differs`) | no "inbound", one container |
| `PushesOnlyForward`: `NeverResurrects` | `Rising`: Tuper's row is the newest value there is (`Rises`), and what a run compares or sends is no older than anything Zuper has held (`Newer`) | no "inbound", no "zuper-edit", one container |
| `CreatesOnce`: `MadeOnce` | `Once`: only the loop makes records, of such as are not linked (`NewOnly`), and a row given up waits until no batch that had selected it is left (`Sealed`); `Counted`: Zuper has at most one record per row given up, and one that is linked, about to be, or about to be given up | `Undisturbed` (no "slow", "old", "discard", "crash"), one container |

With "slow" a batch outlives the lease and with "old" the age check writes on rows selected earlier: both are hazards of
the code, and both properties are false then. What the last four assume away are hazards too: a second container does
not know of the first one's creates, a crash between a create and its link leaves it to be made again (`second_post`
shows the kin of it), a flush beside the loop sends what the loop has just sent, and an edit made in Zuper between the
comparison and the send is written over. `SentIsTaken` and `NeverTwiceTheSame` say nothing of fields the code does not
read back or compare; there the code does otherwise (Runs, above). Least and greatest numbers of a set, which the model
takes of rows and attempts, exist by well-foundedness of the naturals (`Least`, `MinIsOne`, `MaxIsOne`). Assumption:
`OutboxAssumption`.

`ServiceProofs` is about what runs beside the records: five results part by part, and then (`ServiceStands`) that the
specification the runs check has the types of all its parts, `SavesStand`, `RunAtMostOnce` and `Accounted`.

- `LogAccounted`, that is `Accounted`, for any number of rows and any cap and batch. The two buffers and the batch under
  way hold each row once and in the order recorded (`LogTyped`), a row in memory has been stored only by an insert whose
  answer was lost (`StoredOnce`), the rows that are nowhere are at most as many as the counter says, and exactly as many
  while no answer was lost (`Tally`), and a process told to stop has sent the writes it owes before any call (`Paid`).
  Assumed: caps and batches are positive numbers (`Bounds`).
- `SavedStands` is `DashboardProofs`' theorem for the form `MCService` has, whose defaults meet its assumption.
- `StoredIsFollowed`: what a container runs by and what is reported of it is a version that was stored. In this module
  that is what the types say: the invariant `FollowInv` adds that a load in hand is well formed and that the version it
  has read is among the stored ones, which are only added to. That the *last* version wins is liveness (`SettingsSettle`).
  Assumed: the loads are of containers there are (`LoadsOf`).
- `AsksAnswered`: an ask is done only by a pass that read the list after it, and where no call failed such a pass leaves
  just the list's rows, unless it refuses to remove any. `AsksMet` says the same of every ask and adds that it is met in
  the end. The invariant says who waits for which pass (`PassIs`), and that a pass that read the list as it is now read
  all of it and has it written up to what it has still to do (`PassReads`).
- `SweepFinds`: what Tuper does not have as Zuper has it, the next comparison finds (`Behind`), or, in kinds compared by
  time, it was changed between the read and the write of another writing, which is the hazard at `src/processor.ts:122`.
  The invariant is `Seen`, with nothing read, listed or written being newer than the record (`Versions`). That the next
  comparison comes is liveness (`EveryChangeArrives`). Assumed: records are numbered and the cap is a number.

`RecordsProofs` proves the safety of the mechanisms by which records come over, for any records and any number of passes,
failures and stops, and then (`SideBySide`) that the specification the runs check has all of it: `NoSecondRow`,
`NothingMissed`, `NewestDecides`, `ClosedIsDone`, `DeletedIsGone` and `TypesOK`, whatever part is at work.

- `NoRowTwice`, that is `NoSecondRow`. A pass: what is looked up was loaded (`Ready`), one record at a time makes the
  row of a uid, and the database has none for it then (`Sole`), what the database maps is known to whoever looks, in the
  shared attempts or in every copy of the map (`Knows`), everyone who has a row for a uid has the one it is mapped to,
  or about to be, or the one the run remembers where the mapping was refused (`Agrees`), no row is made for a uid that
  has one, unless its mapping, or the answer of its insert, was refused or lost (`RowsMade`), and the same for a
  record's own row (`RowOfOwn`). All but the last are claimed where makers that share no attempt do not run side by side
  (`Shared` under `~shape.lone`); the exceptions are those the property names (`torn`, `lone`). That one at a time makes
  a row needs a fact about *all* passes of the `Catalogue`: one that works on records side by side calls only makers
  that share their attempts (`ShapesFit`, shown maker by maker, writer by writer and pass by pass). The rows that hang
  off a record: which statement is next says how the writer writes, and rows are added where none is (`RowInv`), a row
  marked deleted being one. Assumed: records are numbered.
- `NothingIsMissed`, that is `NothingMissed`. What was there from the start and is behind the walk was read or skipped
  (`Passed`): a list that only grows moves records on, never back. A plain list has counted no more rows than its pages
  hold, and the first row of the page before has moved on by no more than the list has grown (`Plain`), so that a list
  that seems to repeat itself has grown by a page. Assumed (`Sizes`): pages are not empty, and Zuper's cap only shortens
  them.
- `NewestIsKept`, that is `NewestDecides`, for runs and records that read, compare and write in any order. What is kept is
  the newest record with its *time*, and not only what it says (`KeptIsNewest`), since nothing that is stored, in memory
  or compared with is newer than the newest record met (`StoredFits`, `LanesFit`). While records come one at a time nobody
  works beside the one at work and no later run has begun (`OneAtATime`), and the last run begun has in memory what is
  stored (`Remembers`): what a write is about to replace is then what its record was compared with. Assumed (`Timed`):
  times are numbers from 1, since 0 stands for none, and the runs are numbered.
- `ListedNotesStand`: a note that Zuper lists is not marked deleted, unless a page boundary passed over it or it changed
  after it was read. What a pass has listed so far it has read, or passed over (`PagesRead`), and only what is listed no
  more is flagged (`OnlyGone`). `NotesFollow` says it of the end only; this says it of every step. The proof found the
  model's excuse wrong: it asked whether the note that went had been *read*, so after two removals in a row, or one of a
  note made meanwhile, a note passed over was not excused and would have been flagged. It takes four notes and pages of
  one, more than the run has. `RemoveNote` now excuses exactly the note that moves over the boundary. Assumed: finitely
  many notes, and pages that hold some.
- `NumbersAreKept`: a record in both systems that holds Zuper's number keeps it, unless it was pushed between the check
  and the move of a record in its way. What is imported has Zuper's number (`FromZupers`), no two rows hold one
  (`OneHolds`), and what is about to be moved was made in Tuper and not in Zuper when last asked (`Spared`). A next number
  exists because finitely many records have a highest one (`HighestIs`). Assumed: finitely many records, each made in one
  of the two systems.
- The types add what the other invariants left out: whoever has a row has one that is there (`RowsThere`), each record
  that is over is counted once (`CountFits`), what the map knows has a row where the writer removes none (`KnownHere`),
  what is read or skipped is of the list (`Tried`), a delivery is tried so often at most and has
  something to do only amid a bulk action (`Tallied`). Assumed beside the above (`Runs`): calls are tried at least once.

Model-checked only: liveness (fairness and ENABLED are outside the prover). Every invariant that a run checks is
proved, under the assumptions named above.

## Not modelled yet, and the plan

What is left, in this order:

1. `editsOf` and the planners, field by field (`Compared` and `ReadBack` tell two kinds of fields apart, not which they
   are), checked against a reference definition.
2. The sweep's order of kinds and its full pass; the six lists of `Collections` told apart; the write log's rows.
3. `Connections`: comparing webhook registrations.

Left out for good: the columns a field goes to in `src/lib/migration/zuper-sync.ts` and the list-contract helpers (data,
not control), the dashboard's rendering, the command-line tools, the historical migrations, and the shape of HTTP
requests and answers.
