# Formal verification of AI-PNICMP

AI-PNICMP is a crowdsourced map of mobile coverage in the Lao PDR. Android phones sample the radio,
sign each record at capture and hold it until they find a network; a FastAPI backend validates and
stores the records, aggregates them into H3 hexagons and serves two React sites: an admin dashboard
and a public map.

This directory holds the TLA+ models of the program, the TLC configurations that check them and
TLAPS proofs of the properties that matter most. Every definition that stands for code is listed in
`PROJECT.json` under `map`, with the file and lines it translates.

Contents: [inventory](#1-inventory), [plan](#2-plan), [modules](#3-modules),
[runs](#4-runs), [theorems](#5-theorems), [findings](#6-findings), [disagreements](#7-disagreements),
[what is left out](#8-what-is-left-out).

## 1. Inventory

### 1.1 Android collector (`src/android`, Kotlin)

| Part | State | Operations | Hard behaviour |
| --- | --- | --- | --- |
| `collect/CollectionService` | wake lock, single-thread executor, session counters, static `isRunning` | start/stop intents, location callback, `onLocation`, `maybeMeasureSpeed`, `onDestroy` | the callback runs on the main thread, the sample on the executor; the wake lock is not reference counted; tasks outlive `stopCollecting` |
| `collect/Sampler` | last sampled position and time | `shouldSample`, `markSampled`, `buildSigned` | called from one thread only; marks only what was queued |
| `data/MeasurementStore` | SQLite: queue (cap 20 000), sent history (300 rows) | `enqueue`, `peekBatch`, `delete`, `recordSent`, `trimIfOversized` | each statement is its own transaction; a worker and the service use separate connections |
| `upload/UploadWorker`, `UploadScheduler` | two WorkManager jobs, one-off and periodic | `doWork`, `requestUpload` (KEEP), `schedulePeriodic` | the two jobs may run at the same time on the same rows; process death between any two statements |
| `upload/ApiClient` | none | `enroll`, `checkConnection`, `uploadBatch` | answers lost after the server committed; 4xx split into permanent and retryable |
| `CollectorPrefs` | install id, enrolment, totals, speed-test budget | read-modify-write of preferences | two workers and the service update it without a lock |
| `collect/SpeedTest` | bytes spent | latency, download | a run that dies half way; daily budget |
| `crypto/*`, `data/Measurement`, `RadioSampler` | keystore key | canonical message, signing, radio snapshot | must agree with the server byte for byte |
| `ui/*`, `BootReceiver`, `CollectorApplication` | consent, collection switch, enrolled flag, server address | enrol, check the connection, start, stop, change server address | two coroutines that register, answers after the address was changed, start after reboot |

### 1.2 Backend (`src/backend`, FastAPI, SQLAlchemy, Celery, PostgreSQL at READ COMMITTED)

| Part | State | Operations | Hard behaviour |
| --- | --- | --- | --- |
| `api/v1/devices`, `api/v1/ingest`, `services/ingest` | devices, ingest_batches, measurements, cell observations | enrol, upload a batch | one transaction per request; overlapping and repeated batches; verdicts that depend on the clock and on the batch |
| `services/validation`, `services/signing`, `services/geo` | none | per-record rules, trajectory, upload origin | order dependence inside a batch, boundaries |
| `services/aggregate`, `workers/tasks` | h3_tiles, h3_tile_operators | full and incremental rebuild, every minute and nightly | several snapshots in one transaction, a watermark with an overlap, concurrent runs |
| `services/retention` | exact coordinates of measurements | coarsen old fixes | batches, repeated runs |
| `scripts/estimate_cell_sites` | observed cells | rebuild every two minutes | delete and insert while others read or rebuild |
| `services/auth`, `api/v1/auth`, `models/user` | users, sessions | sign in, require role, scope | role re-read per request, bootstrap accounts |
| `api/v1/users`, `services/credits` | users, user_devices | decide, set role, network, credit, devices | checks and writes separated by awaits; two administrators at once |
| `api/v1/tiles`, `services/changes`, `api/v1/mine`, `services/export`, `api/v1/weak_areas`, `services/areas` | none (queries) | map, changes, exports, ranking | scope and area filters |
| `api/v1/reports`, `speedtest`, `sites`, `cells`, `public` | reports, sites | small CRUD | none |

### 1.3 Web clients (`src/web`, the admin dashboard; `src/client`, the public site; React)

| Part | State | Operations | Hard behaviour |
| --- | --- | --- | --- |
| `web/App.tsx` | session, view, filters, hexagons, weak areas, cells, collectors, networks, chosen area, loading, notice | filter changes, map moves with a debounce, area choice, poll, sign-in and sign-out | effects cancel their requests, the poll's cannot be cancelled; one spinner for three kinds of request; answers in any order |
| `web/MapView.tsx` (the client's is the same code) | style, sources, layers, camera, animations, toggles | mount, style load, fallback, effects, fly and fit, unmount | data, choices and moves arrive before the style, after it or beside its fallback; interrupted animations |
| `web/Login.tsx`, session part of `App.tsx` | session, Google script and button | sign in, sign out, script loads or fails | answers after the page is gone |
| `web/AreaFilter.tsx` | chosen chain, options of each depth | expand, choose, clear, remount, choose on the map | unordered, uncancelled answers; the control forgets, the page remembers |
| `web/Users.tsx` | rows, badge, busy row, dialogs | decide, role, network, handsets, credit | changes answered after newer lists, patches from snapshots |
| `web/Dashboard.tsx`, `Towers.tsx`, `Collectors.tsx`, `MyCollection.tsx` | rows of their own requests | open, close, narrow | failures that look like empty answers; answers to earlier questions |
| `client/usePublicTiles.ts`, `PublicMap.tsx` | cache, box under way, debounce, tiles, network | move, change of network, debounce, answer, ageing | cache hits beside requests under way; closures that hold the previous network |
| `client/App.tsx`, `useSession.ts`, `Login.tsx` | route, session, card | navigate, sign in, sign out | answers on another page than the one that asked |
| `coverage.ts`, `Method.tsx`, `Legend.tsx`, inspectors and cards | none | print an amount, parse the methods note, word and colour a state | units change with size; one vocabulary kept in several places |
| `i18n.ts`, `laoShape.ts`, icons, language picker | chosen language | translate, draw | none |

Correct means: the control, the hexagons and the words on a page speak of the same question; what is
stale is announced or heals by itself; nothing stays loading for ever; nobody sees a view that their
session does not offer; and a figure or a colour means the same wherever it is printed.

### 1.4 How the parts interact

Location callback → executor → queue → (WorkManager) → HTTP → one database transaction → rebuild
tasks read what committed → map. An administrator's decisions change what later requests of other
accounts may do; every request re-reads the account row. Nothing is shared in memory between server
processes: all interaction goes through PostgreSQL rows, so the interesting steps are SQL statements
and commits. On the phone all interaction goes through SQLite, SharedPreferences and WorkManager.

The web clients share nothing but the server. Inside each of them the interaction is React's: a click
sets state, the effects of that state cancel and start requests, and timers and answers come in
between. The dashboard's map is told its data as properties and reports its viewport by a callback.

## 2. Plan

Order: what loses a measurement first, then what shows a wrong map, then who may decide, then the
phone's own machinery, then the read side.

| Order | Module(s) | Question | State |
| --- | --- | --- | --- |
| 1 | `Delivery`, `StoreForward` | does a record that was captured reach the server, once, or is its loss accounted for | done, with proofs |
| 2 | `TileRebuild` | does the map end up showing the stored measurements | done, with proofs |
| 3 | `Trajectory` | what the order and the cutting of uploads do to verdicts | done, with proofs |
| 4 | `Accounts` | what overlapping administrators can do to roles, credits and handsets | done, with proofs |
| 5 | `CollectionService` | does stop mean stop, does collection resume, is a wake lock left behind | done, with proofs |
| 6 | `MapData`, `MapView` | what the dashboard's map holds and draws when filters, viewport, area, poll and basemap cross | done, with proofs |
| 7 | `Console` (`Door`, `AreaFilter`, `UsersPage`, `Reader`) | who sees which page, and whether control, rows and badge tell the truth | done, with proofs |
| 8 | `PublicSite` (`PublicTiles`) | which box is asked for and what a visitor is shown meanwhile | done, with proofs |
| 9 | `Survey`, `Panels`, `Figures`, `Fleet`, `Fetched`, `MethodText`, composed in `Pages` | whether the pages say the same of the same readings | done, with proofs |
| 10 | `Enrolment` | key, install id, enrolled flag, server address and the server's registry, with answers lost, repeated or late | done, with proofs |
| 11 | `SpeedTest` | the daily ceiling, with transfers that break off, midnight and two overlapping executors | done, with proofs |
| 12 | `CellSites` | the cell estimates beside themselves | done, with proofs |
| 13 | `Retention` | the coarsening sweep beside rebuilds, uploads and the cell estimates | planned |

Compositions: `Console` of the dashboard's pages, `PublicSite` of the public pages with their tiles,
`Pages` of everything that is read or judged one page at a time. Planned: `Enrolment` with
`StoreForward` (records signed with a key that another server knows), `Retention` with `TileRebuild`
(an aggregate must not change because a fix was coarsened).

Abstract specifications: `Delivery`, implemented by `StoreForward`. Planned: a map that is a function
of the stored measurements, to be implemented by `TileRebuild` in the long run of its nightly rebuilds.

Theorems planned: the refinement of `TileRebuild`'s nightly rebuild. Every invariant and every action
property that a run checks is proved; what the runs check and no theorem states is liveness (section 8).

## 3. Modules

A module's constants are the program's limits (named in their comments after the constant in the
source) and bounds of the model (marked `bound`). Every definition is listed in `PROJECT.json` with
its source lines. Definitions called `Faulty...` are mistakes made on purpose: each is the definition
that follows it, changed the way a slip in the code would change it, and each makes TLC report the
property it is paired with. No specification uses them.

### 3.1 `Delivery` and `StoreForward`

`Delivery` is the promise: records are captured, held, ruled on in groups, released when ruled on, and
dropped only by the phone itself; the server takes a record once.

`StoreForward` is how the program keeps it.

| State | In the code |
| --- | --- |
| `queue`, `sent` | the tables `queue` and `sent` of `MeasurementStore.kt` |
| `totalAccepted` | the preference behind "accepted so far" |
| `enqueuing`, `excess` | where the executor is inside `enqueue` / `trimIfOversized` / `requestUpload` |
| `work`, `pc`, `batch`, `left`, `awaiting`, `verdict`, `tally` | WorkManager's state of the two jobs and the local variables of `doWork` |
| `request` | HTTP requests: sent, in an open transaction, answered, forgotten |
| `stored`, `recordsAccepted`, `admitted`, `clock` | `measurements`, `devices.records_accepted`, whether the device may upload, the server's time |
| `captured`, `trimmed`, `refused` | histories for the properties |

Each SQLite statement is an action, because the two jobs and the executor use the database without a
common transaction: `Enqueue`, `CountQueue`, `TrimIfOversized`, `RequestUpload` for the executor;
`StartWork`, `PeekAndUpload`, `ReceiveVerdict`, `ReceiveFailure`, `RecordSent`, `Delete`, `ReadTotal`,
`WriteTotal` for a worker. A request is handled by `RefuseSchema`, `RefuseDevice`, `BeginBatch`
(reads) and `CommitBatch` or `ConflictBatch` (the unique constraint). Faults: `GiveUp` (timeout,
the request goes on without its worker), `LoseRequest`, `AbortBatch`, `KillProcess`.

Whether a record passes `validate_record` is a window of server time (`Opens` to `Closes`), which
covers the two rules that depend on the clock; the rules that do not are an empty window. A retry of
OkHttp's own is a `GiveUp` followed by another request. `markAttempted` only counts, and is left out.

### 3.2 `TileRebuild`

`phase` and `received` are a measurement's `received_at` and whether it has committed; `tile` holds
both layers; `run` holds, for each process that rebuilds, where it is and what it has read. The
actions are the SQL statements of `rebuild_tiles` in their order (`StartIncremental` or `StartFull`,
`ReadDirty`, `StateCounts`, `TileMetrics`, `LoadExisting`, `Fill`, `Flush`, again for the operator
layer, then `Doom` and `Drop` for each of the two DELETEs of a full rebuild, `Commit`). Each statement
has a snapshot of its own. A column that is a count, an average or a median is represented by the set
of measurements it was computed from, so two columns agree exactly if they were computed from the
same data. `Written` gives the ORM's update: only columns whose value changed, and `updated_at`.

Simplifications: one clock for API and workers; a rebuild takes its row locks all at once and waits
while any is taken (a deadlock that PostgreSQL breaks is a `Crash`); areas and resolution are not
columns.

### 3.3 `Trajectory`

`CheckTrajectory` is the loop of `check_trajectory` as a fold over the upload sorted by time, a tie by
place in the upload (`InOrder` gives each record its rank), `ProcessBatch` the three-way split of
`process_batch`. `KeptByRule` is the reference: it says of a set of records
that it keeps a record exactly if the record is reachable from the last one kept before it, without
saying how to compute it. The state is one upload, built record by record, so a run meets every
upload over its places and moments. Places lie on a line, which is enough for a rule that reads
distances and times only.

### 3.4 `Accounts`

`account` is the `users` table, `owns` the `user_devices` table, `request` the HTTP requests in
progress. A request reads the actor (`Begin`, the dependency `require_super_admin`), loads the target
(`Load`), may count super admins (`CountSuperAdmins`), and commits (`CommitRow`), each in a step of
its own; `Merge` is the ORM's update of changed columns. `set_credit` goes on to fetch the portrait
after its commit (`FetchPortrait`, `StorePortrait`). `set_devices` checks who has the handsets
(`Taken`), deletes (`Doom`, `Delete`) and inserts (`CommitDevices`, with the unique `install_id`).
`granters` and `assigned` are histories.

### 3.5 `CollectionService`

`commands` are intents on their way, `current` the service object, `leaving` what it still gets after
`stopSelf`, `updates` the object that receives locations, `undelivered` a result posted before they
were removed. `looper` is the callback between taking the wake lock and handing the sample over;
`open`, `waiting` and `task` are each object's executor, its queue and the sample in progress;
`lockedUntil` is its wake lock with its time limit. Actions: the switch and the notification
(`AskToStart`, `AskToStop`), a reopened app (`OpenApp`), `Boot`; `HandleStart`, `HandleStop`,
`Destroy`; `OnLocationResult`, `OnLateResult`, `Execute`; `BeginSample`, `Record`, `EndSample` on the
executor; `Kill` (with or without the loss of a permission) and `Reboot`.

What Android does with intents, sticky restarts and `stopSelf` is external to the repository and
taken from how the code uses it. The behaviour of Android 14, which refuses `startForeground` without
the permission, is not distinguished. Wall clock and elapsed time are one clock that never jumps.

### 3.6 `Enrolment`

`phone` is the preferences, the key and the service of one phone; `asks` are the coroutines of the
start button and of the connection check, with the address, id and key each has read; `registry` is
the table `devices` of every server. `Register` begins a coroutine; `FindKey` and `MakeKey`, `FindId`
and `MakeId` are the two halves of `ensureKey` and `ensureInstallId`, which another coroutine may come
between; `ReadAddress` and `Post` follow in the order of each button; `Look` and `Insert` are
`enroll_device`; `Hear` is the continuation on the main thread. `Lose`, `GiveUp`, `Recreate` and `Die`
lose requests, answers, the screen and the process. `SaveServer` and `ResetServer` change the address;
`PressStart`, `Resume` and the service begin and end collection.

`crossed` is a history: it is set when the address changes under a registration that has read the old
one and will be heard, or under a start on its way, and when two registrations meet while the phone has
no key or no id. The properties speak of a phone until then, and the module is followed until then;
what happens afterwards is in section 7. Blocked devices and devices registered without a key are left
out (`StoreForward` has the former); so is the loss of the key.

### 3.7 `MapData` and `MapView`

`MapData` is the state of `App.tsx` that feeds the map. A request of an effect belongs to a role
(viewport, area, each layer) and is cancelled by the effect's clean-up; requests of the poll are a set
and cannot be. A collection is represented by the question it answers, so that "the hexagons on the map
answer the filters above it" is an equation. A click and the effects it starts are one action, because
React runs them before the next browser task; answers, failures, timers and polls are actions of their
own. `refiltered` is a history: the signal state was changed while an area was chosen, for which
the code asks nothing.

`MapView` is the component below it: `prop` is what it is told, `source` what MapLibre holds, `stack`
and `hidden` the layers in their order and the invisible ones, `camera` and the animations where the
reader looks. Before the style there is nothing to draw on; it comes by `StyleLoads` or `UseFallback`, in
either order. An error that replaces a style which has come is left out (section 7). The render of an answer leaves its effects pending
(`RunEffects`), so a style may load in between. A viewport is never empty (`Span`).

### 3.8 `Console`: `Door`, `AreaFilter`, `UsersPage`, `Reader`

`Door` is the session and Google's button; `AreaFilter` the cascade of selects, with requests by depth
that are neither ordered nor cancelled, over areas whose `Level` is one below that of their parent, as
the import leaves them when it finds every parent; `UsersPage` the approval queue with its badge, its one busy row
and its dialogs, over a server that serves each change at some moment between request and answer. The
accounts change without the page too: `SignsIn` creates an account, or makes one of `Bootstrap` a super
admin again, and `ChangesElsewhere` is a change by any super admin that does not come from this page - of
the page's own account as well, after which its questions and its changes are refused (`Forbidden`,
`Denied`). The page asks for all accounts only when it is opened, so `elsewhere`, a history, holds the
accounts that were changed so since the server last read them for it. `Console` mounts the parts as the
menu of the session allows. `Reader` holds the two budgets that bound every behaviour: how often a person acts, super admins elsewhere included, and
how many requests fail.

### 3.9 `PublicSite` and `PublicTiles`

`PublicTiles` is the hook `usePublicTiles.ts`: the box for a viewport (clamped, rounded outward to a
grid; a coordinate is a number of 1/200 degrees, so every half is a whole number), a cache of answers
that grow old, the debounce and its closure, the request under way and its key. `PublicSite` puts it
under the router: a page's map dies with the page, its request does not. Choosing an account is the press
of the button (`StartSignIn`); the button is guarded only where Firebase draws it, so several sign-ins, and
several sign-outs, may be under way, those of cards that are gone among them (`card.own` are the shown
card's own). `ChangesElsewhere` is what happens to the cookie without this tab: it expires, or another tab
or the dashboard signs out, or in. Nothing tells the page, which asks once; `lapsed`, a history, says that
the session of whoever is shown has ended so.

### 3.10 `Pages`: `Survey`, `Panels`, `Figures`, `Fleet`, `Fetched`, `MethodText`, and the parts that run alone

Things that are read one page at a time. `Survey` is what the server says of a bag of readings once the
tiles are rebuilt: states, colours, shares, middle readings and priorities of hexagons, areas and
networks, by each of the endpoints that say it. The ranking of the dead zones is *an* order that puts
no better hexagon before a worse one, since rows that are equal in all the keys come in any order, and
stops after `RankedAtMost` of them. `Panels` is what the clients make of the answers: legend, filter,
bar, header, inspector, tables and the collector's own page.
`Figures` prints amounts: printing is rounding to the unit the code chooses. `Fleet` is the phones on
the map and their lines to the masts; the server lists `ListedAtMost` of them and adds at least
`HalfAHexagon` to what a distance may be off by. `Fetched` is the dashboard pages that ask for
themselves. `MethodText` is the parser of the methods note, its two loops turn by turn: `ParseLine` and
`SplitAt` are a turn, and a part of a text is the interval of places it takes. `sheet` says which of
them a behaviour is about; the parts share no state, so a behaviour moves one of them. `Trajectory`,
`Enrolment`, `CellSites` and `SpeedTest` are followed here too.

### 3.11 `CellSites`

`heard` counts the readings that name each cell, `rows` is the committed table `observed_cells`, and
`passes` every pass of `build` so far: what it read, the rows its DELETE began with (`seen`) and holds
(`gone`), and the cells it has inserted (`added`). `ReadHistory` is the first session; `BeginDelete` and
`DeleteRows` are the snapshot and the end of the DELETE, `InsertCell` one row under the unique index,
`CommitRows` the commit. `Abandon` is every way a pass can end early: a dry run, a refusal by the index,
two passes that wait for each other, the death of the worker. Any number of passes overlap, because a
worker runs two tasks, delivery is acknowledged late, and the script can be run by hand. Measurements
are never deleted, so a later pass places every cell an earlier one did; that, with the index, is why
two passes can never both leave rows (`CellsAreOfOnePass`): their estimates meet unless one is empty.

### 3.12 `SpeedTest`

`ledger` is the day and the bytes in the preferences, `trials` the test each executor's sample is in
the middle of, `rested` whether its interval has passed. `MaybeMeasureSpeed` is the sequence of checks,
of which asking for the allowance rolls the day; `MeasureLatency` and `MeasureDownload` are the two
halves of `run`; `ReadForCharge` and `WriteCharge` are the read and the write of `chargeSpeedTest`,
which nothing joins. `Midnight`, `Recover` and `LoseTests` (the process dies) come at any time.
`overlapped` and `misplaced` are histories: the ceiling is exact while tests do not overlap, passed by
one test at most when those of two executors do, and not claimed of three, since what one of them read
can be written when it is two tests old (with three executors TLC finds two tests over). Nor is it
claimed once a charge that was read on one day is written on the next, after which the module is not
followed. A `rollDayIfNeeded` is one step, the day
only goes forward, and a proxy that answers with a body of its own size is left out.

## 4. Runs

All bounds are in the `.cfg` files.

| Run | Instance | What it shows |
| --- | --- | --- |
| `sf_overlap` | 3 records, one malformed, one impossible journey; cap 2, batches of 2, two jobs, the device may be blocked; no faults | the server counts each record once, the phone's total never overstates, rows leave with their verdict and the oldest are spared by the trimming, and the inductive invariant `Sound` |
| `sf_liveness` | 2 records, cap 2, batches of 2, one fault of any kind, fair | nothing is lost silently, `Delivery` is implemented, and every queued record is eventually ruled on |
| `sf_malformed` | 2 records, one outside the schema, fair | finding 6.1 |
| `tr_window` | 2 measurements in 2 hexagons, 2 rebuilders, commits and rebuilds that take up to 1, an overlap of 3, full rebuilds above a ceiling of 1 row, time to 4 | no window passes over a measurement, although it may commit after it was stamped and rebuilds overlap |
| `tr_nightly` | 1 measurement that may be removed, 1 hexagon, 2 rebuilders, one crash, fair | both layers end up exact |
| `ac_serial` | 2 accounts, 2 handsets, 1 network, all five kinds of request, one at a time | what each request must leave true |
| `ac_overlap` | 2 accounts, 1 handset, role changes, sign-ins and assignments, two at a time, fair | one owner per handset; recovery by sign-in |
| `cs_life` | 2 service objects at a time, time to 2, two deaths or reboots, fair | stop, resumption, wake lock, spacing |
| `map_page` | the data or the map of the page moves: 2 areas (one too large for a download, with shaded children), one network, signal and band, 2 viewports, 1 layer, 2 steps of the reader, 1 failure; or 2 sources, 4 places, 1 animation, 3 steps; each fair | loading means work and ends; nothing of a cleared area stays; stale hexagons are announced; a watched map heals; a map with a style shows its latest data and the choices made, evidence is never hidden, names stay on top, and a map at rest has reported where it is |
| `public` | 2 networks and the country, 5 pages, views at the edges and the middle, a cache of 2, Google's own button, 2 sign-ins and 2 sign-outs at a time, a session that may end or begin elsewhere, fair | boxes fit, hits cover the view, a request in flight holds its own key, nobody is shown without a session that this page has not been told has ended; a change of network heals, a reader at rest is answered |
| `console` | 4 areas on 3 levels, 1 handset, 1 network, 4 steps, 1 failure; either super administrator, collector or pending visitor on the whole dashboard while no other account is touched, or a super administrator at the approval queue with 3 people, one of them not yet seen and one of `Bootstrap`, and 2 changes at a time | the view is one the session offers, the page mounts what it shows, control and map agree; the badge never overstates, the rows are the accounts, the dialog takes no handset of somebody else |
| `pages` | 2 hexagons, 2 phones, 3 networks and 3 readings; 4 lines or 6 marks of text; amounts around every change of unit; 3 openings; uploads of up to 4 records; 2 servers and 2 registrations at a time; 2 cells and 3 passes; 2 executors, 2 days and an allowance of two tests | one story on all pages, no text swallowed, larger amounts never print smaller, a page shows answers to its own requests, uploads judged by the rule, a phone known to its server, the cells of one pass on the map, the day's ceiling kept |

Why the bounds are enough. Two workers, two rebuilders, two requests and two service objects are what
the program has at a time (two unique jobs; a beat task and an endpoint; an executor that outlives its
object by one), or the fewest that overlap. Two records are enough for a batch that is stored in part,
three for a cap that is exceeded while a batch is out. In `tr_window` a measurement is stamped before a
watermark and commits after it, a rebuild spans a tick of the clock, and an incremental rebuild decides
for one hexagon and leaves the other, or does all when both are dirty. Its overlap is the least that
`EnoughOverlap` admits; with `Overlap = 2` TLC finds a measurement missed, 48 steps in, so the hypothesis of
`NothingMissed` is tight. The measurements of `tr_window` name no operator, which leaves the operator layer
to `tr_nightly` and, with every other size, to the theorem.
For the web clients, two areas and two viewports are the fewest with an old and a new question;
a third step of the reader adds states and no new kind of state to the dashboard's data. Two
registrations are the fewest that meet, and two servers the fewest between which an address changes.
Two sign-ins are the fewest of which one may answer
after a sign-out that followed the other. The four steps of `console` at the queue are opening it and two
changes of an account with one by somebody else between them, or a change that is under way when the page
is left and opened again. Three
passes are the fewest of which two race to replace the rows of a third; two cells the fewest for
a table of which a part is missing. The allowance admits a second test and refuses a third.

Two instances hold several parts of one page that would multiply their states, and a behaviour follows
one of them, chosen at the start: in `map_page` (`MCMapPage`) the data or the map, which share no state,
each with its own fairness; in `console` (`MCConsole`) the whole dashboard, or the approval queue of one
session. The steps of `MCConsole` are steps of `Console`, some of them left out; the theorems are about
`Console` itself.

Symmetry is used in two runs, which check no liveness: in `pages` over the hexagons, over the phones
together with their networks, over the registrations, the cells and the executors; in `tr_window` over the
rebuilders and over the measurements together with their hexagons.

Deadlock is checked except where a behaviour really ends: `map_page`, `console` and `pages`
count the steps of the person in front of the page, and a page that nobody uses and that has
its answers does nothing.

Fairness. `StoreForward`: the executor, each worker and each server request go on; WorkManager runs
what is enqueued; faults are finitely many; nobody is obliged to capture anything.
`TileRebuild`: the API commits what it has stamped; a process that waits for a row lock gets it in
turn, which PostgreSQL's lock queue provides (strong fairness); beat schedules the minute and the
nightly rebuild again and again. `Accounts`: a request is carried through, and the listed addresses
keep signing in, which is the documented way to recover. `CollectionService`: the main looper and each
executor go on and the boot broadcast arrives; nobody is obliged to open the app or to press a button.
`MapData`: timers fire, the poll comes again, requests are answered or fail, aborted ones end; `MapView`:
the component mounts, its effects run, and the fallback, a style in the bundle, loads (the chosen
basemap need not); `PublicSite`: the debounce fires, requests end and cached answers grow old. In no
web run is anything assumed of the reader, of which answer comes first or of success. `Console`,
`UsersPage` and `Pages` claim safety only and need no fairness.

## 5. Theorems

`StoreForwardProofs` proves, for any sets of records, workers and request slots, any limits and any
number of faults:

- `TypeCorrect`: the type invariant;
- `Soundness`: the inductive invariant `Sound`, and from it `NothingLost`, `HistoryIsTruthful` and
  `AnswersMatchBatches`;
- `EachRecordCountsOnce`: `devices.records_accepted` counts the rows of `measurements`;
- `StoreForwardImplementsDelivery`: the refinement;
- `TotalIsHonest`: the phone's counter never exceeds what was stored of its captures. Reading, adding
  and writing the total are three steps, so two workers can lose a sum; that they can only lose is the
  point. The invariant gives each worker a claim, the stored records of its batch that it has not added
  yet: claims are disjoint, and the total, and every value of it a worker still holds, stays within the
  stored records outside the claims concerned;
- `RowsGoInOrder`: a row leaves the queue with its verdict in the history, or with the history full of
  others, or as one of the newest in a trimming that brings the queue back within its cap.

`NoSilentLoss` is not inductive: a worker deletes its batch several steps after the server has ruled
on it, so the deletion is safe only because the worker still holds a true verdict. `Sound` says where
that knowledge is at each moment: an open transaction has a reason for every record of its batch
(`RequestsSound`), an answered one has stored or refused each, the answer a worker waits for is about
its own batch and nobody else's, and from the answer to the deletion the verdict covers the batch
(`SoundWorker`). The refinement uses the same facts: `Delete` is `Release`, `CommitBatch` is `Rule`,
`TrimIfOversized` is `Drop`, everything else stutters.

For `RowsGoInOrder` the invariant is `Orderly`, about what lies between two statements. The rows of the
history have the ages 0, 1, 2, ..., each once, so the history is full exactly if it has a row of every
age, and pruning takes the oldest only (`AgesOnce`, `AgesInARow`); whatever a worker is about to delete
is in the history, unless that is full (`DeletionsTold`); and the queue has not grown since its excess
was counted, because only the executor that counted it adds rows (`TrimKnows`). A worker that deletes
between the count and the trim makes the trim take more than it had to (`TrimOnlyAtCap` in section 7),
but what it takes is still the newest.

`CollectionServiceProofs` proves, for any service objects, places, intervals and bounds, and also
where a start may overtake a stop (`Overtaking`):

- `TypeCorrect`: the type invariant, with the limits of the wake lock;
- `LocksReleased`: no lock is held without work. Given the types the property is inductive: every
  step that ends the last work of an object also releases its lock;
- `StopHolds`: stop means stop. The inductive invariant `StopStays` adds what could undo a stop: the
  preference is off, so neither a reopened app nor a reboot starts; no start is on its way; and the
  object that exists was told to leave, so that a sticky restart sends only the stops behind it;
- `Spaced`: records keep their distance. `SampleApart` bridges the time a sample takes: the mark by
  which its fix was judged is still the last one when the sample leaves its own, because an object's
  executor is one thread.

`TileRebuildProofs` proves, for any measurements, hexagons and number of rebuilders, with removals
and crashes:

- `TypeCorrect`: the type invariant;
- `NothingMissed`: under `EnoughOverlap`, which is `CommitDelay + 2 * RunTime <= Overlap`, the window
  of the next incremental rebuild reaches back to every measurement that the map does not show. For
  the code's five minutes: one upload's transaction and two rebuilds in a row must fit in them. The
  comment on `WATERMARK_OVERLAP` speaks of the transaction only.

The argument follows one measurement. Once it has committed (at its `Deadline` at the latest), a
rebuild that starts later is `Fresh` for it: every statement of it sees the measurement and no DELETE
of it takes its rows (`ReadsOK`). Rebuilds that started earlier are stale and may still overwrite what
a fresh one wrote, for at most `RunTime`; the ORM makes it worse, because a fresh rebuild whose result
equals the row it loaded leaves the column to whatever a stale one has put there. A rebuild that
starts after the last stale one is `Settled`: nothing it has loaded is lost again (`SettledOK`), so its
commit shows the measurement (`CommitShows`), provided its window reaches back far enough, which is the
property itself for the watermark it started from. An unsettled rebuild cannot set a watermark beyond
`Deadline + 2 * RunTime`, which is where the overlap comes in. Row locks are needed for one thing: the
row a fresh rebuild has flushed does not change before it commits (`Apart`, `RowsOK`).

`AccountsProofs` proves, for any accounts, handsets, networks and requests:

- `TypeCorrect`: the type invariant, strengthened by what a request carries at each of its steps;
- `HandsetsHaveOneOwner`: `OneOwner`, however many requests overlap, although the check that a handset
  is free is stale when it is used;
- `SerialAccountsAreConsistent`: `AccountsInv` under `OneAtATime` (there is one request slot) and
  `SoundBeginning` (the accounts begin consistent). Without the first it is false; see section 7.

`MapProofs` proves of the dashboard's data hub, for any networks, areas, viewports, layers and bounds:

- `HubIsSound`: `MapDataInv`. The spinner has a cause; nothing is left of an area that was given up;
  the border is the selection's or the screen says why not; a load and a viewport's request are for the
  current filters;
- `StaleIsNeverSilent`: nobody looks at hexagons of other filters - area, network, signal state or
  viewport - with nothing on its way and nothing on the screen that says so, but for the three cases
  below.

The two are inductive together: an answer may replace what is drawn because what is under way is for
the current filters (`LoadIsTheSelection`, `RequestFollowsFilters`), and these hold because a session
that ends takes its area and its viewport along (`SessionBoundsTheMap`). `BorderIsTheSelection` and
`StaleIsAnnounced` leave out two states, in which a late answer has cleared the report of a failure:
the viewport's answer over a chosen area (`AreaAnswerStands` in section 7), and a collector's own
readings that outlived the session. `StaleIsAnnounced` leaves out a third: the area's hexagons of the
signal state that was chosen before, when it was changed while the area was (`SignalIsFollowed`).

And of the map that draws them, for any sources, values, places, viewports and animations:

- `MapIsSound`: `MapViewInv`. No toggle hides the evidence, nothing covers the names, the address bar
  follows the map;
- `TheMapIsCurrent`: a map that is drawn, with no effect due, shows the data and the choices it was
  last told, in whatever order data, choices, mount and style came;
- `TheRestIsReported`: at rest the page has been told a viewport inside the screen that the server
  answers, and the screen itself where that is allowed.

The invariant `MapHolds` has three parts that are not properties: once a style has come the stack is
that of `addLayers` over it and only the imagery, the style's ground and the weak marks can be invisible
(`Arranged`); only the effects that are due stand between what the page has told and what is remembered
and drawn, late refs included (`Remembered`); and a map without an animation has reported where it is
(`ReportedHere`). Where each layer ends up is a lemma about sequences (`StreetsStack`,
`FallbackStack`), and that a clamped viewport is answerable one about integers (`ClampAnswers`).

`ConsoleProofs` proves, for any accounts, areas, handsets and bounds:

- `ThePageIsOffered`: the view shown is one that the menu of the session offers, however late a
  sign-in, a sign-out or the worst area is answered; and from it `TheQueueIsTheSuperAdmins`;
- `ConsoleIsSound`: `ConsoleInv`. What belongs to another view is neither asked for nor mounted, and
  somebody signed out is never left before an empty card. The latter needs the script and its failure
  to be told on the card that is shown (`ScriptIsSaid`);
- `TheControlAgrees`: the area filter offers only what belongs together and shows the area whose
  coverage is on the page, until it is spoiled by an answer that comes after the next choice, a click on
  children of an area left behind, a cleared area, a return to the map with an area still chosen, or an
  area that would not load; by nothing else. The invariant (`Agreement`) follows the chain: each level is
  a child of the one above (`ChainDescends`), it ends at the chosen area or, until the answer for that
  one comes, at the parent whose shaded child was clicked (`ChainEnds`), and before the countries are
  known there is nothing to choose (`NothingYet`). What is asked of the server is about the chosen area
  (`AskedIsChosen`);
- `TheQueueIsTrue`: the badge never overstates, the dialog never
  takes a handset that is listed as somebody else's, and with nothing under way and without doubt about
  the list (`Faithful`) every row is its account as it is, unless somebody else changed the account since
  the server last read it for this page. `QueueInv` says what each change under way will make of the
  account it is about (`WritesOK`), that rows are of existing accounts (`RowsExist`), that before the first
  list there are none (`BlankUntilListed`), and of which accounts an answer under way is still true
  (`AnswersAreTrue`). A sign-in and a change elsewhere are one lemma (`QueueElsewhere`): whatever account
  they touch is in `elsewhere` until a list, a change of this page or the accounts asked for after handsets
  were saved have read it again.

`PublicSiteProofs` proves, for any networks, views and cache:

- `AnyBoxFits` and, from it, `EveryBoxFits`: the box asked for is within what the server answers and
  holds the viewport whenever that is possible, for every viewport and not only those of an instance;
- `CoveredAtOnce`: a viewport that does not wait for the debounce is covered by the answer shown for
  it, which is the first one kept that holds all of it;
- `SiteIsSound`: `SiteInv`, of which `PendingNamesTheRequest` (the key that refuses a repetition is that
  of the request under way, so it cannot refuse for ever) and `TheDoorIsLeft` (by whichever answer
  somebody is signed in, they are not kept at the sign-in page) are parts. That nobody is shown whose
  session has ended is claimed until the session ends without this page (`lapsed`): with any number of
  sign-ins and sign-outs under way, at every other moment the server would still answer for whoever the
  header shows. It needs that every answer that is heard leaves the page saying what the cookie says, and
  that only somebody known is being signed out (`SomebodyIsLeaving`). It holds for both buttons; the run has
  Google's, whose script may fail and which is not disabled.

`PagesProofs` proves of the pages and the parts that run beside them:

- `PagesHearNoOther`: a dashboard page holds answers to its own requests and never an earlier one over
  a later, for any regions, networks and number of openings (`Hearing`: no request is of a turn that
  has not come, `InTurn`);
- `TheAllowanceIsKept`: the ceiling and the day's figure, for any sizes of a test, any days and any
  executors (`Spending`). While no tests overlap, the one under way was started within the allowance and
  charges the ledger it read (`OneAtATime`). Of two executors, the more tests are under way the less is
  charged, and what one has read is what is charged or from before the other was started (`TwoAtMost`);
- `TheTableIsOfOnePass`: the committed cells are those of one pass, for any cells, readings and number
  of passes (`Placing`). A later pass has read more (`ReadsGrow`); a DELETE takes all of the table or
  nothing (`Clears`); and what two passes delete, or insert, is disjoint (`Apart`), which is where the
  row locks and the unique index come in;
- `FiguresAreTrue`: a larger amount is never printed as a smaller one, and a share as nothing only when
  it is, for all amounts and across every change of unit;
- `NothingIsSwallowed`: every line of the methods note is on the page once and in order, and every word
  of a text is shown, for any document and text. Each of the two loops has an invariant: what the blocks
  and the paragraph under way show is what was to be shown of the lines read (`ReadSoFar`); the parts
  follow each other without a gap up to the end of the last match (`SplitSoFar`);
- `TheSurveyIsTold`: `SurveyIsTold`, for any hexagons, operators, handsets and number of readings, any
  places, masts and identities, and any upload. The argument is below;
- `TypeCorrect` and `PhoneIsKnown` of `EnrolmentSpec`, and so `ThePhoneIsKnown` of the composition, for
  any servers and any number of registrations under way: until a registration is overtaken, a phone
  that is enrolled or collects is known, by the key it signs with, to the server it is set to, and is
  never told that it is somebody else. The invariant `Straight` adds what each registration carries at
  each step (`Fits`), that the one making the first key or id is alone (`FirstIsAlone`), and that the
  registries know this phone and no other;
- `NoKeyIsRotated`: `KeysAreKept`, overtaken or not: an installation is neither forgotten nor given
  another key, however many registrations look before any of them has inserted.

`SurveyIsTold` relates what several endpoints and pages compute of the same rows, so its proof is about
what sums, loops and choices compute. The inductive part is small: the readings are a finite bag and the
tables are built from some of them (`SurveySound`), and an identity has a place only once a record of it
was judged, and a mast of a known distance or none (`CrewKnown`). The rest is lemmas that hold of any
such state:

- sums over finite sets: a sum can be taken in parts and by kind (`TotalInParts`, `TotalByKind`,
  `CountByKind`), which is why the bar, the legend, the filter, the networks table and the header add up
  to one another (`FiguresHold`);
- the state of a hexagon is reached by adding up the counts from the worst state until half of the
  readings are covered; at most half of them are worse and at most half better (`MajorityHolds`), and the
  drop that a card tells is below it and was read there (`DropoutsHold`);
- a ranking exists, whatever the ties (`ARanking`): a finite set can be put in an order in which no
  element is better than a later one, one element at a time. So no dead zone is listed twice, and none
  that is left off the list is worse than one that is on it (`RankingHolds`);
- `check_trajectory` keeps by the rule: at each turn of the loop the reference is the last record kept,
  and what was kept so far satisfies the rule so far (`TheLoopKeeps`). Only one set of records satisfies
  it (`OneFollows`), so the rule says what the loop computes (`JudgedByRule`);
- after each turn of the reduce in `collectorPoints` the markers are those of the rows read so far
  (`Marked`, `MarkersAre`); a larger distance is never printed below a smaller one, and half a hexagon is
  never printed as zero (`RoundedKeepsOrder`), so a label that is given is true (`LabelsHold`).

A fold, a sum and a local recursive function are by definition something chosen that satisfies an
equation. That there is something to choose is proved for each (`ACourse`, `AGathering`), and what it
then computes turn by turn: the set of turns after which a fact holds contains the first and with each
the next, so it contains all (`TurnByTurn`, and `OneByOne` for the subsets of a finite set; both from the
well-foundedness of the naturals, without the induction theorems that take an operator).

The assumptions are the modules' named assumptions on their constants, which TLC evaluates in every
run, and the hypotheses named above: `EnoughOverlap`, `OneAtATime`, `SoundBeginning`. `TypeCorrect` of
`StoreForward`, `CollectionService` and `TileRebuild` is proved and not repeated in their runs.

## 6. Findings

Held as a run:

1. `sf_malformed`: a record outside the ranges of the request schema makes the server refuse its
   whole batch with 422; the phone counts that as retryable and sends the same oldest batch for ever.
   The README of the project and `api/v1/ingest.py` say that a bad record costs no other.

## 7. Disagreements

Met while modelling. Where a definition is named it is kept in its module, no run checks it, and TLC
refutes it with the constants given or those of the module's run.

Collector.

- `StoreForward!VerdictsFinal`: a record refused as being in the future can be stored later, when a
  batch whose answer was lost is sent again (`Opens <- SecondEarly`, one fault).
- `StoreForward!TrimOnlyAtCap`: trimming deletes a number of rows counted earlier, and a worker's
  deletion in between leaves the queue below its cap (cap 1, two jobs).
- `CollectionService!AwakeWhileSampling`: the wake lock is one flag, so `onDestroy` takes it from a
  sample in progress ("the in-flight sample releases its own lock when it finishes"), and the end of
  one sample takes it from the next one in the queue.
- `CollectionService!ResumesUnlessStopped` with `Overtaking = TRUE`: a start sent while a stop is on
  its way is handled by the object that is about to be destroyed; the preference then says that
  collection is on and nothing runs.
- `Enrolment` after `crossed`. "Enrol before the first collection, never during it"
  (`MainActivity.kt:206`): the address can be changed while a registration with the old server is under
  way, whose answer then sets the flag and starts collection; or in the gap between a start and the
  service's `isRunning`, sticky restarts included, because `onStartCommand` does not ask whether the
  phone is enrolled. "Created on first access and never changed" (`CollectorPrefs.kt:39`): two first
  registrations on two IO threads can each make a key and an id, one of which is lost; the server may
  have registered the id with the lost key, and refuses the phone with 409 from then on. "The only
  recovery is a fresh id" (`ApiClient.kt:109`): nothing calls `resetIdentity` or `deleteKey`.
- `MainActivity.kt:214`: were the key lost, a failed registration would leave the flag set beside a fresh
  key, and the next press would collect with it.
- `SpeedTest.kt:85-98`: a download that breaks off charges nothing to the daily budget, although
  `CollectionService.kt:403-404` says that a run that died half way is charged.
- `SpeedTest!CeilingHolds` without its case for `overlapped`: "A hard ceiling" (`CollectorPrefs.kt:127`)
  is passed by one test when the samples of an old and a new service object are tested at once, by more
  were there a third; and a charge read before midnight can be written to the next day, after the other executor rolled it.

Server.

- `validation.py:118-119`: the first record of an upload is never judged against the others, so one bad
  first record can have every later one rejected, although the docstring says that one jump does not
  cost a device its upload.
- `TileRebuild!NeverMissed` with `Overlap = 2` in `tr_window.cfg`, where a commit and a rebuild take 1: the
  documented overlap covers one commit, not the two rebuilds that may overlap after it.
- `TileRebuild`, without the nightly rebuild: a tile can mix counts and metrics of two snapshots, so
  that a hexagon with a reading in it is grey until it is next dirty.
- `Accounts!SomebodyMayDecide`: two super admins can demote each other at the same time, although
  `decisions.md` (§22) and `users.py:10-12` say the last one cannot be demoted.
- `Accounts!GrantHasItsAuthor`, `OperatorNamesItsNetwork`, `PortraitOnlyWithCredit` and
  `ReplacedWholesale` hold for one request at a time (`ac_serial`, proved) and fail for two (two slots,
  one kind of request): two role changes mix their columns, a portrait is stored after the credit was
  withdrawn (`users.py:242`), two assignments of an empty account add up.
- `Accounts!OwnersAreCollectors`: a change of role leaves the handsets assigned.
- `estimate_cell_sites.py`: `CellsAreOfOnePass` does not say which pass. One that read earlier and is
  slower replaces the rows of one that read later, and one that read before any cell was heard often
  enough leaves the table empty; `tasks.py:91-92` has "never an empty map".
- `tasks.py:126`, "Nothing published changes" when old fixes are coarsened: true of the tiles, but the
  cells are placed from the coordinates (`estimate_cell_sites.py:111`), so their positions and spreads
  move, and with them which cells count as reliable.
- The counts of the header are live and the hexagons beside them as of the last rebuild.

Dashboard.

- `MapData!AreaAnswerStands`: the comment at `App.tsx:164` has the area's hexagons on the map; choosing
  an area neither stops the waiting timer nor cancels the viewport request in flight (166), whose
  answer replaces them.
- `MapData!SignalIsFollowed` (with the constants of `map_page`): with an area chosen, a change of the
  signal state asks nothing and says nothing. The viewport's effect returns for a chosen area
  (`App.tsx:194-196`) and the area's depends on the area and the network only (264), so the map keeps the
  hexagons of the earlier state under a filter that names another.
- `App.tsx`: the area is not polled; after a failure its
  details remain those of the previous area, and an error whose body is read after the abort is shown
  for the next one; children of the previous area stay shaded. After an interactive sign-in cells and
  weak areas wait for the first poll; a viewport's `finally` clears the spinner of an area under way;
  sign-out keeps collectors, cells, weak areas, networks and the selection (comment at 321);
  `sessionReachable` never becomes true again; the late answer of the worst area takes the reader back
  to the map.
- `Door!NotConfiguredIsTrue`: a sign-in answers an empty `google_client_id` (`api.ts:376`, the client's
  `api.ts:394`), which is laid over the session (`App.tsx:515`), so that after signing out the page says
  that sign-in is not configured (comment at 277-278). Google's button is not disabled while a sign-in
  is under way.
- `MapView.tsx`: weak marks toggled before the style, or kept over a remount, stay hidden (764-771);
  relief switched off and a flight within 700 ms leave the tilt in between; a late error (984) may
  replace a style that works.
- `AreaFilter.tsx`: answers of the levels are not ordered; a remount forgets the chain while the area
  stays chosen; clearing keeps the deeper lists.
- `Users.tsx` asks for the accounts once, when it is opened (85-88): what another super admin, the same one
  in another tab, or a sign-in changes afterwards is not on its rows, which go on offering the decision
  that fits the old state. A super admin who is demoted meanwhile keeps page and menu and is refused each
  change. The badge goes down for any change to a status that is not pending; one busy slot serves
  all rows; late handsets open another user's dialog; the set of handsets is replaced from a snapshot.
- `Fetched!NoPhonesIsAnAnswer`: `MyCollection.tsx:41` says "Not an error." of a list that line 22 empties
  on an error; Networks, Priority and Collectors do the same, Networks loses its unmeasured rows when
  one of two requests fails (`Dashboard.tsx:142-144`), and Towers keeps the old area's rows (23-31).
- `MyCollection.tsx:80` uses a colour variable that no stylesheet defines; `Legend.tsx:11` promises one
  meaning per colour and an upgrade is coloured orange; `Method.tsx` swallows a lone mark; the smallest
  areas print as "0 ha".

Public site.

- `usePublicTiles.ts`: a hit in the cache does not cancel the request under way; a debounce with the
  previous network's closure may fire after the change; "No measurements in this view." is shown while
  nothing was answered; a selected card survives the change of network.
- `useSession.ts` asks once: a session that expires (`services/auth.py:249`) or is ended in another tab or
  by the dashboard (`api/v1/auth.py:93-96`) leaves its owner in the header until the page is loaded again.
- A sign-in that answers after a sign-out signs in again, on whichever page the reader is by then;
  Google's button takes a second account while the first is under way.
- A Google script that failed leaves listeners on a dead element when the sign-in page is opened again;
  sign-out shows nobody signed in also where the request failed.

## 8. What is left out

Only model-checked: liveness under fairness, and ENABLED. These are `EventuallyRuledOn`,
`EventuallyExact`, `Recoverable`, `ResumesUnlessStopped`, `LoadingEnds`, `WatchedMapHeals`,
`EventuallyDrawn`, `NetworkHeals` and `RestIsQuiet`, on the instances of section 4, and the finding
`OneBadRecordCostsNoOther`, whose violation a run shows.

Not modelled, and why:

- Radio scans, GPS, cryptography, JSON, SQL types, layout, translations: they have no state of their
  own, or decide only whether a record is acceptable, which is a parameter.
- `SharedPreferences.apply` writes to disk later than it returns; a process killed in between can
  lose the last write. The totals can then only be lower, the switch can be older by one press.
- Answer 413 cannot occur: the app sends at most 250 records and the server allows 1000.
- An upload with the same record id twice cannot come from the app, where the id is the primary key.
- A worker that starts before enrolment returns at once; in `StoreForward` and `CollectionService` the
  phone is taken to be enrolled.
- A deadlock between two transactions is resolved by PostgreSQL with an abort, which is a fault of the
  modules; the wait itself is not modelled.
- The retention sweep: planned (section 2). Where a cell is placed (a weighted mean and the widest
  separation of its readings) is arithmetic without state, left to unit tests.
- Exports, reports, import scripts, deployment: read-only or run by hand; see the components in
  `PROJECT.json`.
