# A TLA+ model of Cutsheet

Cutsheet watches network devices: it polls their running configurations,
commits each one that differs to a git repository, analyses the difference,
records the change with its findings in SQLite and notifies webhooks. A REST
API serves the timeline and edits the device registry. This directory holds
TLA+ models of the parts where ordering, failure and concurrency decide whether
a change is seen once, twice or never, of the analysis that decides what is
said about it, the TLC configurations that check them, and TLAPS proofs about
the concurrent ones and the topology.

Source paths below are relative to the repository. `PROJECT.json` maps every
definition to the lines it stands for.

## Inventory

| Component | State | Operations | What is hard | What makes it correct |
|---|---|---|---|---|
| Snapshot store, `internal/snapshots` | git history and index, per-device `.processing-cursor`, legacy `.pending-processing` | `Save`, `MarkProcessed`, `Get`, `GetAt`, cursor recovery and migration | a crash or error between cursor, index and commit; late acknowledgements; unreadable cursors | the cursor never passes an unrecorded change and never goes back |
| Change processing, `cmd/cutsheet/main.go` (`makeProcessChange`, `makeSnapshotNow`), `internal/pipeline` | what a goroutine holds between `Save` and `MarkProcessed` | fetch, save, analyse, record, acknowledge, notify | poll loops, API requests and syslog triggers overlap on a device; each step can fail | every commit is covered by a recorded change; diffs connect; nothing is notified that will be analysed again |
| Notifiers, `internal/notify` | the notifier and attempt a fan-out is at | `Fanout.Notify`, webhook and Discord with one retry | lost answers, dead receivers, a process that dies half-way | one notifier never blocks another; what a receiver got is not analysed again |
| Scheduler, `internal/scheduler` | context, map of loops, polling goroutines | `Start`, `Refresh`, `Stop`, `run`, `poll` | registry writes and refreshes of concurrent handlers; cancelled loops that are not waited for; shutdown | loops follow the registry, one live loop per device, nothing after `Stop` |
| Syslog trigger, `internal/syslogtrigger` | source map, debounce windows, in-flight set, cooldowns, wait group | `readLoop`, `schedule`, `fire`, `stopDebouncers`, `Wait` | `timer.Stop` against the timer's function; chatter during a snapshot; shutdown | snapshots of a device apart, quiet cooldown, exact wait group |
| REST API, `internal/api` | what a request holds between two statements | authentication, device CRUD, change pages, snapshot now | the token count and the token are two statements; read-modify-write of a PATCH with redacted credentials | nobody unauthorised gets in; a credential survives being read and sent back |
| SQLite store, `internal/store` | devices, changes, findings, tokens | CRUD, `RecordChange`, `ListChanges`, tokens | foreign keys with deletion; timestamps compared as text; paging by offset | a change row needs its device; a reader of all pages misses none |
| Collectors, secrets, device validation, `internal/collector`, `internal/secrets`, `internal/deviceconfig` | sealed values, HTTP sessions of a fetch | required and sensitive fields, sealing, redaction, `Fetch` | a value sealed twice; a type change that makes a field sensitive | what a fetch opens is what was typed |
| Analysis, `pkg/configdiff` | none | detect the dialect, parse into blocks, diff, findings, references, peers, switching, rollback, policy | six line-oriented dialects; rules whose order matters; lines of one statement in several blocks; facts that an edit elsewhere changes | the report says of two texts what they say |
| Topology, `internal/netgraph` | none | derive, merge, blast radius | objects of several devices with one name | reachability over shared objects only |
| Serve command, `cmd/cutsheet/main.go` | the wiring | start, signal, shutdown | order of shutdown | stores close last |
| Reports, demo seeder, web UI, CLI | files, fixtures | | | |

**Interaction.** The serve command starts the scheduler and, if configured, the
syslog trigger, under one signal context. Three kinds of goroutine end in the
same change path: a device's poll loop (through the scheduler's change
handler), an API request (`POST /devices/{id}/snapshot`) and a syslog timer's
function. What they share is the snapshot store, whose mutex makes `Save` and
`MarkProcessed` atomic with respect to each other, and the database, which has
one connection. API handlers that write the registry call the scheduler's
`Refresh` afterwards; the scheduler reads the registry only there. The syslog
trigger reads the registry through a cached map. Deleting a device deletes its
change rows; its snapshots and its cursor stay. The change path calls the
analysis (`configdiff.Explain`) on two snapshots in `HandleChange`, and the
notifiers after the acknowledgement. The API derives the topology from recorded
analyses. Tokens are created and deleted by another process on the database.

## Modules

### The change path

`SnapshotStore` — the repository and the cursor files. `commits` is the history
(a commit hash is its position), `staged` the git index, `cursor` and `sidecar`
what reading the two files of a device yields (missing, corrupt, stale or good).
`Baseline` is the case analysis that `ensureBaselineBeforeCommit` and
`resultForIdentical` share; it is what both durably write. `SaveStopsUnstaged`
and `SaveStopsStaged` are the two places where an error or a crash leaves a
`Save` half done: with the cursor written, and with the index written as well.
Initial states are an empty data directory or one left by a release without
cursors, with or without its sidecar.

`ChangeProcessing` extends it with the workers. Each poll loop and each
on-demand request is a worker whose `pc` names its next step; a worker holds
baseline and commit from `SaveSnapshot` to `Notify`, outside any lock, and
every step of every worker interleaves. `RecordChange` is the whole of
`GetAt`, `HandleChange` and the transaction, which is atomic in SQLite;
`RecordRefused` is its foreign key failing because the device is gone. Errors
(`SaveFails`, `RecordFails`, `MarkFails`), a process `Crash`, edits on the
devices and deletion and re-creation of registry rows complete it. `feed` is a
history of all rows ever inserted, deleted ones included.

`ChangeFeed` is the specification of what the path promises, without git,
cursors, workers or failures: heads advance, reports start at acknowledged
points, only a reported head is acknowledged. `ChangeProcessing` implements it
with `head <- LastCommitFor`, `acked <- Baseline`.

`Delivery` refines the last step of the path, `Notify`, into the posts it
consists of: `sending` is the notifier a worker is at and the attempt. A post
is taken, taken with its answer lost, rejected, or fails; a lost answer and a
failure are retried once, a cancelled context ends the whole fan-out, a crash
forgets it. `Announced` is the severity floor, with its default. `notified` now
means that some receiver has the event.

### The loops

`Scheduler` — registry, context, mutex, API handler threads, the serve command
(`Main`) and every polling goroutine ever started, with the row it captured.
`Refresh` is two actions, since the listing waits for the database while the
mutex, but not the registry, is held: `RefreshList` and `Reconcile`. A
goroutine may be inside a poll when it is cancelled, and `select` may take a
tick over a cancellation. A poll's content is `ChangeProcessing`'s subject.
Rows are reduced to whether they are polled, the configuration the restart
check compares, and one field it does not (`vendor`).

`SyslogTrigger` — windows, timers, in-flight set, cooldowns, the wait group,
the cached source map and shutdown. Each critical section under the
listener's mutex is one action; the snapshot callback runs between
`FireBegins` and `SnapshotEnds`. A slot stands for one `time.AfterFunc` timer
and its function: armed, due (expired, waiting for the mutex) or running. The
field `named` of a window (who its packets named) and the variable `since` are
kept for the properties only. The read loop ends by cancellation or by an error
of the socket, after which nothing reopens it.

### The API

`Registry` — the device rows and what the handlers compute on them: required
and sensitive fields of each collector type, redaction, the merge of a PATCH,
sealing. A stored value is a text with the number of times it is sealed, so
that sealing a sealed value, or redacting too little, is visible.

`Timeline` — the change rows and `ListChanges`. A timestamp is the text
RFC3339Nano makes of it, which drops trailing zeros of the fraction, and rows
are ordered as the database orders these texts; the severity floor is the list
of severities the query is given; a page is cut by limit and offset from the
rows as they are at that moment.

`Service` composes them with the authentication of `internal/api/middleware.go`
and the handlers. A request is a sequence of statements, each atomic, and
everything else may happen between two of them: `Count` (of the tokens) and
`Validate`; `PatchRead` and `PatchWrite`; `Snapshot` (device read and time
taken) and `RecordChange`. A request record carries `trusted` and `open` for
the properties, and `job`, what the handler keeps for its second half. `view`
is what a client saw in a GET and may send back, `walk` its way through the
pages.

### The analysis

The dialects are modelled on words: a line is the sequence of its lower-cased
words, a prefix test of the code is a prefix of words, a substring test a run
of words.

| Module | Source (`pkg/configdiff`) | Content |
|---|---|---|
| `ConfigLines` | `parser.go`, `analyzer.go` | the line predicates and token helpers |
| `ConfigParser` | `parser.go`, `explain.go` | dialect detection; `ClassifyLine` and its relatives, ordered switches written as rows of guard and class; the parsers that turn lines into blocks, the merging of blocks of one id |
| `ConfigDiff` | `analyzer.go` | block fingerprints, `DiffBlocks`, touched objects, rollback snippets |
| `UndefinedRefs` | `undefined_refs.go` | references from interfaces, definitions, newly dangling ones |
| `RoutingPeers` | `routing_peers.go` | BGP and OSPF facts of two blocks, their merge, the peer changes |
| `Switching` | `switching.go` | Layer 2 facts, and pairing of the global settings |
| `ConfigRisk` | `analyzer.go` | the risk findings and the highest severity |
| `DesiredState` | `policy.go` | facts of a configuration, requirements, comparison with predecessor and baseline |
| `NetGraph` | `internal/netgraph` | `Derive`, `Merge`, `BlastRadius` |

`ConfigReview` composes them. A device of one of several *families* has its
configuration edited (a line put, removed, moved; a section put, removed,
moved) and, at any moment, reviewed: the analysis of what the last snapshot had
against what the device runs, and the policy evaluation. The second half of the
module holds the reference definitions the reports are checked against. They
are told from the *sections* of the configuration, which the model knows
because it built the text, and never from the blocks the analysis finds:
`LinesOf`, `Rules`, `SwappedRules`, `Meaning`, `Missing`, `BrokenBy`,
`PeerTable`, `RouteTable`, `Setting`.

`NetGraph` keeps the walk of `BlastRadius` as a function of the depth (`Walk`:
what was visited and the frontier before each round), and the loop's condition
apart from it (`EndDepth`), so that both can be reasoned about. For the same
reason the loops over lines and blocks (`Read`, `JoinAll`, `UniquePreserve`) are
recursive functions of how far they have come, with one named step each
(`ParseStep`, `Join`, `Keep`), and `DiffBlocks` strings together what becomes of
each block (`Fate`, `Arrival`).

The `MC*` modules declare the model values and families the configurations
use. The `*Proofs` modules hold the TLAPS proofs; `Induction` holds what they
use for induction over numbers.

## Runs

| Run | Instance | Shows |
|---|---|---|
| `overlap` | 1 device with legacy history, its poll loop and a request, 2 edits, 1 failure, 1 deletion | `TypeOK`, `NothingSkipped`, `TimelineConnected`, `CursorNeverRegresses`, `NotifiedIsFinal` |
| `devices` | 2 devices in one repository, poll loops, 2 edits, 2 failures | `BaselineHasFile`, `RecordedOnce`, and that the path implements `ChangeFeed` |
| `retries` | `Delivery` with two notifiers and the default floor, 1 device, its poll loop and a request, 1 edit, 1 failure, 1 deletion, fair | `EveryCommitRecorded`, `CatchesUp`, and `NotifiedIsFinal` post by post |
| `damaged` | 1 device, 2 edits, 2 failures that may damage the cursor, 1 deletion, fair | `HeadRecorded` |
| `skipped` | 1 device, 2 edits, 3 failures | violation of `NeverSilentlySkipped` |
| `index` | 2 devices, 2 edits, 2 failures | violation of `CommitsAreSeparate` |
| `refresh` | 1 device, 2 handlers, 3 registry writes, 1 failed listing, a good and a bad configuration, fair | `TypeOK`, `OneLiveLoop`, `LoopsFollowRegistry`, `NothingAfterStop`, `StopReturns`, `CancelledLoopEnds` |
| `vendor` | 1 device, 1 handler, 1 write | violation of `PollUsesCurrentRow` |
| `badconf` | as `vendor` | violation of `RefreshRevives` |
| `debounce` | 2 devices, 1 user, 3 timers, debounce and cooldown of 2 ticks, map of 1, 1 registry change, fair | `TypeOK` and the seven properties of the listener |
| `requests` | 2 clients, 1 device id, 2 secrets, 2 tokens, 2 registry writes, 3 instants, pages of 1 and 2 rows | `TypeOK`, `DoorStaysClosed`, `PatchKeepsSecrets`, `WalkSeesAll` |
| `reviews` | 8 devices of six dialects (one with its dialect detected), 2 edits each | the ten properties of `ConfigReview` |

**Why the bounds are enough.** An overlap needs two workers on one device, a
superseded commit needs two edits, and a lost acknowledgement or crash one
failure; two failures let a recovery itself fail. Two devices are what it takes
for one device's commit, or staged file, to meet another's. In `retries` one
edit makes one event besides the legacy one, and two notifiers with two
attempts each give every position a fan-out can die in. Loops of different
devices meet only in the mutex and the listing, so one device with two handlers
and three writes (change, change back, delete) covers the orders of refreshes.
Three timers cover a running function, one armed during it and one of another
device; a tick is shorter than every configured time. In `requests` one id is
enough, since requests on different ids share only the token table and the
timeline; two writes allow a row to be changed under a request and a deleted
row to be created again; the three instants .09, .10 and .11 of a second are
the smallest set whose texts are not in the order of time; the workloads keep
administration, paging and tokens apart, which do not interact. A walk meets
pages of one row (the default) and of two (the maximum, clipped). In `reviews`
two edits make the pair that a report compares, or two reports in a row; the
families hold, per dialect, lines of every kind the findings are about, among
them pairs that only count together (two lines of a rule), that stand in
different blocks (a route-map and its prefix-list) or that differ in one word.
`MaxVlanRange` (256 in the code) is 2, with ranges on both sides of it (10-12
and 10-13); `SlugWords`, where block ids are cut, is 8 words for the code's 80
characters. Deadlock is not checked: with
its edits and failures used up the path stops, as an idle server does, a
stopped scheduler has nothing left to do, and neither has a listener all of
whose clients are silent, or a device nobody edits.

**Fairness.** Poll loops fetch again and again because their tickers tick, and
a started step ends: fetches have a timeout, database and file operations
return, and the HTTP client's timeout ends every post. Nothing is assumed of
the operator, of API clients, of requests arriving or of failures. In
`Scheduler` a goroutine's poll ends (weak fairness); leaving a cancelled loop
needs strong fairness, since `select` may prefer a ready tick but chooses
uniformly. In `SyslogTrigger` time passes, timers' functions run, callbacks
return (the fetch timeout bounds them), and a cancelled context closes the
socket. `Service` and `ConfigReview` state safety only: a request may always
fail, and nobody has to edit.

**Assumption on time.** In `SyslogTrigger` a tick waits for every expired
timer's function to take the mutex once: a goroutine is delayed by less than a
tick. The code relies on it: every window has generation 1, so a function
delayed past a whole cooldown would take a later window for its own.
`OwnWindowOnly` says what the assumption buys.

## What the violations show

* `skipped`: recovery of an unreadable cursor goes back one commit, and that
  commit may itself never have been processed. First snapshot committed, its
  recording fails; the device is edited and committed again; the cursor is
  damaged. Recovery records only the second step and acknowledges HEAD. The
  implementation notes promise "never silently skipped".
* `index`: a `Save` that stops between `wt.Add` and `wt.Commit` leaves its file
  in the index, which the next commit of any device takes along. Change
  detection still works (`BaselineHasFile` and the proofs do not assume the
  contrary), but the history then attributes the file to another device's
  snapshot.
* `vendor`: a loop is not restarted when fields outside the polling
  configuration change, so a scheduled change is analysed with an old vendor
  where an on-demand one is analysed with the new.
* `badconf`: an entry whose goroutine ended because its collector could not be
  built is kept by `Refresh` as long as the configuration is the same.

## What the passing runs do not say

Some properties are worded around a limit of the code. The limits are not
called wrong here, since the repository promises nothing else.

* `PatchKeepsSecrets` speaks of a PATCH during which nobody else wrote the row.
  `UpdateDevice` writes all columns from what the handler read, so of two that
  overlap the later undoes the earlier.
* `WalkSeesAll`: a reader of pages meets every row that was there when the walk
  began, but may meet one twice when rows are inserted, and miss one when a
  device is deleted. The order of a page is that of the timestamps' texts: .1
  sorts above .11, so "newest first" fails between an instant and one whose
  fraction it is a prefix of.
* `NotifiedIsFinal` is about events that reached somebody. An event may reach
  nobody (a crash after the acknowledgement) or one receiver twice (a lost
  answer is retried).
* `VerdictMatchesTexts` and the VLAN findings know that a range of more than
  256 VLANs is not expanded (`pkg/configdiff/analyzer.go:476`): a policy about
  a VLAN inside a wider range does not see it. The reference has the same bound.
* A shutdown finding needs one of the two forms before and after
  (`pkg/configdiff/analyzer.go:1085`): a `shutdown` line that is new on an
  interface with neither gives a changed block and no finding, while
  `docs/parsers.md:65` lists "shutdown/no shutdown changes". `ConfigRisk` does
  what the code does, and no property is about it.
* `DanglingIsNew` covers firewall references of plain EdgeOS interfaces; those
  of a `vif` belong to a VLAN block and are not looked up
  (`pkg/configdiff/parser.go:179`). `delete firewall name X` counts as a
  definition of X (`pkg/configdiff/undefined_refs.go:326`).
* `KeepsOld` is about the commands that are new: an old line put back may itself
  be a negation (`no shutdown`).
* `RestoresOld`, the stronger half of `RollbackIsSound`, is about the dialects
  whose rollback is a command list that can be run (Junos, EdgeOS, PAN-OS);
  for the others the rollback quotes the old lines to be reapplied.
* A report directory is named by the second and the commit
  (`internal/pipeline/pipeline.go:91`): two analyses of one commit within a
  second write the same files, which are equal unless their baselines differ.

## Proofs

Eight modules, none of which assumes more than the named assumptions of the
specifications. What the constants are assumed to be is what the code reads
into them: `StoreAssumption`, `ProcessingAssumption`, `SchedulerAssumption`,
`TriggerAssumption`, `TimelineAssumption` (instants are written in digits, the
default page is no longer than the longest), `RegistryAssumption` (no row is
not a row) and `FamilyAssumption` (the sections a device begins with, and those
and the lines its operator may put, are sequences of raw lines; a requirement
of its policy has three fields).

### The change path

`ChangeProcessingProofs` proves, for any devices, requests, contents, legacy
history and bounds, from `StoreAssumption` and `ProcessingAssumption` only:

* `Invariance`: `Spec => []Inv`
* `TypeCorrect`: `Spec => []TypeOK`
* `NoChangeSkipped`: `Spec => []NothingSkipped`
* `TimelineIsConnected`: `Spec => []TimelineConnected`

`NothingSkipped` speaks of the cursor alone and is not inductive: a worker may
acknowledge a commit whose baseline it read long ago. `Inv` therefore says of
each baseline in use, whether in a cursor or carried by a worker, that it is
`Accounted`: every touched commit up to it is covered, and it is itself the end
of a recorded change. Two facts about the store complete it. `HistoryInv` says
that some commit is the last to touch a device's path (so that the maximum in
`LastCommitFor` exists). `CursorInv` says that a missing cursor means nothing
of the device is staged; without it another device's commit could bring the
file into history while HEAD still counts as an upgrade's processed past.

The lemmas go from the operators (`NewestIsMax`, `AppendTouches`) over the
effect of a commit (`HistoryKept`, `AccountedKept`, `CursorKept`, `SaveKept`)
and of an acknowledgement (`MarkKept`) to the workers (`WorkersKept`). A new
commit leaves older accounts alone because it touches only a position after
them; an acknowledged HEAD is settled because the worker's baseline was, and
its row covers the rest.

`ChangeFeedProofs` continues from there:

* `FeedInvariance`: `Spec => []FeedInv`
* `Implementation`: `Spec => ImplementsFeed`
* `CursorMonotone`: `Spec => CursorNeverRegresses`
* `NotifiedFinal`: `Spec => NotifiedIsFinal`
* `BaselineReadable`: `Spec => []BaselineHasFile`
* `RowsRecordedOnce`: `Requests = {} => (Spec => RecordedOnce)`

`FeedInv` adds to `Inv` what a report needs to be one of `ChangeFeed`'s: rows
and workers name commits of their device, later than a baseline that the cursor
has reached, and a notified commit is either acknowledged or no longer the
newest (`Final`). `StepShape` is the centre of the argument. Every step except
`RecordChange` and `MarkSnapshot` only observes: logs grow, baselines and the
feed stay, and the one thing a worker can newly hold is what a `Save` handed
out. This includes a `Save` for one device while another has no cursor yet, and
the first cursor written for an upgraded device: its durable baseline is the one
it already had. Recording a row is then the abstract `Report`, an
acknowledgement is `Acknowledge` or, superseded, a stutter. `NotifiedFinal`
follows because a `Save` hands out only a commit beyond the baseline, which a
final newest commit is not.
`BaselineReadable` needs one invariant more, `FilesInv`: every commit in a
device's log holds its file, and the index has the files HEAD has, so that no
later commit removes one. By `Accounted` and `RowInv` a baseline is 0 or in the
log.

`RowsRecordedOnce` is the claim of a poll loop on its commit. `OnceInv` says of
each device, as long as nothing has failed, that its loop has no rival
(`Alone`): nothing of the device is staged and uncommitted, the loop carries
the device's newest commit, and no row lies beyond the baseline, except the one
the loop has just inserted and is about to acknowledge. `StoreLeft` and
`SaveLeaves` say that what the other devices' loops commit meanwhile leaves
this alone. The
hypothesis is needed: a `POST /devices/{id}/snapshot` and a poll that overlap
both save the same commit against the same baseline and insert the same row,
which the code permits.

`DeliveryProofs` carries this over to the path with its notifications post by
post:

* `DeliveryInvariance`: `DeliverySpec => [](Inv /\ FeedInv)`
* `DeliveredIsFinal`: `DeliverySpec => NotifiedIsFinal`
* `DeliveryImplementation`: `DeliverySpec => ImplementsFeed`
* `DeliverySkipsNothing`: `DeliverySpec => [](NothingSkipped /\ TimelineConnected)`

A step of `Delivery` is one of `ChangeProcessing` or one of a fan-out
(`StepSplits`), and all the latter can do is to have a receiver given the row
of a worker past its acknowledgement (`PostingKept`), whose commit is `Final`.
None of it moves the store or the feed (`PostingShape`), so it is a stutter of
`ChangeFeed` (`PostingMaps`), and the refinement and the safety of the cursor
carry over.

### The scheduler

`SchedulerProofs`, from `SchedulerAssumption` (finitely many devices; `Main` is
no handler, and `Free`, the mutex's value when nobody holds it, no thread):

* `TypeCorrect`: `Spec => []TypeOK`
* `LoopsAreSingle`: `Spec => []OneLiveLoop`
* `LoopsMatchRegistry`: `Spec => []LoopsFollowRegistry`
* `StopIsFinal`: `Spec => []NothingAfterStop`

The invariant is `TypeOK`, `MutexInv` (who holds the mutex is reconciling),
`LoopsInv` (a goroutine nobody cancelled is its device's entry, and an entry is
such a goroutine), `SyncInv` and `StopInv` (once `Stop` has had the mutex
nobody takes it again). `SyncInv` is the central one: until a listing fails or
the context is cancelled, either the entries are those of the registry, or the
holder of the mutex has listed the present registry, or some thread is still on
its way to a refresh. So of two handlers that write and refresh in any order,
the second to take the mutex lists a registry with both writes.

### The syslog trigger

`SyslogTriggerProofs`, from `TriggerAssumption` (times are positive, finitely
many timers) and the assumption on time above, which is the guard of `Tick`:

* `TypeCorrect`: `Spec => []TypeOK`
* `CountExact`: `Spec => []EveryTimerCounted`
* `SnapshotsAreApart`: `Spec => []SnapshotsApart`
* `CreditIsRight`: `Spec => []CreditedToWindow`
* `WindowIsOwn`: `Spec => OwnWindowOnly`
* `DisabledIsQuiet`: `Spec => DisabledStaysQuiet`

`WindowsInv` says that a window is its timer's and was armed outside any
cooldown, `TimersInv` that a timer whose window was taken away has expired, and
that no other window of the device can be there before its function has run.
This is where the assumption on time enters: the cooldown that the taking began
is still on. `RunningInv` (a running function's device is in flight, by it
alone, and in no cooldown), `CountInv` (the wait group is the number of slots
in use, by the cardinality of their set) and `MapInv` (what the cached map has
was enabled when it was built) complete the invariant.

### The API

`ServiceProofs`, for any clients, tokens, callers, devices, instants and page
sizes, from `TimelineAssumption` and `RegistryAssumption`:

* `DoorIsClosed`: `Spec => []DoorStaysClosed`
* `DataInvariance`: `Spec => []DataInv`
* `TypeCorrect`: `Spec => []TypeOK`
* `SecretsSurvivePatches`: `Spec => PatchKeepsSecrets`
* `WalkIsComplete`: `Spec => []WalkSeesAll`

For the door, the invariant `Inv` says of each request under way what it knows
of its caller: if there is no token now, or the caller's is live now, the
request has noted it, and a handler was reached with one of the notes.

`DataInv` is about the rest. `TablesOK`: a row's configuration is valid and its
values are sealed at most once, so that what a collector opens is what was
typed; each change row has a time in the format of the table and its device
exists. `RequestsOK`: a PATCH between its two statements holds a row made of
the one it read, unless that was written since. Sealing
what is sealed changes nothing, so a stored value opens to its text
(`SealedOnce`), and the merge of redacted fields with the stored row is
a row again (`MergedConfig`, `PatchedRow`); `PatchOpens` puts them together.

`WalksOK` is what paging needs. The texts RFC3339Nano makes are ordered totally,
although not as the instants are (`TextsAreOrdered`, `TextBeforeIsStrict`): each
ends with the Z, which is greater than every digit. So every row of a result has
a place of its own and every place a row (`PlacesDiffer`, `PlacesAreFilled`), a
page holds the rows of its places (`PageHoldsItsPlaces`), and a row inserted
meanwhile moves the others only towards the end (`PlacesOnlyGrow`). A walk has
therefore met every row it began with whose place is now below its offset, and
at a page that is not full no place is left.

### The topology

`ConfigReviewProofs`, for any texts, any family and any analysis of another
device: `BlastRadiusIsExact`: `Spec => []BlastRadiusIsShared`.

What the walk has visited before each round is what is reached in so many hops
(`WalkGrows`), it stays inside every set that is closed under the edges
(`WalkStaysInside`), and once a round found nothing no later one does
(`WalkIsOver`), so the depth at which the loop stops decides nothing but the
bound (`EndIsFirst`, `BlastRadiusIs`). The merged graph of two devices is two
stars around them (`TwoStars`), whose outer nodes are the devices' own, except
for the VLANs (one hop out) and the next hops (two hops out, behind a route).
Where these meet, the two devices are connected in two or in four hops; where
they do not, a star is closed under the edges and the walk never leaves it.

### The reports

`ConfigReviewProofs` also follows a line from the text to the report, for texts
of any length in every line-oriented dialect, from `FamilyAssumption`:

* `LinesReported`: `Spec => []LinesAreReported`
* `EveryLineIsReported`:
  `Spec => [](report.parser # "fortinet" => EveryLineReported)`
* `ReportsAreReal`: `Spec => []QuotesAreReal`
* `ReportsAreExact`: `Spec => []ChangesAreExact`
* `SwapsReported`: `Spec => []SwapsAreReported`
* `RuleOrderIsReported`: `Spec => [](ListsAreBlocks => RuleOrderReported)`
* `CommentsMakeNoReport`: `Spec => []CommentsAreSilent`
* `OrderMakesNoReport`: `Spec => []OrderIsSilent`
* `NoiseMakesNoReport`: `Spec => [](StatementsAlone => NoiseIsSilent)`
* `RisksAreFound`: `Spec => []ReportIsAssessed`
* `BroadBlocksAreFound`: `Spec => []BroadBlocksAreHigh`
* `BroadRulesAreHigh`: `Spec => [](BroadInBlocks => BroadRuleIsHigh)`
* `RollbacksAreSound`: `Spec => [](Revertible => RollbackIsSound)`
* `SettingChangesArePaired`: `Spec => [](SettingsStandAlone => SettingsArePaired)`
* `DanglingIsReal`: `Spec => []DanglingIsUndefined`
* `VerdictsAreOfLines`: `Spec => []VerdictIsOfLines`
* `VerdictsMatchTexts`: `Spec => [](TextsAreRead => VerdictMatchesTexts)`

Some properties are told from the sections of a configuration, and hold only of
texts that the classifier of the dialect takes apart the way they were put
together. Their theorems name what they need of the texts as a hypothesis:

| Hypothesis | What it asks of the texts |
|---|---|
| `ListsAreBlocks` | the rules of one list are read into one block |
| `BroadInBlocks` | so are the lines of a broad rule of the family |
| `StatementsAlone` | set-style, one statement a section; the statements of an access-list or firewall id are rules of one list |
| `Revertible` | set-style: no statement is a prefix of an old one of another block; Cisco-like: no line that can be negated is indented, and an old line whose tail is one is its `no`; or a dialect without commands. FortiOS is left out |
| `SettingsStandAlone` | a global setting has at most one line, which is the top of a section and not indented, in a dialect neither set-style nor FortiOS; no changed interface is called `global` |
| `TextsAreRead` | the blocks state, requirement for requirement, what the standing lines state |

None is an assumption: a step may lead to texts that do not meet it, and the
theorem then says nothing of these. TLC found each true in every reviewed
state of `reviews` that it is about: `StatementsAlone` where the dialect is
set-style, `Revertible` where it is not FortiOS, the others in all. The run
itself checks the properties without the hypotheses.

The inductive invariant is `ConfigInv`: the configurations are sequences of
sections, and a report is the analysis of the two texts it is about. Everything
else is about what the analysis computes, one loop after the other.

*Completeness.* A state of a parser `Held` a line if a closed or the open block
has it. Each move of a parser (`Continue`, `AddBlock`, `Open`, `Flush`) keeps what
is held but the empty line, and each line read is held afterwards (`LineIsRead`
for one line, `ReadQuotes` for the text). Merging blocks of one id neither drops
nor invents a line and leaves one block per id (`MergedQuotes`); this is what the
diff needs, because of two blocks with one id it would look at the first only. So
the blocks of a text quote exactly its lines (`ParseQuotes`), and a line that one
side alone has makes its block a change (`DiffQuotes`). A FortiOS line that opens
a section (`config ...`) is the exception: the parser repeats it at the head of
every entry of the section but not for a section without entries. `Headings`
names these lines; `LinesReported` leaves out them and nothing else, and adds that
each lost line is in the text the rollback reapplies, as `RollbackIsSound`
has it.

*Soundness.* In the other direction nothing quoted is made up (`ReportsAreReal`):
what a change has before, and what a rollback puts back, are statements of the
old text, and what it has after are statements of the new one.

And the changes are as many as they should be (`ReportsAreExact`): one, with one
snippet of the rollback, for each id whose blocks differ or are on one side only,
none for an id whose blocks are `Unmoved`. Both diff loops run over blocks of
distinct ids, and the second adds only ids the first did not have
(`DiffIsExact`).

*Order.* A line is `Ahead` of another in a block if no copy of the other comes
before it, and blocks are `AheadIn` order if the block of the first has it ahead
and no block before that one has the other. Every move of a parser keeps this
(`KeepsOrder`), and so do dropping repeated lines (`UniqueOrder`) and merging
(`MergedOrder`): the block that the first line joins cannot get the second one in
front. Two lines of a rule list that changed places therefore stand in its two
blocks in two orders, which `blockFingerprint` tells apart (`OrderedChange`).
`SwapsAreReported` tells this from the texts as the parser reads them (`Swap`):
the two rules are quoted by blocks of one id, kind `acl` or `firewall`, and
the rules are in no other block. `RuleOrderReported` is told from the sections
instead; `ListsAreBlocks` is what links the two. Whether a dialect's rule list is
one block is for its classifier to say; the run `reviews` checks the property
without that hypothesis on the families' dialects.

*Silence.* A parser moves only on lines that say something, so what it has read
depends on these alone (`Leads`, `ReadSayings`), and blocks that stayed as they
were are no change (`SilentDiff`). Texts with the same `Sayings`, however many
comments, remarks and empty lines differ, give an empty report. In the set-style
dialects the order of statements does not count either (`OrderMakesNoReport`):
every statement goes to the block its own words name, so a block is the
statements of its id, in the order of the text, without repetitions. A
fingerprint tells the order of an access list or firewall only, and sorts the
lines of every other block. `StatementsAlone` links this to `NoiseIsSilent`.

*Risk.* `RiskFindings` raises findings change by change, `MergeFindings` joins
those of one severity, category and title. What is joined keeps the severity and category and
all of the evidence, so `AnalysisIsAssessed` can tell the report from the
changes: the findings are theirs and quote lines of theirs, and the highest
severity is high, and the rollback of a change risky, exactly when one of them
is. A block that broadens and did not
stand word for word before is a change of its own (`ReportsAreExact`), and the
finding about it quotes all its lines.

*Rollback.* The commands of a set-style change are the old statements of the
block, or, where it is added, a `delete` for each of its statements. What a
`delete` takes with it is every line that the deleted one is a prefix of. An
added block has no old lines, so an old line taken with it would have to be of
another block, which is what the hypothesis on prefixes excludes
(`SetRollback`). In the Cisco-like dialects only the lines of an added block are
negated, and a line of such a block that is indented in neither text is not in
the old text (`AddedIsNewLine`), so its `no` is not about an old line
(`CiscoRollbacks`).

*Settings.* Only the last line a block quotes for a setting counts, so pairing
depends on which lines a change quotes. `StandingLine` is the key: an unindented
line present in both texts is quoted as gone exactly when it is quoted as new,
since its block is named by the line alone. So a setting that kept its value is
quoted on both sides or on neither, and one that got another is quoted once on
each (`ReportedSettings`), from which `GlobalSwitching` makes one fact
(`AnalysisPairs`).

*References.* What `DanglingIsUndefined` says of a reported reference is one
half of `DanglingIsNew`: some line of the new text uses it and no line that is
quoted defines it. The other half, that none is missed and that it was not
dangling before, needs which interface block a line lands in, which is the
classifier's business.

*Verdicts.* `VerdictInv` adds to `ConfigInv` that a verdict is the evaluation of
the policy for the three texts. All requirements but those of firewall properties
are about single lines, whatever block they stand in, so that completeness and
soundness of the blocks decide them (`LinesTell`, `VerdictsAreOfLines`): a
requirement is introduced when the lines of the new text break it and those of
the old one do not, and likewise for resolved and for the baseline. With
`TextsAreRead` this is what the sections say (`VerdictsMatchTexts`).

### Induction

The library's induction theorems take an operator as a parameter, which the
installed provers cannot instantiate. `Induction` states what replaces them
about sets and functions: a set of numbers has a least element
(`LeastElement`), a set of numbers with 0 and, with each number, the next, has
all (`Succession`, and `UpTo` for the numbers up to a bound), and a step that is
a function of a set into itself can be repeated any number of times
(`Iteration`; `Recursion` for a number of steps that differ), which gives
recursive functions such as `Walk` and `Read` their equations (`WalkSteps`,
`ReadSteps`, `JoinSteps`, `KeptSteps`, `FlattenSteps`).

### Only model-checked

* All liveness, since fairness and `ENABLED` are beyond the prover:
  `EveryCommitRecorded`, `CatchesUp`, `HeadRecorded`, `StopReturns`,
  `CancelledLoopEnds`, `ArmedIsSnapshotted`, `ShutsDown`.
* The run with damaged cursors.
* Of `ConfigReview`: `RoutingMatchesTexts`; of `DanglingIsNew`, that no reference
  is missed and none was dangling before; `EveryLineReported` where the FortiOS
  headings are concerned; the commands of a FortiOS rollback; `NoiseIsSilent`
  beyond comments in the dialects that are not set-style; and what the other
  conditional properties say of texts that do not meet their hypotheses. These
  compare what the classifiers of six dialects make of lines with reference
  definitions told from sections. For every text most are not even meant to
  hold: the families are written in each dialect's own syntax, and the code's
  heuristics are only asked about that.

## Not modelled

* The JSON dialects (`pkg/configdiff/unifi.go`, `eero.go`): a walk over a
  decoded document with one block per object and findings on its fields; and
  the platform a report names (`detectPlatform`), which nothing else reads.
* Markdown and HTML reports, details and recommendations of findings, labels of
  graph nodes, payloads of notifications: wording and layout.
* The fields of an access-list rule that only wording uses, and the parsing of
  prefixes and ports inside it.
* The API's report and single-change endpoints, CORS, request logging and
  recovery from a panic: they read, or wrap the handlers.
* Network I/O of the collectors, and the cryptography and key file of the
  secrets box: a fetch succeeds or fails, a value is sealed or not.
* The `cutsheet device` commands, which write the registry from another
  process without a `Refresh`; a running server sees them at its next one.
* A sidecar that cannot be parsed: it is dropped, and the device is then an
  upgrade.
* Sources shared by devices are a packet for each; dropped-packet and
  unknown-source logging is left out.
* Demo seeder, web UI, one-shot commands: sequential uses of what is modelled,
  or I/O.

## Plan

1. *Done*: `SnapshotStore`, `ChangeProcessing`, `ChangeFeed`, `Scheduler`,
   `SyslogTrigger`, and the proofs about all of them.
2. *Done*: the API as concurrent requests (`Registry`, `Timeline`, `Service`)
   and its authentication proved; notifications (`Delivery`, `DeliveryProofs`).
3. *Done*: the analysis of the line-oriented dialects against reference
   definitions, policies and the blast radius (`ConfigReview` and below).
4. *Done*: proofs of what polling records once, of the delivery's refinement,
   of the API's tables, PATCHes and pages, and of the blast radius.
5. *Done*: proofs that a report quotes every line that changed and no other,
   that it misses no rule that moved, and that comments make none.
6. *Done*: proofs of the risks and broad rules, the set-style and Cisco-like
   rollback, the paired settings, the order of set-style statements, what a
   reported dangling reference is, and the verdicts of a policy.
7. Open: the JSON dialects; `RoutingMatchesTexts` and the rest of `DanglingIsNew`
   for every text, which need that a section is one block of its dialect.
