# A TLA+ model of Blackgrid

Blackgrid is one Go server over PostgreSQL: an inventory of networks (sites, VLANs, prefixes,
addresses, devices), a scheduler that checks monitors, incidents and notices that follow from
the checks, network discovery, status pages, and an event stream for its web client. This
directory holds TLA+ modules for its concurrent core, TLC configurations that check them on
small instances, and TLAPS proofs for every value of the constants. Paths below are relative to
`src/backend/`.

## Inventory

| Component | State | Operations | What is hard | What makes it correct |
| --- | --- | --- | --- | --- |
| **Monitor scheduler** `internal/monitor/scheduler.go` (loop, worker, Stop) | in-progress map, job channel, stop channel, wait group | tick, worker loop, `Stop()` | goroutines, a bounded channel, a mark taken back on three paths, shutdown | one check of a monitor at a time; no mark is leaked; `Stop()` returns and only when quiet; no monitor starves as long as checks do not fail for ever |
| **Monitor status lifecycle** `scheduler.go` (executeCheck), `internal/api/handlers/monitor.go` | `monitors`, `monitor_results` | check, heartbeat, test, pause, resume, patch, rotate token, delete | every writer reads a row, works on its copy and writes all columns back | enabled and paused agree; status, results and incidents agree except after a named race, failure or request |
| **Incident service** `internal/service/incident.go`, `incident_hook.go` | `incidents` | open, acknowledge, resolve, resolve on recovery | read and write are separate statements, callers are many goroutines | an open incident of a scheduled monitor is its newest; a recovery leaves none open |
| **Notifications** `internal/service/notification.go` | channels, delivery records | dispatch, deliver once, test a channel, merge a masked password | fire-and-forget goroutines, a slow mail server, loss at a stop, secrets that clients see masked | each notice is tried at most once on each channel, and no failure keeps it from the others; a resolution is told once, and the gauge drifts from the open incidents for three reasons only; a mail channel keeps its password when a client sends back the mask or none |
| **Event bus, SSE** `internal/events/bus.go`, `handlers/event.go` | subscriber map, buffers, closed flag | publish, subscribe, unsubscribe, shutdown | full buffers, close against send, subscribe after shutdown | no send on a closed channel; events in order; publishers never block; streams end |
| **Discovery** `internal/service/discovery.go` | scans, results | manual and scheduled scans, accept, ignore, stale marking | check-then-create, long scans, crash in a scan, several writes in one operation | two scans of a prefix run together only if their starts overlapped; every scan record ends; a host that answered is never reported stale; an accepted result is linked to its own address unless the row is moved meanwhile |
| **Authentication** `internal/service/auth.go`, `auth_middleware.go` | users, sessions, tokens | first admin, login, sessions, tokens, user changes | check-then-act on counts, several writes per request, sessions of disabled users | an enabled admin remains unless a guard's count was out of date; no credential outlives its user |
| **Status pages** `internal/service/status_page.go` | pages, attachments with positions | attach, reorder, remove, aggregate, public view | positions computed from a read, reorder row by row | a new attachment is last, and a reorder is validated as a whole before it writes, when requests come one at a time; the aggregate fits what is shown |
| **IPAM** `pkg/ipam`, `internal/service/prefix.go`, `ip_address.go` and CRUD services | inventory tables | next available address, utilization, CRUD | address arithmetic at /31, /32, full prefixes and the end of the family; three places that compute the hosts of a prefix; a prefix read twice | the address offered is the lowest free host; utilization and scans go by the same hosts |
| **Rate limiters** `handlers/middleware.go` | map of limiters | get or create | double-checked creation under a RWMutex | one limiter per client |
| **Shutdown** `cmd/server/main.go` | | scheduler, discovery, HTTP, bus, pool, in this order | each step waits for the one before | nothing uses what has been closed |
| **Retention** `internal/service/retention.go` | | delete by age, daily | deletes rows that other components still refer to | ends scan records nobody ends |
| Audit, probes, masking, metrics, migrations, frontend | | | single statements, network I/O, formatting | not modelled (see below) |

How they interact: `main` starts the scheduler, which calls the probe runner and then the incident
hook; handlers write the same monitor rows and, for heartbeats, call the same hook; the hook calls the
incident service, which starts notification goroutines and publishes on the bus; the SSE handler
drains the bus. A scan is a goroutine that the discovery ticker or a handler starts; it reads and writes
the prefixes and addresses that the IPAM handlers edit, and retention deletes its record. Status pages read
monitors and incidents. The middleware asks the authentication service before every handler. Everything shared lives in PostgreSQL and is read and written by single statements,
without transactions, so the interleaving of statements is the concurrency that matters. Only the
scheduler and the bus share memory.

The hazards, each at its line, are listed in `PROJECT.json`.

## Modules

| Module | Models |
| --- | --- |
| `CheckDispatch` | what the scheduler promises: a listed monitor is claimed at most once at a time (abstract specification) |
| `MonitorScheduler` | the scheduler: loop, channel, workers, `Stop()`; implements `CheckDispatch` |
| `MonitorScheduler_proofs` | its theorems |
| `IncidentService` | the incident service and the environment its callers form |
| `MCIncidentService` | symmetry for model checking it |
| `MonitorLifecycle` | checks and handlers on the monitor rows; takes dispatch from `CheckDispatch`, extends `IncidentService` and implements its specification |
| `MCMonitorLifecycle` | a bound for model checking it: one busy monitor at a time |
| `MonitorHistory` | `MonitorLifecycle` with a record of the races, failures and requests after which the status of a monitor need not fit |
| `MonitorLifecycle_proofs` | the theorems of the two, and those of `IncidentService`, which they use |
| `EventBus` | the event bus, the SSE handlers that drain it and the end of `main()` |
| `EventBus_proofs` | its theorems |
| `ScanLifecycle` | what is promised of a scan record: queued, running, completed or failed (abstract specification) |
| `Discovery` | scans, results, accept and ignore, with the requests and jobs that write the same tables; implements `ScanLifecycle` |
| `DiscoveryHistory` | `Discovery` with a record of starts that overlap and rows that move |
| `Discovery_proofs` | the theorems of the two |
| `MCDiscovery` | an instance of them |
| `AuthService` | users, sessions, API tokens, the middleware |
| `AuthHistory` | `AuthService` with a record of the requests whose count of admins is out of date |
| `AuthService_proofs` | the theorems of the two |
| `StatusPages` | pages, attachments, reorder, public view |
| `StatusPages_proofs` | its theorems |
| `Notifications` | channels, notices, deliveries, and what writes incidents with the gauge of open ones |
| `NoticeHistory` | `Notifications` with a record of overlapping calls on an incident and of how far the gauge is off |
| `Notifications_proofs` | the theorems of the two |
| `Ipam` | prefixes, addresses, the next available address, utilization, the hosts of a scan |
| `Ipam_proofs` | its theorem and the arithmetic of blocks |
| `MCServices` | an instance of the last four components, one per behaviour |

The layers: `MonitorScheduler` implements `CheckDispatch` (proved). `MonitorLifecycle` uses the actions
of `CheckDispatch` as the guards of its checks, so it sees no more than that promise. It implements
`IncidentSpec`, the specification of `IncidentService` in which hooks of a scheduled monitor come one at
a time (proved). What is proved of `IncidentSpec` therefore holds of the server. `EventBus` stands beside them: nothing reads an
event to decide anything, so who publishes is left open. `Discovery` implements `ScanLifecycle` (proved). `Notifications` repeats of an incident only
its status and who writes it: openings, resolutions, acknowledgements, deleted monitors. `AuthService` and `StatusPages` meet the rest in rows only, which their environment changes at will. `Ipam` has of a scan only what turns a prefix into its list of hosts; for `Discovery` that list is
the constant `HostsOf`.

### MonitorScheduler

`loop` says where the loop goroutine is: in the select, in the range over the due list, or returned.
`batch` is the rest of the due list as the place of each monitor, `held` the monitor that is marked and
not yet sent, `jobs` the channel, `wpc` and `job` the workers, `main` the goroutine that calls `Stop()`.
`last_checked_at` is only compared, so it is kept as a rank and as the set of monitors whose interval has
elapsed. `Mark`, `Skip`, `Send` and `Drop` are the lock regions and the non-blocking send of the range
body; `Take`, `WriteRow`, `CheckFails`, `Release` and `Exit` the worker; `IntervalElapses` the clock, `WriteBack`, `Test` and `Heartbeat` the handlers: `WriteBack` is a pause, a resume, a PATCH or a token rotation, which writes `last_checked_at` back as it was read, so the row may move to an earlier place. The mutex is held around single map accesses, so each lock region is
one step. A tick whose query fails, or whose list is empty, changes nothing.

### IncidentService

`incidents` is the table in the order of `started_at`; a deleted row stays in it as `deleted`, so that a
position is an identity. `call[t]` is the write that thread `t` still has to do: a call begins with its
read (`OpenForMonitor`, `ResolveForMonitor`, `Acknowledge`, `Resolve`) and ends with its write
(`Insert`, `WriteAcknowledged`, `WriteResolved`) or with a failing statement (`CallFails`). A read after which the code
writes nothing changes no state and is no action. `Restart` loses every call, `DeleteMonitor` cascades. The
field `recovered` is auxiliary: it records whose resolution was the last.

### MonitorLifecycle

Thread `m` is the check of monitor `m`, of which there is one at a time by `CheckDispatch`; the other threads are
requests. `row` holds the columns that decide, `retry_count` among them, and `failures` counts the latest failures up to `MaxRetry`, the largest
`retry_count` there is: the code asks for as many results as `retry_count` and counts the failures at their head, so whether they reach it is all that it can tell. `fetched` are the rows of the due list, and `check[m].copy`
the row a worker got through the channel. One action per statement: `Fetch`, `Run`, `Decide`, `WriteRow`,
`CheckHook`; `ReadRow`, `StoreResult`, `WriteBack`, `RecordHeartbeat`, `HeartbeatHook`. `Edited` is what each
handler makes of its copy; a PATCH (`Patched`) may name `enabled`, `retry_count`, both or neither, and one of neither is also a token rotation. `monitor_type` is left out, which a PATCH may change at any time: it decides only that a push monitor is not tested. A probe may return any result. The interval is not modelled
here: any selectable row may be due, which includes the schedules `MonitorScheduler` has.

`MonitorHistory` adds two sets of monitors. `crossed` holds those whose status and incidents something has set at odds: a status put back from an old copy (`RestoresStatus`), hooks that overlap or act on a
status that is no longer the row's (`HooksOverlap`), a hook that is cut short by a failing statement or a restart (`LosesHook`), an acknowledgement over a resolution (`Reopens`). `unjudged` holds those whose status leaves a result
out of account: two results judged at a time or the result of a manual test (`ResultIgnored`), a failing statement of the judgement or a restart in it (`JudgementLost`), a lowered `retry_count` (`LowersRetry`), a status put back. A monitor
is taken off again as soon as nothing is under way about it and it is in order.

### EventBus

`subscribers` and `closed` are the map and the channels that have been closed, `chan` the channels, `writer` the goroutine that
has called `Lock()`. The lock is a `sync.RWMutex`: once a writer has announced itself new readers block, it gets
on when the readers before it have left (`Holds`), and the readers it kept out enter at its `Unlock`. `pub[p]` is where
a call of `Publish()` is and `todo[p]` the matching subscribers it has still to send to; `Send` is one iteration, in any order, as a range over a map is.
`stream[c]` is where the SSE handler of client `c` is: accepted, in its select, writing, leaving, done. `main` goes from serving
through draining (`e.Shutdown`), drained and closed (`bus.Shutdown`) to exited, or to fatal when the shutdown timeout runs out. `last` is auxiliary: what
each handler has received. An event is its publisher and a number; filters and payloads let any subset of the subscribers match.

### Discovery

The tables are `prefixes`, `rows` (`ip_addresses`), `scans` and `results`; a result's id is its scan, host and kind, since a scan writes
at most one result of a kind for a host. `run[s]` is the goroutine of scan `s`: `todo`, `probing` and `saving` are the hosts on their way through the workers,
`known` and `live` the snapshot of the addresses, `seen` the set that the stale loop consults, `expired` says that the context is over, after which every statement fails.
`start[t]` is what `StartManualScan()` of thread `t` has checked, `due` what the ticker has still to start, `accept[a]` an `AcceptResult()` in progress.
The operators named after queries are the statements with their foreign keys and unique constraints; the actions above them are the code between two statements.
`scans[s].age` stands for the clock: `recent`, past the interval of the prefix, past the retention period. `silent` is auxiliary: the hosts a scan has probed to the end in vain.
`DiscoveryHistory` adds, for each thread in `StartManualScan()`, the active scans inserted since it looked (`missed`), the pairs of active scans of which one was inserted so (`overlapped`), and the requests whose row has been moved since they found it (`moved`).

### AuthService

`users`, `sessions` and `token` are the tables, `call[c]` what request `c` has read: a credential (`session`, `token`), the grant made of it (`granted`),
then the copy of the row that the operation is about. `PatchReads` is the read of the handler, `PatchGuard` that of the service, `UpdateUser` and `UpdatePassword` its two
writes. `CallEnds` ends a request that is refused or whose statement fails.
`AuthHistory` adds the requests past their guard since whose count an admin has gone (`outdated`) and whether one of them has taken another away (`outrun`).

### StatusPages

`links[p]` are the attachments of a page in the order of `created_at`, `pageCall[c]` and `view[v]` what a request and a public request have read. `CheckListed`, `ReadListed` and
`WriteListed` are the two loops of a reorder, one statement at a time; `Wrap` is the conversion of a position to an int32. `FlagsAfter` is the loop of the aggregate over the monitors,
a function of the number of iterations. `Place` is the position of a row in the list of the ORDER BY: the rows before it in order, then in `created_at`. Monitors change and are deleted at will; incidents stay as the scope says.

### Notifications

`notice[n]` is the goroutine of a notice: spawned, listed, sending, storing, done, or lost in a restart. Whoever causes it names it: the opening, a resolving thread, the test button. `Deliver` takes the next
channel, `SendWebhook` and `SendSMTP` are the answer or the failure of the attempt, `StoreDelivery` the record. `attempts` and `listed` are auxiliary.
`resolver[t]` and `acking[t]` are the incident that a resolution or an acknowledgement of thread `t` has read; `ResolveIncident` and `AcknowledgeIncident` are their UPDATE, which has no condition but the id, `DeleteMonitor` the cascade, which leaves the gauge alone.
`NoticeHistory` adds the threads whose incident was resolved since they read it (`late`), the incidents whose resolution such a thread has overwritten, and `drift`: minus one for each such write, plus one for each unresolved incident that goes with its monitor, and what a restart leaves.

### Ipam

`prefixes` and `rows` are the tables, a row under its address because that is UNIQUE. A prefix is what the request wrote: its family, an address and a number of bits, not its block. `ask[r]` is what a request has read of a prefix
(`GetPrefix`) before it reads the rows and computes (`NextAvailableIP`, `Utilization`), `scan[id]` the scan: queued with a validated prefix, then with the list that `RunScan` makes of the prefix it reads anew.
`StartManualScan` is one step, its statements one after the other being `Discovery`'s. `Visited` is the loop that the search and the list share, of which the search returns the first address not taken (`FirstFree`): from the address of the prefix to the broadcast address, the end of the block or the end of the family.
`HostsOf` is what it is compared with, the hosts of a block as a set.

### MCServices

`AuthService`, `StatusPages`, `Notifications` and `Ipam` share no variable. `part` says which of them a behaviour is about; the others stay at their initial state, so the state space is the sum of four, not the product.
The first three, with their history variables, and `Discovery` have a rigid variable that bounds a behaviour: the scope (`authScope`, `pageScope`, `noticeScope`, `scope`) says which operations occur, with which inputs, and, for pages and notices, whether requests race.
The initial states pick one scope of a set, so one run has several small settings instead of one too large for TLC.

## Runs

| Run | Instance | Shows |
| --- | --- | --- |
| `scheduler_workers` | 2 monitors, 2 workers, failing checks | checks never overlap, `Stop()` returns and only when quiet, `CheckDispatch` is implemented |
| `scheduler_full` | 3 monitors, 1 worker, a channel of 2 | the drop on a full channel leaks no mark; no monitor starves if checks fail finitely often |
| `incident_calls` | a scheduled and a push monitor, 3 threads, 3 incidents, faults | an open incident of a scheduled monitor is its newest; a recovery leaves none open |
| `lifecycle_requests` | a scheduled and a push monitor, one busy at a time, their checks, a request, all operator requests and heartbeats, 1 incident, faults | `enabled` and `paused` agree; `IncidentSpec` is implemented |
| `lifecycle_history` | a push monitor, its check, a request, heartbeats, tests, patches with `retry_count` 1 and 2, pauses, acknowledgements, 1 incident, faults | up means no active incident, down or degraded means one, and the retry threshold means down, except after the events that `MonitorHistory` names |
| `lifecycle_stale_job` | a scheduled monitor and its checks only | violated: a recovery is missed and its incident stays open |
| `bus_streams` | 2 streams, 1 publisher of 3 events, channels of 2, the shutdown | no send on a closed channel, order, `Publish()` returns, an abandoned stream leaves the map |
| `bus_shutdown` | 1 stream, 1 publisher | violated: a stream whose client stays does not end before the process does |
| `discovery` | 1 prefix of one host and an address outside its range, 2 scans, the ticker and a request, 1 accept, 2 rows; three scopes | stale reports are sound, two scans run together only after overlapping starts, records implement `ScanLifecycle` and end, an accepted result is linked to its own address unless the row was moved |
| `discovery_due` | the same | violated: the ticker starts a prefix again right after its latest scan, once an older one has passed the interval |
| `services` | 2 users and 2 requests; 2 pages, 2 monitors, 2 requests and a view; 2 channels, an incident, 2 resolutions, 2 requests; a prefix, 3 addresses, a request and a scan | an admin remains unless a guard's count was out of date; attachments, reorders and aggregates are as documented; notices are tried once, on every channel; a resolution is told once and the gauge is off by what `NoticeHistory` counts; the password of a mail channel survives a masked PATCH; free addresses, utilization and scans go by the same hosts |
| `auth_last_admin` | the same | violated: two racing requests leave no enabled admin |

**Bounds.** Two workers and two monitors are the least with which checks could overlap and a worker could drain what
another queued; three monitors and one worker are the least with which a channel of `2 * workers` overflows.
Three threads give two writers between the read and the write of a third; three incidents give an old, a resurrected and a new one.
`MaxIncidents` bounds rows ever inserted: an insert beyond it does not happen. Of the two passing runs of the life cycle it is 1, so that they see one outage with its recovery; that an outage after it is no different is what the theorems say, for any number, and `incident_calls` has three. `OneBusyMonitor` keeps one of the two monitors of `lifecycle_requests` as it was created: what the statements read and write is of one monitor, so two busy ones would add interleavings and no interaction.
The number of failing checks of the scheduler is not bounded. `Faults` switches failing statements and restarts on or off; their number is not bounded either. `MaxRetry` bounds `retry_count`: at 2 a
monitor passes through degraded before it is down, and a PATCH can lower the threshold below the failures counted so far.
`Capacity` and `MaxEvents` are such that a channel of the bus overflows and is then used again. One publisher meets both writers and a slow
and a fast stream; publishers share nothing but the read lock, and the proofs cover any number of them.

In `Discovery` two scans are the least of which one can be started while another runs, and of which the older one makes the prefix due; ids are used again once nothing refers to them, so behaviours go on
for ever. The address outside the range is what an operator may record and no scan ever probes. In `MCServices` two users are the last two admins, two pages compete for a slug, a list with a repeated monitor and one with all of them cover
the reorder, `MaxOrder` = 31 stands for 2^31 - 1 and `IncidentLimit` = 3 for 50, so that both are met. `services` and `auth_last_admin` do not check for deadlock: a behaviour whose scope has no operation left may stop.

In `Ipam` addresses of 4 and 7 bits and an int of 6 keep the order of 32, 128 and 64. The IPv4 prefixes have 8, 4, 2 and 1 addresses, so that both ends are left out, are hosts, or are the same, and all lie at the end of the family, where `Next()` has no result; two of them name the same block, one with host bits.
Of IPv6 there is a block of 2 and one with more addresses than int counts. `MaxIPv4PrefixSize` = 2 refuses the largest IPv4 prefix. Three recorded addresses fill the smaller blocks, and one row for a prefix is enough, since nothing relates two.

**Fairness.** The scheduler, the bus, discovery and the notices state some. The loop and each worker are goroutines that the runtime schedules, so their
steps are weakly fair; a check ends because its context has a deadline. `CloseJobs` is strongly fair: when a tick and the stop are both
ready, select picks at random, so a stop that stays ready is picked. Nothing forces an operator, a heartbeat, an
interval or a call of `Stop()`. `NoStarvation` has a premise, that checks fail and requests restore an old `last_checked_at` (`HoldsItsPlace`) only finitely often: a check that fails leaves `last_checked_at` alone (`scheduler.go:190-194`, `249-252`), so
as many monitors whose checks fail for ever as the channel and the workers hold stay at the head of the list and starve the rest. It needs one assumption more, `PromptSpec`: no worker gets on with its check while the loop is inside one
range over the due list, which does map lookups and non-blocking sends only. Without it TLC finds that a worker that always ends a check between two
elements of the range can hand its place to a younger monitor for ever. In the bus, publishers and handlers are goroutines (weakly fair), `Lock` is strongly
fair because a mutex is handed over in the order of the calls, and `Leave` is strongly fair because the select picks at random among an event, a keepalive and the end of the
request. `Written` has no fairness: a client that stays may read as slowly as it likes; a write to a client that is gone fails in the end.

In discovery every step of a scan's goroutine is weakly fair and time passes (`Age`); `CleanupDiscoveryScans` is weakly fair because retention runs daily, with 90 days unless it is configured
away with 0, in which case `EveryScanEnds` does not hold. Nothing makes a statement succeed, a restart stay away or a request arrive. In the notices the goroutine is weakly fair and a webhook ends by its HTTP timeout; `SendSMTP` has no
fairness, because the code sets no deadline on a mail connection. A statement fails only where the scope permits restarts, and a notice that is lost has tried every channel that it still lists.

**What history variables are for.** The UPDATE statements of the code have no condition but the id, nothing is in a transaction, and no statement is tried again. Many properties one would ask for are therefore not true of it: some race, failing statement or
restart breaks each of them, and for two of them (`RecoveryEndsIncident`, `LastAdminStays`) a run exhibits that. The modules `MonitorHistory`, `DiscoveryHistory`, `AuthHistory` and `NoticeHistory` do not exclude those steps. They let all of them
happen, remember those that do damage, and claim that nothing else does:

| Property | Broken by, and by nothing else |
| --- | --- |
| `IncidentsFollowStatus` | hooks of the monitor that overlap or act on a status that is not the row's any more; a hook cut short by a failing statement or a restart; a request that puts an old status back; an acknowledgement over a resolution |
| `ThresholdMeansDown` | two results of the monitor judged at a time; the result of a manual test; a heartbeat whose result is not stored; a failing statement between result and status, or a restart; a request that puts an old status back; a PATCH that lowers `retry_count` |
| `OneScanPerPrefix` | two calls of `StartManualScan()` (of requests or of the ticker), one inserting its scan between the look-up and the insert of the other |
| `LinkMatches` | a PUT that moves the row between the two statements of the accept |
| `AdminRemains` | a demotion, disabling or deletion of an admin whose guard counted an admin who is gone by the time of the write |
| `GaugeAgrees` | a restart; the deletion of a monitor with unresolved incidents; a resolution or an acknowledgement that overwrites a resolution made since it read the incident, each by the amount `drift` has |
| `ResolvedIsToldOnce` | such an overwriting call |

The first two take a monitor off the record when it is in order again, so what a race has done does not excuse what happens after it. Each claim is at the level of single steps of the code: the record is written in the step that does the damage, from what the step does, and no
step is forbidden. The scopes of `MCServices` keep two switches, `serial` for the requests of `StatusPages` and `lone` for those of `Notifications`: `ReorderIsWhole`, `AttachGoesLast` and `PatchKeepsPassword` are claimed for requests one at a time, and fail in races. `NoStarvation` has the premise above. Every other property of a passing run holds with all races on.

## Proofs

`MonitorScheduler_proofs` proves, for any finite sets of monitors and workers, `TypeCorrect`, `NoDuplicateChecks`, `NoLeakedMark`, `StopIsQuiet` and
`SchedulerImplementsDispatch`. `OneCheckAtATime` is not inductive: it needs to know that a marked monitor is somewhere, so that an unmarked one is nowhere
(`MarksAreExact`), where the monitor in the loop's hand is (`HeldInv`, `LoopInv`), and what has ended after a stop (`StopInv`). `SchedulerInv` is their conjunction; `SchedulerInvStep` has a step per
action. The refinement uses it to show that a monitor that is marked is idle in the abstract specification.

`MonitorLifecycle_proofs` begins with the incident service, whoever calls it: `IncidentTypeCorrect`, `OpenIncidentIsNewest` and `RecoveryLeavesNoneOpen`, for any number of threads, incidents and faults. The
invariant adds to `OpenIsNewest` what a hook knows between its read and its write: when it is about to insert, no incident of its monitor is open, and when it is about to resolve, none but the one it found.
Both are kept because the hooks of a scheduled monitor come one at a time (`OneHook`) and operators never open an incident.

`EventBus_proofs` proves, for any number of clients, publishers and events and any capacity, `BusTypeCorrect`, `BusNeverPanics`, `NoLateSubscriber` and `StreamsInOrder`.
`BusInv` says what the lock is for: what a publisher has still to send to is in the map (`MapInv`), because whoever closes a channel holds the lock alone, and
a channel is in the map only while its handler may drain it (`HandlerInv`). `DrainInv` says that no handler is left when the bus is shut down, which is why `Subscribe()` need not look at `b.closed`.
`OrderInv` adds that nothing sent is newer than its publisher's count, and that a subscriber still to be sent to has nothing as new.

`Discovery_proofs` proves `DiscoveryTypeCorrect` and `StaleUnseen`, for any prefixes, hosts, scans, rows and requests. The type invariant is inductive: it holds the foreign keys, so it follows them through each cascade. `StaleInv` adds what a goroutine
knows at each stage: its prefix is its record's; while it probes and its context lasts, every host of the range is still to be probed, in a worker, seen or silent; and when it compares, whatever it has left to report is silent unless it is outside the range. Once the context has expired it knows nothing of the kind, and writes nothing.

The same module proves `DiscoveryImplementsLifecycle`, `OneScan` and `LinksMatch`. `StatusInv` says what the status of a record tells of its goroutine: queued until it has started, running while it works, still active while it is about to fail.
That is all the refinement needs. The other two are about `DiscoveryHistory`, with every race in it. `OneScanInv` says that of a thread which has found no active scan of a prefix, every scan of that prefix that is active now has been inserted since (it is in `missed`), and that two active scans of a prefix are a pair in `overlapped`; `AcceptInv` that the row an acceptor has found or
created, if it is there and was not moved, keeps the prefix and the address of its result.

`AuthService_proofs` proves `AuthTypeCorrect` and `AdminStays`, for any number of users and requests, all of which may race. `AuthInv` adds to `AdminRemains`, as long as `outrun` is false, what a request knows: one that has been granted something shows that there is an enabled admin (`GrantHolds`), and one past its guard that is not
outdated spares one (`GuardHolds`): it takes none away, or there is another than the one it takes. A step that takes an admin away makes every other request past its guard outdated, and is itself not outdated or sets `outrun`. That a count above one leaves another uses the cardinality of a finite set.

`Notifications_proofs` proves `NotificationsTypeCorrect`, `NoSecondAttempt`, `GaugeDrifts`, `ToldOnce` and `PasswordKept`, for any number of incidents, channels and calls. `NoticeInv` says that whoever is about to start a notice has not started it before, and that a notice has not tried what it still has to try.
`HistoryInv` is about `NoticeHistory`, in which calls race, monitors are deleted and the server restarts: a thread is in one call at a time, a call on an incident that is resolved by now is `late`, and where no late call has written at most one thread has told of the resolution, after which the incident is resolved or gone. So a
resolution that is not late counts down an incident that was counted, which is `GaugeAgrees`; the cardinality of the unresolved incidents does the rest.

Of the monitors, `MonitorLifecycle_proofs` proves `LifecycleTypeCorrect`, `ServerImplementsIncidents` and `EnabledAgrees`, for any monitors, requests, faults and restarts. `LifecycleInv` contains `IncidentInv`, and `StepImplements` maps each step of the server to one of `IncidentNext` or a stutter, so `IncidentInvStep` carries it.
The step that matters is `CheckHook`: a hook is of a monitor whose check has come to its end and has not been given back (`HookOf`), hence never the second one. `CheckOf` keeps of a check's copy that the due query selected it, enabled and not paused, and `RequestOf` that the copy of a request agrees with itself; what either writes back does too.

It also proves `IncidentsMatchStatus` and `ThresholdIsDown`, for any monitors, threads and results, about `MonitorHistory`: with races, requests of every kind, failing statements and restarts, and no hypothesis but the assumptions on the constants. `IncidentsFollowStatus` speaks of moments at which no hook of a monitor is under way;
`SettledInv` says what holds in the others, for a monitor that is not `crossed`: its hooks come one at a time, the row shows the status that the hook is about to act on unless an operator has paused or resumed the monitor since, and the call of the hook knows whether
an incident is active and which (`HookInv`); an active incident is always the newest of its monitor, and row and incidents agree once no hook is under way (`TableInv`). An incident that a hook resolves is its own monitor's (`ResolvesOwn`). Each step keeps this for every monitor that it does not put on the record (`Crosses`), and
a monitor that comes off the record has it again, because with no hook under way it is what `StatusFits` says (`OrderRestored`). `ThresholdInv` is the like for the count of failures of a monitor that is not `unjudged`: one result of it is judged at a time, and none of a test; a status that has been decided, and then one that is written, is `up` or `degraded`
only below the threshold in force.

`StatusPages_proofs` proves `StatusPagesTypeCorrect`, `AggregateDocumented`, `ReorderWhole` and `AttachedGoesLast`, for any number of pages, monitors, requests and views. `PageInv` holds the foreign keys and unique constraints of the tables, the types of what each request has read, and of a view that the aggregate
it answers is that of the statuses it shows. The loop of the aggregate is dealt with by its least counterexample: were some prefix of the list wrong, there would be a shortest one, and the iteration before it was right (`WFMin`, so no induction over data is needed). `SerialInv` says of a request that is alone what it has found out and
what it has written so far: a reorder that still checks has changed nothing, and one that writes has placed the monitors before the next one. For the lists it is proved that the places of the rows are one-to-one and onto, so that the query's ORDER BY is a permutation and `max(display_order)` is attained, and that a row appended with
an order above all others comes last. `ReorderIsWhole` and `AttachGoesLast` leave out what wraps in an int32, as the documents do.

`Ipam_proofs` proves `SameHosts`: `HostsAgree` for any widths of addresses and of int, any prefixes, rows and requests. The invariant (`IpamInv`) is little more than that a request computes with a prefix that has been in the table; the work is in the arithmetic. A block is an interval of `2^HostBits` addresses that begins at a multiple of that number
and ends within its family (`BlockFacts`, from quotients and from `Pow2[m + n] = Pow2[m] * Pow2[n]`), so its hosts are an interval too (`HostsAre`). The loop is a recursive function: one that follows it exists, and each that does comes from an address to the rest of that interval (`WalkIsRest`), because the largest address for which it were wrong
would be followed by one for which it is right. From there the search returns the least member of the interval that is not taken (`SearchFindsFirst`), the list is the interval (`ListHasHosts`), the count its length (`TotalIsHosts`, where `IntOf` changes nothing), and the free hosts are those that no assigned row has, as the map
from hosts to rows is one-to-one (`FreeIsHosts`). `Pow2` is a recursive function too; that there is one is shown by the numbers of subsets of `1..n`, which follow the same recursion.

Assumptions: `SchedulerAssumption`, `IncidentAssumption`, `LifecycleAssumption`, `BusAssumption`, `DiscoveryAssumption`, `AuthAssumption`, `StatusPagesAssumption`, `NotificationsAssumption` and `IpamAssumption`, which TLC evaluates in the runs.
Only model-checked: liveness (`StopTerminates`, `NoStarvation`, `PublishReturns`, `GoneIsUnsubscribed`, `EveryScanEnds`, `EveryChannelIsTried`), which the provers do not reach. Every other property of a passing run is a theorem,
of the specification that its run instantiates. What TLC finds violated is not proved, only exhibited.

## Known disagreements without a run

More places where the code does not do what a comment or a document says are in the modules, but no run is spent on them.

- `Acknowledge()` checks the status it has read and then calls an UPDATE with no condition on the status (`internal/db/incidents.sql.go:104`): an operator's resolution between the two is overwritten. `docs/incidents.md:65-66` says that acknowledging a resolved incident is rejected. (`WriteAcknowledged` in `IncidentService`.)
- `TestMonitor()` writes the status back that it read before the probe, over one that a scheduled check has written meanwhile. The comment at `internal/api/handlers/monitor.go:655` says that a test does not update the status. (`WriteBack` in `MonitorLifecycle`.)
- "It will be picked up next time", says the comment on a full channel (`internal/monitor/scheduler.go:161`). A check that fails writes no `last_checked_at`, so monitors whose checks fail for ever come first in every due list and, if there are enough of them, keep the rest from being checked. (The premise of `NoStarvation`.)
- `docs/monitoring.md:42` says that a monitor which fails its retry threshold has an incident opened. A PATCH that lowers `retry_count` (`internal/api/handlers/monitor.go:382-384`) below the failures so far leaves the monitor degraded or up, and so do failures of manual tests, until the next check; a failing `GetMonitorResults` (`scheduler.go:202`) counts as no failure. (`unjudged` in `MonitorHistory`.)
- `docs/discovery.md:66-67` says that a scan is rejected if another is queued or running for its prefix. `StartManualScan()` looks (`internal/service/discovery.go:274`) and inserts (line 282) in two statements, so two calls that overlap both start one; the ticker calls it too. (`overlapped` in `DiscoveryHistory`.)
- `docs/operations.md:15` calls `blackgrid_incidents_open` the current number of active incidents, `internal/metrics/metrics.go:31-34` that of open ones. It starts at 0 with the server, is not decremented for the incidents that go with a deleted monitor (`handlers/monitor.go:521`), and is decremented again when a resolution or an acknowledgement overwrites a resolution. (`drift` in `NoticeHistory`.)
- `docs/api.md:277` and the comment at `internal/service/status_page.go:460-462` say that a reorder with an ID that is not attached is rejected as a whole. The check (lines 470-477) and the writes (478-491) are two loops: a monitor removed between them, or a failing statement, leaves the rows before it in the new order and the rest in the old. (`WriteListed` and `PageCallEnds` in `StatusPages`; `ReorderIsWhole` is claimed for requests one at a time.)
- `docs/notifications.md:93-94` says that the mask sent back preserves the stored password. It does for a mail channel that stays one. A PATCH that turns a webhook into a mail channel finds no password to keep and stores the mask as one (`internal/service/notification.go:520-527`), and a webhook whose masked headers are sent back stores the mask, because only mail channels are merged (line 113). (`MergeSMTPPassword` in `Notifications`; `PatchKeepsPassword` names the case it covers.)
- A mail server that does not answer keeps a notice from the channels after it. `docs/notifications.md:7-8` says that failures of one channel never affect the others. (`EveryChannelIsTried` names the exception.)
- `NextAvailableIP()` reads the rows of its prefix only, while an address is UNIQUE over all prefixes (`migrations/001_schema.sql:61`) and prefixes may overlap: an address recorded under another prefix is offered, and creating it fails each time. The comment at `internal/service/prefix.go:114` says that it "finds the next unassigned IP". (`TakenOf` in `Ipam`.)
- The list of a scan starts at the address the prefix is written with (`internal/service/discovery.go:612`): `10.0.0.5/29` is scanned from `.6` on. The comment at line 601 and `docs/discovery.md:17-18` leave out the network and broadcast addresses only. (`FirstAddr` in `Ipam`; `ListsHosts` names the exception.)
- `RunScan()` reads the prefix again and does not validate it again: one edited in between is scanned at any size. `docs/discovery.md:13-14` says that prefixes shorter than `/22` are rejected. (`RunScan` in `Ipam`.)
- `Utilization()` shifts in an int of 64 bits (`internal/service/prefix.go:176`): an IPv6 `/64` and every shorter prefix has 0 hosts, `/65` a negative number. `docs/api.md:353` says that `total_hosts` is the addressable host count. (`IntOf` in `Ipam`; `CountsHosts` names the exception.)

## Not modelled

- Severity, names, texts, payloads, ports, uptimes, `last_seen_at`: no decision reads them.
- Sites, VLANs, devices and interfaces: each request on them is one statement, and no decision reads what it wrote. Deleting a site deletes its prefixes as deleting each of them does.
- The spelling of an address (`::1` and `0:0::1` are two texts of one address): `rows` has one row for an address.
- Rate limiters: two requests of one new client can each create a limiter, of which the second stays; the client gets one burst more, once.
- Probes are network I/O: any result may come back. The audit log is written to and never read. Masking of responses, metrics, migrations and the frontend have no state of the server's.
- The wait of five seconds for the discovery ticker at shutdown: what a stop leaves in the tables is the same with or without it, and the modules let the server stop anywhere.
