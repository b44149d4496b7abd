# TLA+ models of Sentinella

Sentinella is a Windows anti-virus suite around the service `sentinelld`
(`src/crates/sentinelld`).  This directory holds TLA+ modules translated from
its Rust source, TLC configurations that check them on small instances, and
proofs, checked by the TLA+ proof system, of theorems that hold for every value
of the constants.  `PROJECT.json` names for every definition the source lines it
stands for, and for every property a mutation of the code that breaks it.

Throughout, a module has one action for each access to shared state (an atomic, a
critical section, a filesystem call, a registry call, a database statement) that
another thread, or a crash, can separate from the next; comments name the
function.  Error paths and ignored errors are disjuncts.  Logging, counters that
are only displayed, and the content of messages are left out.  Where the code has
no answer to an accident, a history variable (`mishaps` in most modules) records
the accident, and the property that it breaks names it as an exception: the model
checker then shows that there is no other.


## 1. The system

| Component | State | Operations | Hard because |
|---|---|---|---|
| Scan orchestrator (`orchestrator/mod.rs`) | bounded FIFO queues, logical workers with generation, arm stamp and cancel token, leak counter | `submit`, worker loop, watchdog | a native ClamAV call cannot be killed: its thread is leaked and replaced, and the leaked thread shares every atomic with its replacement |
| Scan slot (`ipc/state.rs`) | one active scan, its status in two places, the live view, the history | `scan.start`, `scan.cancel`, completions | the two statuses are written by threads that share no lock |
| Signature update (`engine/update_pipeline.rs`) | four directories, version ledger | `sources.update`, `sources.rollback` | a crash between any two renames; the two calls are not exclusive |
| Quarantine (`quarantine/mod.rs`, `ipc/state.rs`, `db/mod.rs`) | original file, vault file, database row, restore marks | add, restore, restore-as, delete | three stores without a common transaction, and calls that know nothing of each other |
| Engine reload (`ipc/state.rs`) | published engine snapshot, reload flag | `reload_engine` | scans hold an engine across the reload |
| Scan cache (`scan/cache.rs`) | entries with generations, a write queue, its database | check, record, invalidate, sync at start | the database is written by a lossy queue, and read at the next start |
| Real-time watcher (`watcher/mod.rs`, `watcher/file_identity.rs`) | event channel, debounce set, overflow mark, its own cache, sandbox threads | notify, debounce, scan, quarantine, detonate | files change while they are looked at; queues overflow |
| Protection switch (`ipc/mod.rs`, `ipc/state.rs`, `main.rs`) | challenge token, configuration file, pause flag, the watcher in place | set, set_critical, enable, disable, heartbeat monitor | five callers, two locks and a file that anyone may damage |
| Web protection (`web_protection/service.rs`, `rule.rs`, `nrpt`, `sentinella-dnsreconcile`, installer hooks) | rule in the registry, its GUID in a file, boot task | start, refusal and retry, stop, rule watchdog, reconcile at boot and at uninstall | a rule that outlives its proxy leaves the machine without DNS, and no two stores share a transaction |
| DNS proxy (`dnsguard/src/proxy.rs`, `wire.rs`) | permits, answer cache, filter, counters | UDP and TCP queries, exchanges with fallbacks | queries run in any order under bounds, and the filter changes under them |
| DNS upstreams (`web_protection/upstreams.rs`) | upstream list, change signal | subscribe, settle, resolve, set, poll | signals arrive while an earlier one is worked on |
| Idle scanner, scheduler | schedule, cursor, user activity | scan when idle | pause and resume at any point |
| IPC server | connections, permits | dispatch | fairness between clients |
| Updater (freshclam) | update flag, last result | run with retries, then reload | long-running process with a timeout |
| Subprocess workers (`clamavd`, `argusd`, sandbox) | a pipe and a pending request | request, restart | broken pipes, late answers |
| FISH shield, process lineage (PLM), ETW intake | event windows, scores | observe, respond | bounded queues of events |
| ARGUS | layers of detectors, verdicts | analyse, aggregate | budgets and deadlines |
| AMSI provider | executor queue | submit with deadline | fail-open on time-out |
| Ecosystem, trust graph, convergence, calibration | tables and scores | score | pure computation |
| Paths, ACLs, front ends | files | read, write | input and output |

How they interact.  An IPC call `scan.start` takes the published engine, reserves
the scan slot and submits a job to the orchestrator; the job walks the files, asks
the cache, scans, quarantines what it finds, records what is clean, and releases
the slot.  `scan.cancel` sets the flag the job polls; the orchestrator's watchdog
sets the same flag when the job is late.  The watcher and the idle scanner scan
with an engine they were handed when they started and call the same
`quarantine_file`; a restore marks its destination so that the watcher leaves it
alone.  The calls that change the protection save the configuration under one
lock and switch the watcher under another; the heartbeat monitor brings back a
watcher that is not running.  The signature update replaces files on disk,
`reload_engine` loads them, invalidates the cache and publishes the engine; at a
start of the service the cache compares the fingerprint of the loaded set with the
one it stored.  Web protection starts the DNS proxy, then points the machine at it
with an NRPT rule; its watchdog asks the proxy and takes the rule
away when nobody answers, its refresher gives the proxy the
upstreams of the network, and the boot task removes what a dead service left.

What makes each of the modelled components correct is stated with its module
below.  The hazards found in the code are listed in `PROJECT.json`, each with its line
and with the property that covers it, or the reason why none does.


## 2. Modules

| Module | Models | Checked by | Proved in |
|---|---|---|---|
| `Orchestrator` | `orchestrator/mod.rs` | `MCOrchestrator` | `OrchestratorProofs` |
| `ScanSlot` | slot, live state and completions in `ipc/state.rs` | `MCScanSlot` | `ScanSlotProofs` |
| `ScanPromise` | what `scan.start` and `scan.cancel` promise | by `ScanSlot`, which implements it | `ScanSlotProofs` |
| `SignatureUpdate` | `engine/update_pipeline.rs` and its two IPC calls | `MCSignatureUpdate` | `SignatureUpdateProofs` |
| `Quarantine` | `quarantine/mod.rs` and the calls in `ipc/state.rs` | `MCQuarantine` | `QuarantineProofs` |
| `EngineCache` | `reload_engine`, `scan/cache.rs`, who captures the engine | `MCEngineCache` | `EngineCacheProofs` |
| `Watcher` | `watcher/mod.rs` and the file identity | `MCWatcher` | `WatcherProofs` |
| `Protection` | the switch: handlers, token, configuration, monitor | `MCProtection` | `ProtectionProofs` |
| `WebProtection` | the NRPT rule and all who install or remove it | `MCWebProtection` | `WebProofs` |
| `DnsProxy` | `dnsguard/src/proxy.rs` | `MCDnsProxy` | `WebProofs` |
| `DnsUpstreams` | the upstream refresher | `MCDnsUpstreams` | `WebProofs` |

An `MC` module only names model values, the functions a configuration cannot write
down, symmetry sets, the state constraints of `EngineCache` and `WebProtection`, and a
view for `EngineCache`.

### Orchestrator

`queue` and `depth` are a `ScanQueue` and its counter; `generation`, `jobStarted`,
`currentToken`, `activeJobs` and `state` are the fields of `WorkerCtx`, which all
threads ever spawned for a logical worker share; `pc`, `worker`, `myGen` and `job`
belong to a thread; `leaked` is `LEAKED_WORKERS`; `wpc` to `acted` are the
watchdog's locals.  `Submit` is `ScanQueue::submit` in its three steps, `Worker` the
loop of `spawn_worker` (capture the generation, retire, receive, account, publish
the token, arm, run, test the generation, disarm, and so on), `Watchdog` that of
`spawn_watchdog` (look, read again, test the budget, cancel, count, bump, respawn,
prune).  An arm stamp is only compared for equality and with the timeout, so it is
the job that set it, and `overdue` holds the jobs that are past the timeout.

* `LeakAccounting`: the counter is the number of threads that were replaced and have
  not ended: each gives its place back once, at whichever of two tests it meets.
* `OneCurrentThread`: a logical worker is served by exactly one thread of its
  generation.
* `ThreadBudget`: the process never runs more threads than the pool and the budget.
* `QueueBounded`, `JobsConserved`: the queue cap holds against racing callers; no
  respawn loses a job or runs it twice.
* `QueueDrains` (liveness): jobs behind a call that never returns still end.

### ScanSlot and ScanPromise

`slot` is `Inner.active_scan` (under the inner lock), `live` the atomic status in a
job's `ScanLiveState`, `scanLive` the live state the UI reads, `flagged` the shared
cancel flags, `history` the records.  `Starter`, `Runner` and `CancelCall` follow
`start_orchestrated_file_scan` and `start_orchestrated_folder_scan`, the completion
functions and `folder_scan_worker_inner`, and `cancel_scan`.  `Take` and
`WatchdogCancel` are what a scan sees of the orchestrator.

`ScanPromise` is the abstract specification: a scan is new, refused, accepted, begun
or over; it is accepted only when every scan under way was told to stop, and refused
only for the sake of another; what began leaves one record; what is recorded as
cancelled was told to stop.  The refinement maps the point a scan has reached to its
phase, the cancel flags to `told` and the history to `records`.

* `KeepsPromise`: `ScanSlot` implements `ScanPromise`, a temporal property that
  constrains every step.
* `SlotReleased` (liveness): a reservation always ends, unless somebody cancels.

### SignatureUpdate

A directory maps each file name to the release its content comes from, so that a
SHA-256 match is "the content is that of the release".  `UpdateProvider` is
`update_provider` (stage, download, verify, manifest, ledger, activate),
`Activate` the steps of `activate`, `Rollback` the IPC call.  `Leftovers` is a
`remove_dir_all` whose error is ignored.  `Crash` forgets the locals.

* `NeverMixed`, `NeverPartial`: the active directory holds one provider's files, of
  one release, and all of them, whatever fails or crashes.
* `NoDowngrade`: no activation, restore or crash brings back an older release.  The
  exception is the code's: a ledger that is missing, unreadable or does not parse reads
  as empty (`load_version_ledger`), the next manifest is accepted whatever its age, and
  saving it drops the baselines of the other providers.  The history `newest` starts
  again there.
* `KeepsASet`: a usable set stays in the active directory or its backup, through every
  failure of an update; but for a rollback that was asked for, and for a set that was
  stranded in the backup (`stranded`, see Observations).

### Quarantine

`disk`, `vault` and `row` are the three stores, `suppress` the restore marks.
`QuarantineFile`, `Restore` and `Delete` are the calls, split at each access to a
store; the watcher's look at the mark, its capture of the identity and its second
look are `Watch` and `Revalidate`.  A file under restoration is the name of the
restore call, and what anybody reads of it is `Fragment`.

* `NothingLost`: a file nobody deleted is on disk, or in the vault under a row that
  restore accepts.  The property names the two exceptions that the code has: a
  quarantine call copied a file that a restore was writing (`quarantine.add` and the
  start-up scan do not look at the marks), and a finalize removed another file than
  was copied.
* `PurgedAfterCommit`: the database row precedes the purge of the vault.

### EngineCache

A signature set is a number, and `Fingerprint` maps it to what the code compares: the
lengths and times of the provider's files and a count of signatures, which two sets may
share.  `StartService` is `AppState::new` (load the engine, load the cache, compare
fingerprints; a generation that cannot be read is 1, a fingerprint none, and any rows
may be missing), `Reload` is `reload_engine`, `Scanner` what walks, idle and start-up
scanner do with the engine and the cache, `DbWrite` the writer thread.  `meant` and
`dbMeant` are history: the set a generation was opened for.  The watcher has a cache of
its own and is not here.

* `GenerationFitsEngine`: the current generation was opened for the engine in place.
* `HitsAreCurrent`: what the cache calls clean was recorded for the current set, over
  any sequence of reloads, crashes and starts.

The exceptions are named.  Of both: a generation write that the full queue dropped or
that failed (`lost`), a record that reached the queue before the generation it belongs
to (`overtaken`), signature sets that went back to older ones after a hot reload, which
does not store the fingerprint (`rollback`), a start that took a set for another of the
same fingerprint (`alike`), and one that could not read the generation and counts again
from 1, over numbers that rows carry (`renumbered`).  Of `HitsAreCurrent` alone: a scan
that was handed the engine before the reload (its record carries the generation of the
moment, `late`), and a record that says clean although the engine has not found it so
(`None`: a walk whose budget for the file is over, a start-up scan whose ClamAV failed,
an excluded detection).

### Watcher

`disk` holds the files with a content (clean, bad, or grey: a threat that only shows
itself in the sandbox) and a stamp, which is what `FileIdentity` compares.  `queue`,
`recent`, `overflow` and `batch` are the notify channel, the debounce set, the note of
an overflowed directory and the batch under way; `t` is the watcher thread's work on
one file, `cache` its own `ScanCache`, `sb` the sandbox threads.  `Loop` follows
`watcher_loop`: receive, flush the batch or rescan the directory, filter, capture the
identity, ask the cache, open, ClamAV, ARGUS under the budget, record, look at the
identity again, quarantine.  `Programs` write and remove files at any point and
`EditTrusted` changes the trusted hashes.

* `CleanWasScanned`: what the cache lets pass was found clean, whole, by every layer,
  or its hash was trusted: never an error, a half analysis, or a content that came after.
  Three exceptions: a file rewritten in the same second and at the same size
  (`inplace`), and settings that switch ARGUS off (`heuristics`) or exclude a detection
  (`excluded`): both record clean, and the entry outlives the setting.
* `TakesWhatItFound`: what is quarantined is what was found, by the watcher or, half a
  minute later, by the sandbox.
* `ThreatsEnd` (liveness): a threat on the disk does not stay there, unless one of the
  named accidents lets it pass.  No event is lost to the overflow of the debounce set.

The accidents are the ways the code has of passing a file over: an error of notify or a
directory that is not watched (`unseen`), a full channel (`dropped`), the cap of a rescan
(`truncated`), a file younger than 500 ms (`young`), a restore mark (`restored`), a file
that cannot be opened (`locked`), a failing scanner, ARGUS switched off, a spent budget,
an excluded detection, a failing quarantine, a missing sandbox (`unproved`), and the two
of a file that changes unseen (`inplace`, `late`).  None of them is retried.

### Protection

`Present` and `CallStep` are the four IPC calls behind a challenge: verify the token,
lock, load, repair a damaged file, save, unlock, and under the toggle lock set the
pause, stop or start the watcher.  `Boot` and `MonitorStep` are the main thread: the
start of the service and the heartbeat monitor, which looks at the pause, the file and
the watcher, takes the toggle lock, and looks again.  A watcher is its `running` flag;
`slot` is the one `AppState` holds, `fresh` one that is spawned and not yet stored.

* `OneCallPerChallenge`: a challenge lets one call through, of its method.
* `PausedIsDown`, `NoStrayWatcher`: when nobody is switching, a paused protection has
  no watcher, and no watcher runs where no call could stop it.
* `AsSaved`, `SettingsStay`: the switch agrees with what was saved last, and no accepted
  setting is lost to another save; as long as the file is readable.
* `ComesUp` (liveness): protection that stays switched on gets its watcher.

### WebProtection

`rules`, `record`, `task` and `service` survive the process: the registry, the state
file, the boot task and the service's registration.  `Start` follows
`WebProtection::start` with its refusals, the reconciliation of an orphan, the gate of
`rule::install`, record and install; `Retry` the task that tries a refused start again,
`Stop` the orderly stop, `Watchdog` `rule::watch` with its strike counters, `Tool`
`sentinella-dnsreconcile` in its three modes, `World` the kills, reboots, users and
the proxy that dies, hangs or loses its upstreams.  Every call of `FaultPoints` may fail.

* `LiveIsRecorded`: the file names every live rule, whoever is killed in between.
* `StopLeavesNoRule`: the rule goes before the sockets.
* `SomebodyCanRemove`: a live rule always has somebody who takes it away without being
  told, whatever removal fails, but for the accidents.
* `FiresOnlyWhenSick`: a proxy that answers and resolves keeps its rule.  A canary that
  is lost under load costs nothing as long as the proxy counts traffic; the resolve
  probe is not rescued so.  The watchdog therefore fires on a healthy proxy when as many
  probes of one kind are lost in a row as there are strikes, and only then: `lost` counts
  them, and the property exempts a full row.
* `DeadRuleRemoved` (liveness): a machine whose rule points at nothing gets its DNS back;
  but where the filter blocks the name the watchdog resolves (`blocked`), a proxy that
  answers and does not resolve is healthy to it.

The accidents: the reconciler clears a record while the daemon installs the rule again
(`cleared`), a start that is refused or fails with a live rule serves without owning it
(`unowned`), the daemon of an uninstalled product is killed (`killed_late`), the
machine goes down in the middle of an uninstall, with a rule live and the boot task
already gone (`unfinished`), or, with the service deleted, a removal fails when the boot
task is gone or `--remove-task` has just found no rule, or somebody deletes the task in
front of a rule (`unbacked`).  The last needs no kill: the tool finds no rule because the
daemon is still starting, removes the task, and the daemon's stop fails to remove the
rule it has installed meanwhile.

### DnsProxy

A query is a record with the point it has reached, its posture (EDNS, DO, CD) and its
answer.  `RecvUdp` and `Accept` are the loops with their permits, `Handle` is
`handle_query` up to the reply (canary, filter, cache, exchanges with the fallbacks
without EDNS and over TCP, store), `Remote` what upstreams and clients do.  `cache` is
keyed by name and the two bits; `bytes` is the total the code keeps by hand.

* `BlockedIsNotServed`: a name blocked since the query came is never answered with data.
* `ServedAsAsked`: a hit was fetched with the posture of the query it answers.
* `CacheBounded`, `Accounted`: the byte total is exact and both bounds hold; no query is
  lost from the counters.
* `EveryQueryEnds` (liveness): even though an upstream never answers.

### DnsUpstreams

`net` is what the adapters report, `upstreams` the proxy's list, `r` the task with what
it discovered, `signal` the channel of one.  The task waits, settles, drains the channel,
resolves and sets; a poll backs it up.  A change signals a task that has subscribed, or
it does not: a rewrite of the DNS servers alone raises no interface event.

* `AsleepIsCurrent`: no wakeup is lost: asleep with an empty channel, the task has set
  what the network reports.  A change that nobody signals and a discovery that failed or
  found nothing (`missed`) wait for the poll and are exempt.
* `UpstreamsFollow` (liveness): once the network is quiet the proxy asks its resolvers.


## 3. Runs

| Run | Shows | Instance |
|---|---|---|
| `orch_one` | all safety properties of the orchestrator | 1 worker, 3 jobs (1 hanging, all may be late, 1 cancelled by its owner), 3 threads, leak budget 1, queue cap 1 |
| `orch_live` | `QueueDrains` | 1 worker, 3 jobs (2 hang), 4 threads, leak budget 2, queue cap 2 |
| `slot` | the refinement and `SlotReleased` | one file, one folder and one legacy scan, 2 cancel calls, 2 manual workers, failing submissions, timeouts |
| `slot_stranded` | the disagreement below | two full scans |
| `sigupdate` | the four activation properties | 2 providers, 3 releases, 2 files, a ledger that may read as empty |
| `quarantine` | `NothingLost`, `PurgedAfterCommit` | 2 paths, 2 files, a manual and a realtime quarantine, 1 restore, 1 delete |
| `enginecache` | cache and generation | 3 sets, two of one fingerprint, 1 file, 2 reload calls, walk, idle scanner, write queue 2, generations up to 3 |
| `watcher` | the three watcher properties | 2 files (one in a visible folder), channel, debounce set and rescan cap of 1, 2 writes, 1 edit of the trusted hashes, one kind of fault at a time out of ten |
| `protection` | the six properties of the switch | 2 calls, 3 watchers, 2 challenges, 1 damaged file, 1 restart |
| `web` | the five properties of the rule | 1 GUID, 2 strikes, resolve and task check every second tick, 2 kills or reboots, every fault point, probes lost at any tick |
| `dns` | the five properties of the proxy | 2 queries for one name in 3 postures, answers of size 1 and 2, one permit of each kind, cache of 2 entries and 3 bytes, 1 filter change |
| `upstreams` | both properties of the refresher | 2 servers and the proxy's own address, 4 changes, signalled or not, 2 failures |

Why the bounds are enough.  In `orch_one` both limits are one, so that each is hit
with a second contender waiting; three jobs are the fewest for a stuck job, the job
its replacement takes and one in the queue.  In `orch_live` two jobs hang and the
third must end; with three honest jobs the disarm race, and with a budget of one the
memory of the watchdog (both under Observations), would let a queue starve.  The slot
has three scans because two overlap and a third may come to a slot the first two
disagree about; each cancel call is made once.  In `sigupdate` the newer release lacks a
file of the older one, so that a mixture is visible, and the second provider has no
manifest.  In `quarantine` one path is restored to while another file takes its place;
instances with three quarantine calls on one path, or two restores of one file, were
explored once and showed nothing new.  In `enginecache` generation 3 allows one more
generation, by a start or by a reload, after the one of the first start, with the rows,
the writes and the records of both about; with generation 4 it was explored with two sets.
`QueueCap` 2 is the smallest in which `SyncWrites` fits.  States after a mishap are not explored further there
(`NoMishap`): both invariants are about states without one, and a mishap is never undone.
`LiveView` takes two states for one when they differ only in entries of a generation that
is over, or in the set of a late record: without a mishap the generation never goes back,
so no step asks for such an entry, and `HitsAreCurrent` does not read the set of a late
one.  Without the view the instance has 2.9 million states in place of 0.9 million, and
the same verdicts.

In `watcher` every queue has room for one of two files, so each overflow happens; two
writes are the fewest for a file that is created, scanned and replaced.  Faults are
taken one kind at a time (`MaxFaults`), while `dropped`, `truncated`, `young` and
`late`, which are consequences of the interleaving, are unbounded.  Three watchers in
`protection` are one at boot, one of a call and one of the monitor; two challenges let a
second replace the first before it is presented.  In `web` the rule of a previous run
and that of this one share the one GUID, as they do in the code while the record lasts;
two strikes make a counter that is reset between two checks visible, and a kill comes
at every point.  A second kill, in the middle of what mends the first, is what
`unfinished` is about (a reboot during an uninstall after a daemon was killed).  States
after an accident are not explored further (`AtMostUnowned`), those of `unowned` excepted:
`StopLeavesNoRule`, `SomebodyCanRemove` and `DeadRuleRemoved` ask for nothing after one,
and `LiveIsRecorded`, which does but for `cleared`, is a theorem, as are `FiresOnlyWhenSick`
and the type invariant.
Two rules under different GUIDs need a lost record; the instance with two GUIDs was
explored once and showed nothing new.  The safety theorems hold for any number of kills
and GUIDs.  In
`dns` the second query finds the permit taken, the cache filled or full, the answer of
another posture, or the filter changed; four changes in `upstreams` cover the cycle's
four waiting points.

`CHECK_DEADLOCK FALSE` is given where every call is made once and the system stops
(`slot`, `slot_stranded`, `quarantine`, `dns`, `protection`), for `enginecache`, where
the generation bound ends it, and for `watcher`, which is at rest when files stop
changing.  `orch_*`, `sigupdate`, `web` and `upstreams` check deadlock: watchdogs and
refreshers poll for ever, and an update can always start.

The type invariants are theorems for every module with a run; the runs of `EngineCache`,
`WebProtection` and `DnsProxy` check theirs too.

### Disagreement between code and comments

`slot_stranded` (`SlotNotStranded`): `cancel_scan` decides on the live status and
stores `Draining` later.  A scan that ends in between leaves a slot that nothing
releases, and every later `scan.start` is refused, although comments in the code say
that the decision is taken under the same critical section as the transition.

### Observations

Met while modelling, and kept in the models as the code has them; where a property is
affected it names the exception.

* Orchestrator: a worker found stuck while the leak budget was exhausted is remembered
  in `acted`, and is neither cancelled nor replaced when the budget has room again.  The
  generation is tested and the worker disarmed in two steps; a respawn in between has
  its job disarmed, which makes that job invisible to the watchdog.
* Signature update: a ledger that does not read admits any release.  The comment at
  `load_version_ledger` says "never accept anything older", since the next success
  records a baseline; that next success may be the older release.  The ledger is renamed
  into place without a sync, so a loss of power is one way to such a ledger.
* Signature update: with the set in the backup only (after a crash, or a swap and
  restore that failed), the next update removes the backup before the swap.
* Quarantine: `finalize_quarantine_file` removes by path, whatever is there by then.
* Scan cache: the walk records a file as clean whose budget ended before ARGUS looked at
  it ("Cache partial result"), and the start-up scan one on which ClamAV failed, where the
  comment below the former keeps analysis errors "out of the clean cache so the next scan
  retries the file".  The fingerprint compares lengths and seconds, not contents.
* Engine: the watcher and the idle scanner keep the engine they were started with, so
  files are scanned with the old signatures after a reload.
* Watcher: an event dropped by the full channel is not rescanned, although a comment at
  the callback says that the overflow rescan catches it; a file outside the visible
  folders created less than 500 ms ago, and a file that cannot be opened, are skipped
  and not tried again; a content is recorded clean because its hash is trusted, so that
  revoking the trust has no effect on it until a restart or a change of the file; the
  sandbox is not asked twice for one path within a minute, whatever the content.
* Protection: the monitor judges a watcher by its flag, which a dead thread leaves set,
  where a comment in `main.rs` speaks of a watcher that stops ticking.  Whoever loads a
  damaged file writes the defaults, the saving handlers under their lock and everybody
  else without.  There is one token for the service: the challenge of a second client
  replaces that of the first, whose late presentation burns it.  `protection.enable`
  with the saved switch off runs a watcher that the next start does not bring back.
* Web protection: a start that is refused while a rule is live serves without owning it,
  so neither watchdog nor stop takes it away; the comment at the refusal calls it safe.
  The rescue that tells load from death ("busy is not dead") is for the canary; a resolve
  probe that a loaded proxy sheds is a strike.
* DNS proxy: a shed canary is counted as a query; tasks that are to refuse a connection
  beyond the queue hold no permit, so the number of tasks is not bounded by the two
  limits the comment adds up; the cache is not purged when the upstreams change.


## 4. Fairness

Fairness is assumed of threads and timers of the service, never of callers, users,
cancels, failures, the network or the clock of the file system.

* `Orchestrator!Fairness`: weak fairness of each thread, of the watchdog, of a submit
  call that has begun and of the passing of time.  These are operating-system threads
  that block on nothing but their queue and sleep for a bounded time; a job that hangs
  has no step, so its thread is not promised one.
* `ScanSlot!Fairness`: weak fairness of a call, and of a job once a worker holds it;
  nothing is assumed of cancel calls that have not begun or of the watchdog.
* `WebProtection!Fairness`: weak fairness of the daemon's task, of its watchdog (an
  interval timer), of the reconciler once started, and of the restart that the service
  manager owes after a failure.  A kill stops the daemon's steps with it.
* `DnsProxy`: weak fairness of the handler of each query.  Every wait in it, for a permit
  or an exchange, has a timeout, which is one of its steps; no upstream owes an answer.
* `DnsUpstreams`: weak fairness of the task; its sleep and its poll end.
* `Watcher`: weak fairness of the loop (`recv_timeout` and the budget bound its
  waits) and of the sandbox thread of each file (a detonation is bounded).
* `Protection!Fairness`: weak fairness of the main thread and of a call that has begun.
  Strong fairness of the monitor's start of the watcher: the start may fail, and one
  that is tried again and again is assumed to succeed at last; `ComesUp` would say
  nothing otherwise.  A thread that waits for a lock needs no more than weak fairness
  in the model, since a call holds a lock for a bounded number of its own steps and the
  number of calls is bounded by the challenges.

The other modules have safety properties only, and no fairness.


## 5. Proofs

The theorems hold for every value of the constants that satisfies the named
assumption of the module: any number of workers, threads, jobs, scans, calls, files,
writes, challenges and restarts, and any limits.  Each rests on an inductive
invariant, which implies the property and is preserved by every action; the
proofs have one lemma or step per action.

`OrchestratorProofs` (from `OrchestratorAssumption`).  `PoolInv` is `TypeOK`,
`LeakAccounting` and `OneCurrentThread` with four parts they need.  `ThreadsOK`: a
thread has a logical worker as long as it lives, and no generation from the future;
without it a bump could make a stale thread current again.  `VisitOK`: while the
watchdog handles a stuck worker, no thread of that worker has still to capture its
generation; otherwise the one thread that it counts as leaked could capture the new
generation, and the counter would be wrong.  `BudgetOK`: between the watchdog's test
of the budget and its increment other threads can only lower the counter.
`ThreadCount`: live threads are the pool and the leaked ones, less the one between
bump and spawn, which gives `ThreadBudget`.  Most actions touch none of the variables
these read; lemma `QuietStep` deals with all of them at once.
The queues have two invariants of their own.  `DepthInv` keeps the books of a queue: its
counter is the messages in it, the submit calls that hold a slot and the dequeues not yet
counted down, and the cap holds because messages and slots that will be used stay within
it together; the counter alone says nothing of the queue.  `JobInv` says where each job
is: once in the queue of its kind, or with the one thread that took it (`QueuesOK`,
`HoldersOK`, `NoneLost`).
Theorems: `TypeCorrect`, `LeakAccountingHolds`, `OneCurrentThreadHolds`,
`ThreadBudgetHolds`, `QueueBoundedHolds`, `JobsConservedHolds`.

`ScanSlotProofs` (from `ScanSlotAssumption`).  `OneUncancelledScan` speaks of two scans
and is not inductive.  `HoldsSlot` says of each that, while it is under way and not
flagged, the slot names it in a status that refuses reservations; two scans cannot both
be named.  `CancelOK` (a cancel call writes a status only after it set the flag of its
target), `PointOK` and `SlotOK` keep every other writer of the slot away from a scan
that is not flagged.  For the refinement `RefInv` adds to that invariant what the
abstract guards ask for: whoever cancels cancels a scan that was accepted (`KnownOK`),
the slot refuses for the sake of a scan under way or of a cancelled one (`HeldOK`), and
a submission fails only where it may (`SubmitOK`).  Each step of `ScanSlot` is then a
step of `ScanPromise` or leaves its variables alone.  Theorems: `TypeCorrect`,
`OneUncancelledScanHolds`, `KeepsPromiseHolds`.

`SignatureUpdateProofs` (from the module's assumption on releases).  The invariant
follows a release through the pipeline: what is staged is of the provider under update
(`StagingOK`), a verified manifest lists what was downloaded, and what is still staged
has the content it lists (`ManifestOK`), the pending directory holds only that
(`PendingOK`, which is where the removal of leftovers matters), the ledger is at least
what was active since it last read as empty (`LedgerOK`), and the active and backup directories are sets of
what passed through (`ActiveOK`, `KeepOK`).  A rollback, which runs beside an update,
can only take files away, and says so in `trimmed`.  Theorems: `TypeCorrect`,
`NeverMixedHolds`, `NeverPartialHolds`, `NoDowngradeHolds`, `KeepsASetHolds`.

`QuarantineProofs` (from `QuarantineAssumption`).  `VaultInv` follows the life of a
row: it appears once, before any restore or delete can have read its id (`RowsOK`,
`CallsOK`), and nothing brings it back to "quarantined" (`RowStep`), so the row of an
id that is purged, or about to be, says so (`PurgesOK`).
`NothingLost` needs an invariant about what calls are still going to do, and that is a
count (`CopiesOutnumber`): the copies of a file, on disk and in the vault where no call
under way takes them out of reach (`Safe`), are more than the removals that finalize
has still to make.  That a copy is left is not inductive: two quarantine calls of one
path, each with its vault copy, may both have the removal ahead of them.  An insert
adds a copy and a removal, a finalize takes one of each away whether it succeeds or
fails, a restore writes its copy before it gives the vault's up, and a crash only
forgets removals.  The other parts of `LossInv` say that what is removed is what was
copied (`SeenOK`), that a restore writes where it created its file (`PartialOK`), that
a vault file is never replaced by another (`CopiedOK`), and that a file is nowhere
before it appears (`OutsideOK`, `FragmentOK`).
Theorems: `TypeCorrect`, `PurgedAfterCommitHolds`, `NothingLostHolds`.

`WatcherProofs` (from `WatcherAssumption`).  The argument rests on stamps: as long as
no write keeps one, what was read of a file under a stamp is what the file holds while
it has that stamp.  No stamp is of the future (`StampOK`), so a new write always gets
one that nobody holds; `AnalysisOK` relates what the layers have read so far to the file
if it still has the stamp of the metadata, `FoundOK` and `DetonatedOK` what was found to
the file if it still has the identity that was captured, and `TakeOK` carries it past
the second look to the quarantine.  ARGUS may have been switched off for a file whose
score is then 0 without having been read: `Unread` says that this is recorded as an
accident.  The code uses two captures, the metadata for the
cache and the identity for the quarantine, and the invariant keeps them apart.
Theorems: `TypeCorrect`, `CleanWasScannedHolds`, `TakesWhatItFoundHolds`.

`ProtectionProofs` (from `ProtectionAssumption`).  Who holds which lock at which point
is `LocksOK`; under it `RunningOK` says where a running watcher can be, `PauseOK` what
the pause, the watcher and the points of the calls have to do with each other, `FileOK`
that the copy a call is about to change and save is the file as it is, and `SwitchOK`
what the last save and the switch have in common.  `TokenOK` is about the token and the
challenges, and needs no lock: verification removes the token. Theorems: `TypeCorrect`,
`OneCallPerChallengeHolds`, `PausedIsDownHolds`, `NoStrayWatcherHolds`,
`SettingsStayHolds`, `AsSavedHolds`.

`EngineCacheProofs` (from `EngineCacheAssumption`).  That a hit is current after a
restart depends on what the database writer had not written when the process ended, so
the invariant follows a generation from memory through the queue to the database:
generations are stored in the order they were opened (`Numbered`), a record reaches the
database after its generation (`Followed`), wherever a generation is still known it
stands for one signature set (`Agreed`), and the stored fingerprint never runs ahead of
the generations (`Ordered`, `Paired`).  All that only as long as nothing was dropped from
a full queue and none of the other accidents has happened.  A start that keeps the
generation has found the fingerprint of the same set (`SameSet`: of another one it would
be `alike`), and one that opens a new generation has read the last number.  `Shape`, the types and the
points of reloads and scanners, holds always.
Theorems: `TypeCorrect`, `GenerationFitsEngineHolds`, `HitsAreCurrentHolds`.

`WebProofs` has the three modules of the web protection, which share no variable.

* `WebProtection` (from `WebAssumption`).  `WebInv` says which rule everybody on the way
  to it means: what the daemon is at work on, or owns, is what is recorded (`Named`);
  whoever is about to clear the record has seen the rule go (`Recorded`); a daemon on
  its way out has taken its rule away (`Clean`); after a reboot without the service the
  tool is alone with the record (`ToolAlone`); and once the service is gone a rule has
  its daemon, or a tool that has yet to come to it (`Uninstalled`).  The last is where
  a proof attempt failed for a good reason: with two kills a reboot can end an uninstall
  whose boot task is gone and whose rule is live again, and then nobody is left to
  remove it, an accident that got its name from the proof (`unfinished`).  It makes no
  exception for a removal that failed: a rule whose daemon has given up still has the
  service or the task, and where it has neither the accident is `unbacked`.
  `FiresOnlyWhenSick` is an action property: a counter that is not moved in a tick is
  below the limit, and the strikes of a kind are at most the row of lost probes of that
  kind (`Watching`), so a counter that reaches the limit before a healthy proxy brings
  the row with it.
  Theorems: `WebTypeCorrect`, `LiveIsRecordedHolds`, `StopLeavesNoRuleHolds`,
  `SomebodyCanRemoveHolds`, `FiresOnlyWhenSickHolds`.
* `DnsProxy` (from `DnsAssumption`).  `QueryOK` says what a query knows at each point of
  its way: what was barred throughout is not looked up, an answer in hand has the
  posture of the exchange it came from.  `EntriesOK`: every entry lies in the slot of the
  posture it was fetched with.  The sum of the entries' sizes is the number of their
  bytes, a set (`Bytes`), so that the lemmas about insertion, removal and purge are
  about cardinalities and need no induction; `Balanced` counts the queries that are in
  no counter yet (`Owed`) in the same way.
  Theorems: `ProxyTypeCorrect`, `BlockedIsNotServedHolds`, `ServedAsAskedHolds`,
  `CacheBoundedHolds`, `AccountedHolds`.
* `DnsUpstreams` (from `UpstreamsAssumption`).  `Known`: where no signal and no missed
  change is owed to the task, the list it holds or has set is that of the network.  A
  signalled change during any wait leaves its signal, which is drained only before the discovery
  that answers it.  Theorems: `UpstreamsTypeCorrect`, `AsleepIsCurrentHolds`.

Only model-checked: every liveness property (`QueueDrains`, `SlotReleased`,
`DeadRuleRemoved`, `EveryQueryEnds`, `UpstreamsFollow`, `ThreatsEnd`, `ComesUp`), since
liveness under fairness and `ENABLED` are out of the prover's reach.  Every safety
property of a passing run is a theorem.  Induction over data is out of reach too, so no
module a proof is about declares a RECURSIVE operator.


## 6. Not modelled

`PROJECT.json` lists every component with its status.  Tables and scores
(detection rules, ARGUS layers, trust graph, calibration), parsing, permissions and
the front ends have no control worth a state machine; they are the greater part of the
source.  Abstracted inside the models: the walk of a folder scan (one step in
`ScanSlot`), encryption and path policy of the quarantine, download transports, eviction
and file identity in the service's cache, the committed triple behind `engine.status`,
the watcher's filters by name and size, the FISH shield that its loop feeds, the
fields of the configuration other than the switch and one more, DNS wire format,
several queries on one connection (`Send` gives the TCP permit back with the reply,
`tcp_conn` when the connection ends), time to live, an unreadable state file of the rule,
a registry scan for orphans that cannot be completed (it ends the tool as a found orphan
does), a start without a database directory or with a cache in memory only, a change of
the signature files between the load of the engine and the taking of the fingerprint.
The 30 seconds of a restore mark are assumed longer than the write of a file.
`DnsUpstreams` and `DnsProxy`, and `WebProtection` and `DnsProxy`, are checked apart:
what one sees of the other is an action of its environment (`ProxyChanges`, the answers
of an upstream).


## 7. Plan

1. Abstract specifications of the quarantine vault and of the result cache, and the
   proofs that the modules implement them, as `ScanSlot` does `ScanPromise`.
2. The freshclam cycle (`start_update`, its retries, kill and sweep) with the reload
   that follows it, and `engine.status`.
3. Orchestrator and slot composed, so that a watchdog cancel, a leaked thread and the
   next `scan.start` meet; the assumptions that `Take` and `WatchdogCancel` make about
   the orchestrator become checked.
4. The idle scanner's pause and resume, the subprocess workers, the AMSI executor, IPC
   permits.
5. ARGUS verdict aggregation and cache eviction as operators, against a reference.
