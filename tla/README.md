# memcap in TLA+

memcap keeps a developer's Mac responsive while several coding agents start
builds, tests and servers on it. This directory holds a TLA+ model of the parts
of memcap where order, concurrency and failure decide whether it works: TLA+
modules translated from `libexec/`, TLC configurations that check them on small
instances, and proofs checked by TLAPS. Paths and line numbers below are those
of the repository.

## 1. The system

Every `memcap run` is an independent process. Nobody coordinates them: they
share files under `~/.memcap` and the process table, and a background watchdog
acts on the same processes. The hard part is therefore not any one algorithm,
but that many processes which read, decide, fork, signal and crash
independently agree on who may run.

### 1.1 Inventory

| Part | State | Operations | Interacts with |
|---|---|---|---|
| Workload queue, `scheduler.py` | `jobs.json` (jobs, session turns, controller), lock file, `paused` file, variables of each supervisor | register, decide, launch, observe, cancel, clean up | every other supervisor through the registry; its command through a pipe and a process group; the bridge |
| Admission decision, `admission.py` | the controller: last sample, healthy since, cooldown, paging since, last start | `advance` (fold a sample into the controller), `decide` | called by the queue under the lock with a sample taken before it |
| Shared sampler, `scheduler_metrics.py` | `sample.json`, `sample.lock` | `shared_sample`, `newer_cached_sample`, `rate` | all supervisors; the host's counters |
| Lanes, `scheduler_lanes.py` | none (fields of a job) | `lane`, `select`, `allocation` | the queue's rotation |
| Cancellation bridge, `scheduler.sh` | none | `mc_queue_cancel`: authorize, SIGTERM, wait, authorize again, SIGKILL | queue (authorization), choke point (signals) |
| Termination choke point, `enforce.sh` | none | `mc_filter_protected`, `mc_kill_pids` | every part that ends a process |
| Orphan recovery, `orphan_recovery.py` | in each entry of `jobs.json` an observation lease; claims and pins | observe, claim, release, pin, plan, authorize | the queue's registry; choke point |
| Boot timeout and polling cleanup, `boot_timeout.py`, `poll_cleanup.py` | a plan, carried from the scan to the signals | plan, authorize | the queue's registry (read only); choke point |
| Idle collection, `idle_gc.py`, `idle_gc.sh` | `state.json` (sessions, idle clocks), its lock, markers of hooks under way | `event`, `scan`, `authorize` | lifecycle hooks of the agents; choke point |
| Environments, `environments.py`, `environments.sh` | `resources.json` (one row for each Compose project), its lock, taken without waiting | register, enrol, finish the workload, claim, pin, scan, authorize, finish | Docker; the worker that owns the project; the watchdog |
| Pending work, `scheduler.py` `wait_for`, `idle_gc.py` `continuation` | none; three readings, made without a lock | `memcap wait`, the Stop hook | the queue's registry and the process table |
| Job observation, `job_observation.py`, `native_observer.py` | identities found and not measured yet, peaks | sample, reconcile, accumulate; tick | the queue's registry; the process table, twice for each sample |
| Memory set aside, `scheduler.py` `reservation` | the allowance in a job's entry and its evidence | observe, observe_owned, reserve | observation, shared samples, admission |
| Estimates, `workload_estimates.py`, `compiler_profiles.py`, `throughput.py` | rows of `jobs.json` for exact commands, profiles that survive edits of the sources | demand, observe, record, predict | observation; the demand of later runs |
| History, `analytics_collector.py`, `analytics_store.py`, `otel_receiver.py` | SQLite tables, the socket, the inbox | emit, import, receive, insert, commit, evict | every other part, as a producer that never waits |
| Problem reports, `report.py` | ledger, consent, the lock of the directory | report | GitHub, over an unreliable line |
| Integration, `integrate.py` | the configuration files of the agents | merge, prepare, commit, roll back | users and other versions, who edit the same files |
| Watchdog, `enforce.sh`, `classify.sh`, `measure.sh` | strike counters, last actions | sample, classify, reap, kill over budget, shut simulators down | choke point |
| Lanes, throughput messages, command classification, diagnostics, analytics reports, docker readers, configuration | none, or logs | parse, format, copy | users |

### 1.2 What makes it correct, and what makes that hard

- **Queue.** No two supervisors spend the same slot, resource or waiting place;
  a command that runs is always accounted in the registry, whatever has crashed
  since; a withheld request never runs; a supervisor always finds its own entry;
  cancellation comes to an end, and so does a wait unless an agent, a command or memory keeps it. Hard, because between the decision
  and the byte that starts the command the supervisor forks, runs `ps` and
  writes a file, and may be killed or signalled in between; because process
  numbers are recycled; and because each waiter evaluates the rotation alone.
- **Admission decision.** Starts are spaced; paging pressure opens a recovery
  window; a stale or failed measurement admits nobody; reservations never exceed
  the budget. Hard, because samples are taken before the lock and arrive late
  and out of order, and the controller survives reboots.
- **Shared sampler.** One probe at a time; nobody uses a sample that is too old;
  everybody gets an answer. Hard, because the elected sampler may be slow or die.
- **Planned kills (orphan recovery, boot timeout, polling), idle collection,
  environments.** Nothing that has an owner is collected, although ownership may
  return at any moment, and nothing is signalled through a number that changed
  hands. Hard, because a plan is made, authorized, logged, carried out with SIGTERM
  and, two seconds later, with SIGKILL, while the processes of the plan live on,
  agents claim them, and numbers are used again.
- **Pending work.** Nobody is told that a job is pending, or that none is, against
  the facts. Hard, because three readings without a lock are put together.
- **Observation, allowance, estimates.** A peak that was not seen must never look
  like a small one: what is charged, and what later runs ask for, may only sink on
  complete evidence. Hard, because processes fork and exit between two looks at
  them, samples overtake each other, and runs are killed half way.
- **History.** An event that comes again is not counted again, and the last word
  on a job outlives the eviction of its rows. Hard, because a transaction may fail
  after many events, the recorder may be killed, and deliveries are repeated.
- **Integration and reports.** Somebody else's text is neither lost nor moved, and
  nothing is posted twice. Hard, because files change and answers are lost between
  the look and the act.

`PROJECT.json` lists each hazard with its line and the properties aimed at it.

## 2. Plan

In order of importance; each step leaves modules, runs, and the theorems named.

1. **The queue** (done): `Rotation`, `Scheduler`, `WorkloadQueue` (abstract),
   type correctness, the safety invariants and the refinement proved.
2. **Admission**: the timing gate (done: type correctness, start spacing and
   the recovery window proved), the memory that is set aside for a running job
   (done: `Allowance`), and the sum that `decide` forms of it (done: `Budget`).
3. **SharedSample** (done): election, hand-off and publication of measurements;
   exclusion of samplers and the order of publications proved.
4. **Planned kills** (done): `ProcessTable`, `OrphanRecovery` and `HangingJobs`
   decide, `PlannedKill` composes them with the choke point. Left: the watchdog's
   own scopes.
5. **IdleGC** (done: type correctness and its three safety properties proved),
   **Environments** and **PendingWork** (done).
6. **Measurement** (done): `OwnedObservation`, `NativeObserver`, `Estimates`.
7. **Records** (done): `History`, `HookMerge`, `Integration`, `Reports` (proved).
8. **Proofs** about the modules of steps 2 to 7 (done: `MeasurementProofs`, `IntegrationProofs`,
   `UpkeepProofs`; every safety property of a passing run has a theorem, section 13).
9. Left: a composition of queue, admission and sampler, in which the nondeterministic verdict of `Scheduler` is
   replaced by the decision; the watchdog's own scopes.

## 3. The queue: `Rotation`, `Scheduler`, `WorkloadQueue`

`Scheduler` models `Scheduler.run`, `launch`, `refresh`, `observed_registry`,
`authorize_cancel` of `libexec/scheduler.py`, the gated child (`_exec`), and the
cancellation bridge of `libexec/scheduler.sh` with the signal sequence of
`mc_kill_pids`. `Rotation` holds the pure selection rule (`next_waiter`,
`record_turn`).

### State

| Variable | Code |
|---|---|
| `paused` | the file `paused` |
| `lock` | who holds the flock on the registry |
| `jobs` | `jobs.json`: per request its status, `members`, `cancel` flag and who enqueued `ahead` of it |
| `later` | `session_turns`, as the order of its numbers |
| `data` | the copy of the registry between the decision and the save, in memory of the lock's holder |
| `pc`, `local`, `exit` | control point, local variables and outcome of each supervisor |
| `leader`, `helper`, `foreign` | the processes in the group of a command: the child the supervisor forked, a background child it left behind, and an unrelated process that was given the group's number later |
| `stranger` | dead supervisors whose process number now belongs to somebody else |
| `bypass`, `ran` | history: launches a pause let through; commands whose gate was opened |

### Actions

A critical section that reads the registry, saves it and releases the lock is
one action (`Register`, `Claim`, `Deny`, `Observe`, `Cleanup`, `Retire`):
nothing else can look at the registry in between, and `save` replaces the file
atomically. The launch is *not* one action. From `Allow` on the supervisor keeps
the lock, and `Fork`, `Publish` (the save) and `Open` (the gate byte) are
separate, because the pause file, signals, exits of processes and above all a
crash may come between them. Code outside the lock (`Sample`, `Poll`, `React`,
the bridge) is split wherever it reads shared state a second time.

What the bridge may signal is `Targets`: what the registry authorizes (`Authorized`) without the
agent CLIs, memcap itself and its ancestors, which `mc_filter_protected` spares although they are in a registered
group (`enforce.sh:374-380`). The constant `Agents` says which processes of a command they are. If nothing else is
left in the group, `mc_kill_pids` has nothing to do and fails, and `run` tries again for as long as they live
(`BridgeRefused`, `scheduler.py:1352-1360`).

The environment may, at any step and for the supervisors a configuration names:
kill a supervisor (`Crash`), signal it (`Signal`), let its deadline pass
(`Expire`), pause and resume memcap (`TogglePause`), leave background children
(`LeaderForks`), end any process, and give process and group numbers to
strangers (`PidRecycled`, `GroupRecycled`). `Failing` supervisors may see a
failing fork, `ps`, save or bridge wherever the code can raise.

### Abstractions

- The memory and pressure verdict for a waiting request, and which requests have
  aged, are nondeterministic at every decision (`Chosen`), so each property holds
  for every measurement. The slot rule, the resource rule and the rotation are
  exact.
- `session_turns` are integers that are only compared and always set to a new
  maximum; `later` is the order they induce. Pruning to 128 sessions is left out.
- `ahead` represents the enqueue times: an entry is behind everything that was
  waiting when it was registered.
- All new entries have `demand_version` 1, so that `scheduler_lanes.lane` is
  constant and the split of `next_waiter` by lane is the identity.
- Start times of processes identify them: two processes that share a number
  *and* the second they were started in are not distinguished by `ps` and not
  modelled. Children that leave their group (`setsid`) are outside of what the
  queue accounts, as the repository documents, and are not modelled.
- `MC_DRY_RUN` (`enforce.sh:483`), with which the bridge signals nothing, is left out.
- Lock polling is a guard: an acquisition happens when the lock is free. That it
  can time out (35 s) is `AdmitUnavailable`, `RegisterFails`, `LeaveUncleaned`.

### Properties and runs

| Run | Instance | Shows |
|---|---|---|
| `SchedulerTwo` | 2 finite jobs, 1 slot; one supervisor killable, with a background child and recycled numbers, the other signalled and failing; pauses | `TypeOK`, `WorkAccounted`, `OwnEntry`, `FinishedMeansEmpty`, `SlotBound`, `WithheldNeverRuns`, `Refinement` |
| `SchedulerServer` | 2 requests for one server and 1 finite job, of 2 sessions; 2 waiting places; one supervisor killable | `OneHolder`, `WaitingBound`, `EveryRunEnds` |
| `SchedulerEnds` | 2 finite jobs, both signalled, one killable, whose command is an agent CLI with a background child and recycled numbers | `CancelHonoured`, `DeadEntriesPruned`, `EveryRunEnds` |
| `SchedulerLateSignal` | violation | `CancelledNeverStarts` |
| `SchedulerStaleClaim` | violation | `ClaimedIsAlive` |

`WorkAccounted`, `OwnEntry` and `FinishedMeansEmpty` relate the registry to the
processes: a live command is a running entry, a supervisor finds the entry it
looks for, and a reported status means an empty group. `WithheldNeverRuns` says
that a request that was withheld, expired or told to reuse a server never opens
its gate. `EntriesSurvive`, that no supervisor drops the entry of another live one, is
proved and has no run. `SlotBound`, `OneHolder` and `WaitingBound` are the three limits.

*Bounds.* Every constant set is given by the `.cfg` and `MCScheduler`; there is
no bound on counters, because nothing in the model counts. Two supervisors are
enough for every race over the registry (one acts, one interferes), three for
the rotation and for a bystander whose entry two others could lose; each
supervisor runs once, as in the code. The theorems of section 13 remove the
bounds for safety.

*Deadlock.* `CHECK_DEADLOCK FALSE` everywhere: the system ends when every
supervisor has ended and every process is gone.

*Fairness.* `Fairness` is weak fairness of each supervisor's own step, of the
exception it raises when a registration or launch cannot go on,
and of the gated child reading its pipe: ordinary scheduling. Deadlines are not part of it, because
`--wait-forever` and `_inspect` have none (`scheduler.py:1863-1867`, `:1749`; `:997`, `:1179`). Weak fairness of
`Step(r)` is enough for the lock although it is taken by polling: another
supervisor can take it for a launch only finitely often (each launches once), so
it is eventually free whenever `r` wants it. Commands need not end: that they do
(`CommandsEnd`) is a premise of `EveryRunEnds` alone. Both waits assume that the
number of a command's group is not handed to strangers over and over
(`Unshared`), and `CancelHonoured` that memcap does not stay paused, because the
bridge refuses to signal while it is, and that it is not an agent that keeps the group alive for good
(`OnlyAgents`): a signalled supervisor whose command leaves an agent CLI behind waits for that agent.

`EveryRunEnds` is about each request by itself: it ends if its own deadline comes (`WF_vars(Expire(r))`), or if memory
does (`MemoryComes`: from some point on the verdict, which the model leaves open, denies no request
that is next and fits the limits). No other request needs a deadline for it. What could break it is thus the rotation: two supervisors that each
believe it is the other's turn, an aged request that holds all others back for good, a slot or a server that a dead
supervisor keeps. `SchedulerServer` checks it with three requests of two sessions, a server and a finite job, where nobody
is signalled; its mutant lets two sessions each precede the other.

*Findings.* Two statements of the repository are not what the code does.
`SchedulerLateSignal`: "Cancellation removes a waiting request without
launching" (`README.md:645`). `self.cancelled` is last read before the launch
begins, and a signal handled while the child is forked, `ps` runs and the
registry is saved does not keep the gate closed; the command starts and is then
cancelled. `SchedulerStaleClaim`: a second request for a server is told to reuse
it and exits with success (`README.md:564-567`) although the server's group is
already empty, which the same critical section has just computed.

### The abstract queue

`WorkloadQueue` says what a caller may rely on: a request starts at most once,
after it has queued, and never once refused; finite jobs that capacity admitted
stay within `MaxJobs`; a resource has one server; only a pause waives the
limit. There is no registry, lock or supervisor in it. `Scheduler!Refinement`
maps the concrete state: a request is *new* before it registers, *queued* until
its gate opens, *started* while a process of its command is alive, *over* once
none is, and *refused* if its supervisor left the queue without opening the gate.
The map looks at processes and not at the registry, so that it says something
about crashed supervisors: their commands still occupy their slots.

## 4. Admission over time: `Admission`

`Admission` models `advance` of `libexec/admission.py`, the part of `decide` that
looks at its times, and how `Scheduler.observe` and `Scheduler.run` feed them.
Strict mode has no such gate; the module is about adaptive mode.

| Variable | Code |
|---|---|
| `now`, `boot` | `time.monotonic()` and the boot it counts from (`kern.boottime`) |
| `controller` | `data["controller"]` in `jobs.json` |
| `published` | `sample.json` |
| `held` | the sample in each supervisor's hands, taken *before* it has the registry lock |
| `running`, `launch` | supervisors whose command runs; the start that is performed under the lock, with the sample and the time it was decided with |
| `started`, `paging` | history: the last start of this boot; what the observations say of paging, in the order they were made |

A supervisor first gets a sample without the lock (`Measure` as the elected
sampler, `Reuse` of the published one, `SamplerBusy`, or `MeasureFails`, where
`Scheduler.measure` makes up a fault), and later folds it under the lock:
`Observe` for a running job; `Deny`, `Admit` or `GiveUp` for a waiting one, with
`newer_cached_sample` (`Latest`) in between. `Admit` only begins a launch; `Start`
saves the controller with `last_start`, and the clock may go on in between or the
launch may come to nothing (`StartFails`). `Bypass` is a start while memcap is
paused. `Tick` and `Reboot` are the environment; a reboot keeps both files and
starts the clock anew.

*Abstractions.* A budget that is exceeded, and the second look at the pressure
just before a launch, can only turn a permission into a refusal: any decision may
be one. All supervisors share one measurement configuration (section 5 has
several). Pressure and swap-out rate are reduced to what `advance` distinguishes:
well, paging, critical, fault. Times are whole ticks, and the constants keep
their order but not their proportions: `Settle` stands for the three two-second
limits, `Recovery` for six and `Sustained` for ten seconds.

| Run | Instance | Shows |
|---|---|---|
| `Admission` | 2 supervisors, two stories: 2 boots of 3 ticks with unlabelled samples, failing measurements and pauses; or 1 boot of 5 ticks on a host that is well, pages or is critical, with every sample labelled | `TypeOK`, `StartSpacing`, `RecoveryWindow` |
| `AdmissionUnlabelled` | violation: samples that lack their boot id | `RecoveryWindow` |

*Bounds.* `MaxTime` bounds the clock of a boot, `MaxBoots` the boots; `StartsTime` is the smaller bound on the clock in the first
story. The stories restrict what the environment does, never what the code does, and
keep the run small: spacing is about resets, the window about pressure. Three ticks
hold two starts `Settle` apart and a reset between them; five hold two paging
samples `Sustained` apart, the window they open and a start in it. Two supervisors
fold two samples in either order. The theorems hold for every `MaxTime` and every
set of supervisors. `CHECK_DEADLOCK FALSE`, because a bounded clock stops.

*Finding.* `AdmissionUnlabelled`: a sample without a boot id replaces the whole
controller and with it an open recovery window; the next sample replaces it
again. `vm_sample` leaves the id out when `vm_stat` or `sysctl` takes longer than two
seconds, which happens when the host pages.

*Remark.* Whether `sample.json` is fresh is judged by the monotonic clock alone
(`scheduler_metrics.py:252`), so the file of the previous boot is fresh again when the
uptime reaches its stamp, and its boot id agrees with the controller, which is of
that boot too. A request may then be admitted on a measurement made before the
reboot. `Reboot` includes this; no property of the runs is about it.

## 5. The shared measurement: `SharedSample`

`SharedSample` models `shared_sample` of `libexec/scheduler_metrics.py`: the look
at `sample.json` (`Look`), the attempt on `sample.lock` without waiting (`Elect`),
the second look (`Recheck`), the probe (`Probed`, `ProbeFails`), the publication
(`Publish`) and the others' polling for it (`Reread`). `Crash` is a killed
supervisor, whose flock the kernel drops. Instead of stamps, the state has the
*ages* that the code compares; `Tick` lets them grow, up to the largest value a
comparison can tell apart, so that the clock needs no bound. The 21 attempts, 50
ms apart, to read the sampler's result are the time `Handoff` they take.

| Run | Instance | Shows |
|---|---|---|
| `SharedSample` | 3 supervisors, of which one has another configuration and one may die or fail in a probe | `TypeOK`, `PublishedInOrder`, `WaitsEnd` |

`PublishedInOrder` is about a sample that is measured early and published late.
It, the types and `OneSampler`, one probe at a time, are proved for any supervisors; `OneSampler` has no run.
The second look and the start of the probe are one step (`Recheck`); that it starts none while a fresh sample
is there is its guard, and no property repeats it.
Three supervisors are the sampler, one that waits for it and one, of the other
configuration, that replaces what it published. Deadlock is checked.

*Fairness.* Time passes, and a supervisor that has only to try the lock, to look
again or to wait does so. Nothing is assumed of the probe, which runs other
programs and may be slow: that everybody else gets an answer
nevertheless is `WaitsEnd`.

## 6. Collecting idle helpers: `IdleGC`

memcap ends browsers and development servers whose agent has come to rest. An
agent reports what it does through lifecycle hooks, each a process of its own
(`mc_gc_event`, `Collector.event`); the watchdog scans (`mc_reap_idle_helpers`,
`Collector.scan`) and asks for authorization (`Collector.authorize`) in each of
the three passes of `mc_kill_pids`: before it logs, before SIGTERM, and two
seconds later before SIGKILL. Both sides first measure the processes and then
take the lock of `state.json`. What must hold is that nobody who works loses a
helper, although hooks of a turn and of its subagents overlap, fail, or come
while the collector decides.

| Variable | Code |
|---|---|
| `sessions` | `data["sessions"]`: phase, whether children are recorded, `ended` |
| `candidates` | `data["candidates"]`: `now - c["first"]` of each helper |
| `hook` | the hook each turn and each subagent is in: marker written, processes measured, and its table |
| `stuck` | a marker left in `gc-activity-pending` by a hook that failed |
| `gc` | the collector: pass (`round`; a scan is 0), table, time since `time.time()` was read (`lag`), pids to authorize and authorized |
| `agents`, `turn`, `child` | the truth: which agents live, which sessions and subagents work |
| `quiet` | history: time since the last recorded event of a helper's owner |
| `misled` | history: sessions that are recorded as ended because a subagent ran the Stop hook, with nothing but subagents' Stop and SubagentStop recorded since |

A hook is `Mark`, `MeasureHook`, `Record` (or `HookFails`); the collector is
`Measure`, `Clock`, `Scan` or one `Authorize` for each process, `Confirm` (the
last look at the markers, and the next pass), or `GivesUp`. Agents start and end
at any time, and report only while they live.

*Abstractions.* Which commands, CPU times and connections disqualify a helper is
left open: any helper may be excluded and any clock restarted at any step, which
covers every answer of those tests, `last`, and the seven days of
`eligible`. One subagent stands for the list of children. Each helper is one
process. A marker can always be written and bears a name of its own. The
`SessionStart` and `SessionEnd` events behave like a prompt and a stop.
A Stop that memcap answers with "block" is recorded as any other, and the model
takes the agent to rest until its next event; between the two only the grace
period protects its helpers. Ages instead of stamps make time unbounded; a `Tick` that ends the collector's
wait for the lock (2 s) makes it give up.

| Run | Instance | Shows |
|---|---|---|
| `IdleGC` | session `a` of agent A with a subagent that runs the Stop hook too, and a development server; session `b` of agent B in the same project, whose hooks may fail and which may end | `TypeOK`, `IdleWhenGranted`, `GraceHonoured`, `ProjectRespected` |
| `IdleGCStale` | the same, without failures, but agents may start between a measurement and its use (`Racing`) | `ProjectRespected` is violated |

`Grace` is two ticks and `LockWait` one: a clock can be started too early by the
wait and still has to run for a tick longer. `IdleGC` has two of the three
`Passes`, which suffice for a pass after a pass: nothing but the authorized pids
is carried from one to the next; `IdleGCStale` has three. Two agents, one with
two concurrent reporters, are what the properties compare. `Unmarked` does not explore further once a failed hook has left
its marker, which nothing removes, because nothing is authorized from then on. Deadlock is checked.

`IdleGCStale`: a session whose agent is younger than the collector's table is
ignored by `eligible` and dropped by `scan`, although it is recorded and works;
measuring takes up to ten seconds for each of `ps`, `lsof` and `simctl`, and all
processes of a pass are authorized with the one table.

*Where it ends.* A subagent may run the Stop hook, with its `agent_id`. The code keeps the session active then, because
"A child's Stop is not the parent's completion." (`idle_gc.py:398-399`), but it has already taken it for one:
`ended` is recorded as true (`:389`), and the SubagentStop that follows inherits it (`:390`), finds no children and records the
session as idle although its own turn works (`Noted`). The next event of any other kind mends the record. Until then only the grace protects
the helpers of the session, and it may pass during one long step of the agent. `IdleWhenGranted` and `ProjectRespected` except such a
turn (`Evident`), and nothing wider: without the exception TLC finds both violated in `IdleGC`, by a prompt, a subagent's start, its Stop and its
SubagentStop, and a scan after the grace.

## 7. Ending jobs by a plan: `ProcessTable`, `OrphanRecovery`, `HangingJobs`, `PlannedKill`

Four planners end a registered job as a whole: a server whose supervisor or agent
is gone (*orphan*), a job that hangs in a simulator boot (*boot*), and a job that
does nothing but wait in a shell loop, queued (*waiting*) or running (*running*).
`OrphanRecovery` and `HangingJobs` hold what they decide (`Abandoned`, `Observed`,
`OrphanAllowed`; `BootPlan`, `BootAllowed`, `PollPlan`, `PollAllowed`) as operators
over the entry of the job and the process table; `ProcessTable` holds the walks over
the table that they share. `PlannedKill` runs them. The watchdog reads (`Read`), plans (`ScanJob`) and carries
the plan out: `Filter` is `mc_filter_protected` in its four rounds (may it be logged,
may identities be noted, SIGTERM, SIGKILL), `NoteIdentities`, `Term`, `Survivors` and
`KillNow` are the steps of `mc_kill_pids` around them.

Meanwhile processes exit, fork, leave the group, replace their program
(`Exits`, `Forks`, `Becomes`), a stranger gets a number (`Stranger`), supervisors
refresh the registry (`Refresh`) or are admitted (`Admit`), an agent claims, releases or
pins the job (`Claim`), and clients and sessions come and go (`Surround`).

`GraceUninterrupted`: a claim or a pin, even one that comes and goes between two scans or
during the kill itself, starts the two minutes again, and SIGKILL waits for it too. `WholeAttempt`: whenever a
signal is decided on, it is for all that is left of the job and for processes of the
plan only.

*Abstractions.* What an environment variable or a title tells of an agent, what the
network reading says, and how a loop or a boot is recognized in a command line are
inputs. SIGTERM ends nobody by itself: who honours it is one of those that exit.

## 8. Disposable environments: `Environments`

One Compose project, from its registration to the stop of its containers. The worker
registers it (`Registers`), creates the containers one by one in a child process
(`Prepares`, `Creates`), starts them (`Activates`, `Starts1`), runs the workload and releases
the project (`Works`, `Releases`). Two reapers, the worker's own release and the
watchdog's, each read the processes (`MeasureReaper`, `MeasureRelease`), ask under the lock
(`EnvScan`, `AuthorizeStop`), stop the containers (`StopContainers`) and record it (`Finish`). Agents claim, release
and pin (`ClaimEnv`) and come and go; the worker, its group and containers may die.

`DisposalJustified`: no stop in spite of a pin or an accepted claim, and by the
watchdog only when everything has been gone for two minutes; `StoppedIsFinal`: a
row says "stopped" only when nothing runs and nothing is left that could start it.

*Where it ends.* `DisposalJustified` is about claims of agents that were alive when the
stop read the processes: an agent that starts and claims between that reading and
the lock is not in the table and does not hold the environment. If the
registry is locked when a worker ends, it never releases its project
(`environments.py:233-235`) and leaves it to the watchdog.

## 9. Who waits for a job: `PendingWork`

`memcap wait ID`, `memcap wait --session` and the Stop hook ask, without a lock, whether work is
pending: the process table, `jobs.json`, and for `memcap wait` the process table again
(`Looks`, `Reads`, `Confirms`, and `Again` for the next round of `wait_for` or the wait of a
blocked Stop), while supervisors start, register, launch, observe a cancellation,
retire, are killed, and refresh each other's entries (`Spawns` to `MemberExits`). `AnswersTrue`: what is named as pending was pending at some moment
of the look, and no job that was pending all the time is left out.

*Where it ends.* Servers are not waited for. A supervisor that launches its command and
is killed between the last two readings is told as "no longer pending" (`scheduler.py:1651`)
while its group lives on; the property excepts a supervisor that dies during the look.
A job whose supervisor has not registered yet when its turn stops is not waited for.

## 10. Measuring, charging, estimating

The queue charges a running job for memory. Five modules follow a number from the
processes to the next request.

`OwnedObservation` is `sample_job` and `reconcile`: two process tables, each followed by
a reading of every process, folded into the entry under the lock, while processes of the
job fork, leave the group and exit, and others refresh the entry. A run certifies that
estimates may be lowered; `CertifiedMeansMeasured` says that then every process the
supervisor ever found was measured. A child that is born and gone between two tables is
found by nobody, and the property does not speak of it.

`NativeObserver` is one tick of `native_observer.py` over a command outside of the queue: table, readings,
second table, the root again, every member again. A table carries no birth times, so that a
number in it may stand for two processes; `OwnTreeMeasured` says that none but the
command's own is ever counted. How long a stale file is kept is left out.

`Allowance` is `reservation` with `observe` and `observe_owned`: an estimate, then what was seen, then a
window of 60 seconds whose peak may lower the allowance again. `AllowanceCoversPeaks`: it covers
each peak of the last window that was measured and applied in the unit it was
taken in, through gaps, failures, a sample that overtakes another and a lost supervisor. A peak
that is applied only after a newer sample began the window anew need not be covered. The window is the set of its
rows, of which no two have one time. The type invariant bounds the allowance by `Ceiling`, the sharpest bound that each
step keeps: five times the quarter of the largest usage or request, rounded up, however often a peak is
carried forward, so that no sequence of samples drives an allowance up by itself.

`Estimates` is `demand`, the rows of `workload_estimates.py` and the profiles of
`compiler_profiles.py`: exact history by revision and worker count, profiles that survive
edits, floors that a killed run leaves behind. A row keeps 50 peaks and takes a percentile of them from the
twentieth run on, a profile keeps 20 samples. `RequestCoversGrowth`: a new request covers 1.5 times the largest growth
any run with a profile has shown until three complete ones have followed. Growth below
the floor does not restart that count (`compiler_profiles.py:149`, `:193`), so that it is
the count since the largest, not since the last, partial run. A profile that 256 other contexts have
displaced loses its floor with everything else; there are not so many contexts in the module.
`compiler_profile` may return no profile for a command that has had one, if its time is up, a file changes while it looks, or
there are too many (`compiler_profiles.py:75-77`, `:86-88`, `:97-98`, `:107-108`). `predict` then returns the exact estimate as it is
(`:152-153`), without the floor, although `scheduler.py:560-561` says to "still apply any independently observed growth"; and such a run
teaches its row alone (`TeachesProfile`). The tests expect it (`tests/test_compiler_profiles.py:87`). Every request and every reconsideration in the module may lack its profile; the
property is about those that have one. Compilers have no `estimate_family_key`, which only scripts do, so that
the family row of `scheduler.py:549` does not concern them.

`Budget` is the memory arithmetic of `decide` with the sample it is fed. A sample is not one
moment: `top` is read first (`ReadsTop`), then `ps` (`ReadsTable`), and the free memory of the
host last (`ReadsFree`); the decision (`AdmitsLoad`) is made later, under the lock, on the members
that are alive by then. Meanwhile commands start, grow up to their request, shrink and end. A process for which
`top` had no row, or any process if `top` failed, is measured by `ps` as its resident size (`ResidentSize`), which counts
shared pages in every process and compressed memory in none (`measure.sh:240-255`); `mc_free_pct` takes inactive,
speculative and purgeable pages for free (`InactivePages`). `NothingOvercommitted`:
what is promised to the running jobs fits into the budget (strict mode), whatever the sample says, and leaves the headroom of
the host (both modes), even if every job takes all of it, except for what the sample overstated. Some errors
of a sample are on the safe side: growth between `top` and the free memory is subtracted twice, a
command that the sample has not seen is charged in full, and one that has ended since still counts as
used memory. Three are not: a resident size above the footprint makes what the job may still take too small, and so
does a footprint that has shrunk when the free memory is read; inactive pages are in use. Their sum at the
moment when the sample is completed is its `excess`, and `overstated` the excess of the sample that admitted
the last job; the headroom may fall short by as much, and by no more, since each decision takes all earlier promises into account anew. What happens
between the completed sample and the decision costs nothing. With the free memory read first that would not hold.

The module is about explicit requests, about commands that keep to them, and about numbers that are not used
again: footprints are keyed by number alone. What agents use outside of the queue (`Elsewhere`) is constant and measured exactly. A launch
while memcap is paused is not decided at all, and an estimate may shrink (`Allowance`); neither is in the module.

## 11. Records and files

`History` is the analytics recorder: datagrams that may be dropped and batches that may be posted
again (`Emit`, `Imports`, `Post`), one loop that inserts in a transaction, maintains, commits and
beats (`Drains`, `Maintains`, `Reclaims`, `Records`, `Commits`, `Beats`), with a storage that may fail at any
write and a recorder that may be killed. `HistoryExact`: nothing that is retained was
counted twice, everything retained was counted, and the last phase of a job
outlives the eviction of its row. An import that is repeated after its rows were evicted is
counted again, although `analytics.py:82` promises that a "repeat import safely
deduplicates"; the property allows one more count for each eviction.

`HookMerge` is `merge_hooks`, a pure function of an event's groups, applied again and again by
newer versions to any settings of up to `GroupLimit` groups of up to `Width` handlers (two of two in the run).
`MergeExact`: the hooks of others keep their group, matcher and
position, which carry their trust; each generated one of this version is there once, under its matcher, and nothing else
of ours; doing it again changes nothing. The roles of the generated groups are distinct, as those of
`feedback.sh:146-158` are. The two loops of the code are recursive functions (`Steps` over the handlers of
a group, `Passes` over the groups).

`Integration` is `prepare` and `commit` with the rollback: two installers of different versions and a
user who edits two files in two directories, with locks taken in the order of the
directories, kills and failing writes. Files and directories are numbers, which is the order they are
replaced and locked in. `InstallationWhole`: an update that failed leaves
none of its files unreported, and two installers never leave a mixture. `EditsKept`: what
an installer puts in place of a file keeps the text that it finds there, and if the user wrote that text, it was
saved before, unless the two differ by memcap's part alone. A file that
needed no change when it was read is not looked at again under the lock (`integrate.py:318-321`), and a killed
installer takes nothing back: both may leave the files of two versions, and are excepted.

`Reports` is `Reporter.report`: agents that report the same problems, consent that changes, a
submission that GitHub accepts without an answer, a search that lags behind. `OnePost`: one post for
each kind by this installation. It is proved (section 13).

## 12. The runs `Upkeep` and `Measurement`

The modules of sections 7 to 9 and 11 share no state, nor do those of section 10. `MCUpkeep` and `MCMeasurement` therefore
instantiate them together: the variable `subject` says which of them a behaviour
is about, and the others keep one initial state. Each property then concerns the
part that moves, and the state space is the sum, not the product, of the parts.

| Run | Instance | Shows |
|---|---|---|
| `Upkeep` | five processes with numbers used up to twice, two outside events; two containers, origin and one guest; five events of two jobs and three days; two handlers in groups of width 2; two installers, files and directories; two reporters and kinds; one queued job of any kind | `UpkeepTypeOK`; `GraceUninterrupted`, `WholeAttempt`; `StoppedIsFinal`, `DisposalJustified`; `HistoryExact`; `MergeExact`; `InstallationWhole`, `EditsKept`; `OnePost`; `AnswersTrue` |
| `Measurement` | three processes with numbers used up to twice; allowances over five units of time; two jobs, revisions and worker counts, four runs and one edit or eviction; three commands of sizes 2, 1, 1 on a host of 5, one unit of shared and one of inactive pages, three policies | `MeasurementTypeOK`; `CertifiedMeansMeasured`; `OwnTreeMeasured`; `AllowanceCoversPeaks`; `RequestCoversGrowth`; `NothingOvercommitted` |

*Bounds.* `Moves` and `Uses` let two things happen around a plan, which is enough for
a claim that comes and goes, or for a process to go and its number to be used again. `Trouble`, `Faults`, `Edits`,
`Attempts`: one failure after another, or one while the other installer works. `Sends`, `Days`,
`Backlog`, `InboxSize`: a full socket and inbox, a repeated delivery, and a day after which
rows and one after which checkpoints go. `Horizon` exceeds the window by two units, so that a peak
leaves it and another enters; `Runs` is one more than the three complete runs of the floor. In `Budget` three
commands are one that runs, one that has started since the sample, and one that asks; of the policies, one is limited by
its cap, one by the host, and one is adaptive; a second sample in flight changes nothing (5 million states, not kept as a run). Ages
are counted up to the largest value that a comparison can tell apart. The limits keep their
order, not their proportions.

*Reductions.* `Undecided` does not explore further where nothing can be decided any more: an observation
that is incomplete stays so and certifies nothing; after the last of the four requests nothing is compared with what runs show, and
new requests are made with the largest worker count, so that a profile of a smaller one is read by none of them; after the last of the three
admissions promises are only given back. It holds in every other part, where none of these moves.

*Deadlock* is not checked: budgets run out, a look ends, an environment is stopped for good. *Fairness*
is not assumed: all properties of these runs are about what may never happen.

## 13. What is proved

The theorems about the queue hold for every finite set of requests, any
sessions, resources and limits, and any subset of crashing, failing, signalled,
forking and recycled supervisors (`RotationAssumption`, `SchedulerAssumption`);
those about admission and the sampler for every set of supervisors and every
choice of the time limits (`AdmissionAssumption`, `SharedSampleAssumption`);
those about idle collection for any agents, sessions, projects and helpers
(`IdleGCAssumption`); those about reports for any agents and kinds of problems
(`ReportsAssumption`).

Those about measuring and about upkeep hold for any finite set of process numbers, used any number
of times (`PidsAssumption`: a kernel has finitely many), any job of them (`ObservationAssumption`, `PlannedAssumption`), any
finite sets of usages, of peaks and of worker counts (`AllowanceAssumption`, `EstimatesAssumption`: finite,
because a largest one has to exist), any jobs, sizes and policies (`BudgetAssumption`), any
containers and agents (`EnvironmentAssumption`), a lease shorter than the grace (`LeaseAssumption`), jobs and conversations
(`PendingAssumption`), any finite set of events (`HistoryAssumption`) and any finite set of files and directories
(`IntegrationAssumption`). The bounds that stop TLC (`Moves`, `Uses`, `Trouble`, `Sends`, `Days`, `Edits`, `Faults`,
`Runs`, `Upsets`, ...) are constants too, of any value.

Nothing else is assumed, but that three theorems state a premise. `RecoveryIsWaitedFor` needs that samples carry one boot id (`OneLabel`),
and is false without it (`AdmissionUnlabelled`). `IdleTheorem` and
`ProjectTheorem` need that no agent starts between a measurement and its use
(`~Racing`); the second is false without it (`IdleGCStale`), and for the first a
hook that has measured before an agent started would drop its session.

| Module | Theorem | Property |
|---|---|---|
| `SchedulerProofs` | `TypeCorrect` | `TypeOK` |
| | `WorkIsAccounted` | `WorkAccounted` |
| | `OwnEntryFound` | `OwnEntry` |
| | `WithheldStaysOut` | `WithheldNeverRuns` |
| | `FinishedGroupEmpty` | `FinishedMeansEmpty` |
| | `LiveEntriesSurvive` | `EntriesSurvive` (no run checks it) |
| | `SlotsBounded` | `SlotBound` |
| | `HoldersExclude` | `OneHolder` |
| | `WaitingBounded` | `WaitingBound` |
| | `ImplementsQueue` | `Refinement` |
| `AdmissionProofs` | `Typed` | `TypeOK` |
| | `StartsAreSpaced` | `StartSpacing` |
| | `RecoveryIsWaitedFor` | `RecoveryWindow`, if all samples carry the id of one boot |
| `SharedSampleProofs` | `TypeCorrect` | `TypeOK` |
| | `SamplersExclude` | `OneSampler` (no run checks it) |
| | `PublicationOrdered` | `PublishedInOrder` |
| `IdleGCProofs` | `TypeCorrect` | `TypeOK` |
| | `GraceTheorem` | `GraceHonoured` |
| | `IdleTheorem` | `IdleWhenGranted`, if no agent starts between a measurement and its use |
| | `ProjectTheorem` | `ProjectRespected`, on the same premise |
| `MeasurementProofs` | `ObservationTypeCorrect`, `LearningIsMeasured` | `ObservationTypeOK`, `CertifiedMeansMeasured` |
| | `NativeTypeCorrect`, `OnlyOwnTree` | `NativeTypeOK`, `OwnTreeMeasured` |
| | `BudgetTypeCorrect`, `MemoryIsNotOvercommitted` | `BudgetTypeOK`, `NothingOvercommitted` |
| | `AllowanceTypeCorrect`, `PeaksAreCovered` | `AllowanceTypeOK`, `AllowanceCoversPeaks` |
| | `EstimatesTypeCorrect`, `GrowthIsCovered` | `EstimatesTypeOK`, `RequestCoversGrowth` |
| | `MeasurementTypeCorrect` | `MeasurementTypeOK`, of the five side by side |
| `UpkeepProofs` | `EnvTypeCorrect`, `StoppedStays` | `EnvTypeOK`, `StoppedIsFinal` |
| | `DisposalIsJustified` | `DisposalJustified` |
| | `PendingTypeCorrect`, `AnswersAreTrue` | `PendingTypeOK`, `AnswersTrue` |
| | `PlannedTypeCorrect`, `GraceIsUninterrupted` | `PlannedTypeOK`, `GraceUninterrupted` |
| | `AttemptIsWhole` | `WholeAttempt` |
| | `HistoryTypeCorrect`, `HistoryStaysExact` | `HistoryTypeOK`, `HistoryExact` |
| | `ReportsTypes`, `PostedOnce` | `ReportsTypeOK`, `OnePost` |
| | `HandledAlone` | one report at a time is handled, by the holder of the lock |
| | `UpkeepTypeCorrect` | `UpkeepTypeOK`, of the seven side by side |
| `IntegrationProofs` | `IntegrationTypeCorrect`, `InstallationIsWhole` | `IntegrationTypeOK`, `InstallationWhole` |
| | `EditsAreKept` | `EditsKept` |
| | `MergeTypeCorrect`, `HooksMergeExactly` | `MergeTypeOK`, `MergeExact` |

*The queue.* None of the invariants is inductive by itself. `WorkAccounted`, for instance, is
preserved by a refresh only because a live group is retained, by a publication
only because the copy that is saved is as recent as the file, and by a cleanup
only because the leader of a supervisor that got there can no longer be in its
gate. The inductive invariant is built in three layers, each relative to the
ones before, with one lemma per action:

1. `Controlled`: what a supervisor's control point says about the lock, its
   child and its local variables (exactly the launching supervisor holds the
   lock; the child is gated only during a launch or after a crash in one).
2. `Registered`: how the registry, and equally the copy a launch holds, follow
   control: a queueing supervisor's entry waits, a supervising one's runs; every
   opened gate whose group is alive has a running entry; and the held copy has no
   fewer entries than the file on disk, so that saving it loses nothing.
3. `Rationed`: the copy of a launching supervisor still has room for it (a slot
   unless a pause let it through, no other holder of its resource), which is
   where the bound survives the gap between decision and save.

The refinement uses all three: every action either keeps each request's phase
or moves one request along an edge of `WorkloadQueue`, and the guards of
`Start` follow from `Rationed` because a started request has a running entry.

*Admission.* `StartSpacing` must survive resets, which forget `last_start`. The
invariant `Remembers` says why it does: either the controller still has the last
start, or it was reset after it and `healthy_since`, which a reset sets to the
present, is no earlier; `decide` compares both with the same limit.
`RecoveryWindow` rests on `Mirrors`: as long as every sample carries the same label the
controller's newest sample and paging times equal the history's, and its
`cooldown_until` is never earlier than the window the history has opened,
although the samples arrive in any order.

*SharedSample.* `Locked`: whoever is between the election and its answer holds
the lock. Order follows, because a sample in the sampler's hands is of this
election, and what is published is from an earlier one.

*IdleGC.* A signal is authorized only while no marker exists, so the invariant
has to say what the record knows of a session while it is in no hook:
`WorkersRecorded`, a turn is recorded as not ended, or is one of the `misled`, and a subagent as a child, as
long as no hook has failed (one that has leaves its marker). Hooks of both
report in any order; the invariant is kept because the turn's events never touch
`children` and of a subagent's only its Stop sets `ended`. `TablesComplete` keeps live
sessions from being dropped as belonging to a dead agent; it is the part that
needs the premise. `GraceHonoured` needs only `ClocksBehind`: every event of an
owner takes its helpers' clocks away.

*Reports.* That something was posted is known to the ledger only afterwards, and to the
search still later. The invariant has three parts: `LockInv`, a report beyond its look at the lock holds
it, so that what it read of the ledger is still so; `LedgerInv`, whatever this
installation has posted is in the ledger as posted or uncertain; `ReportInv`, a report about to submit
has recorded its kind as uncertain and found nothing posted before. `OnePost` follows because an
uncertain kind is never submitted again.

*Observation.* `ObsInv` follows the two tables of a sample: whatever they found and no reading measured is pending or
still in hand, as long as the observation counts as complete. A run is certified only with nothing pending and no sample in
the making.

*Native observer.* Birth counts of a number only go up, so a process that has the measured start at the end of the tick
was there at the second table; there it agreed with the first, whose walk from the root never left the tree.

*Allowance.* The allowance and the lifetime's peak cover what was measured, and the window has a row for whatever was
measured since it began (`InWindow`). A full window reaches back further than anything that still must be covered; one that
restarts begins with a peak that covers it.

*Estimates.* `RequestCoversGrowth` compares a request with runs long gone. `EstimatesInv` says that the floor
of a profile is what the largest growth of a run with a profile asks for and that no more samples count as later than complete runs
have followed (`IsFloor`). A run completes with a peak it has shown before (`Shows`), so that only growth moves the
floor; capping and expiring samples leaves fewer later ones. Forgotten rows do not matter, because a request is never below the
floor of the profile (`DemandIs`).

*Budget.* `SampleIsPast`: a sample has no more of the jobs than they had when the free memory was read and its excess, and nothing of a
job that was not running. What the sample has of a job and what is set aside for it thus cover its memory, job by
job, and (`SumsCover`, an induction over sets of jobs) in sum.

*Environments.* `EnvInv` relates the worker, the row and the containers (`Progress`), and says that what the watchdog has measured cannot
become false any more (`StopsInTime`), and that no vacancy is counted that was not there (`GraceCounted`).

*Waiting.* `PendingInv` carries bounds of what was pending, `must` and `may`, through the two or three readings of a look.

*Planned kills.* `RowMoves` is what any step makes of one process: nobody comes back to an old birth, program or group. A
target that is still as the plan noted it has therefore been so ever since, and `KillInv` says what the plan, the noted identities
and the claims say of the processes of now.

*History.* `HistoryInv`: the counts, the marks and each job's latest day are those of one table, in the database and
in the transaction that may still be rolled back; eviction removes from all of them alike.

*Integration.* `IntegrationInv`: which locks an installer holds and how far it has come; the old contents are saved before anything is replaced, and
over files that agreed one at a time writes, so that what it takes back is what was there.

*Merged hooks.* The claim is about a function, so the invariant runs along its recursion, over natural numbers:
`StepInv` says what holds after n handlers of a group (what is not ours stands where it stood, what is ours is of
the generated groups that are no longer pending, each of those once), `PassInv` what holds after n groups. A group whose
handlers shift although others follow makes the merge refuse, which is why positions survive. That a repetition changes
nothing is a second such induction (`AgainInv`, `AgainPass`): it meets every generated handler where the first merge has
put it, finds it pending, since no other stands for it (`Once`), and replaces it by itself.

*Side by side.* `MeasuredApart` and `UpkeptApart`: a behaviour of a composition is one of each of its parts, which
stutters while another is the subject.

*What the proofs found in the models.* `Budget` stated its property also with no running job, when nothing is promised: it says so now.
`EditsKept` was false with two edits, which the run's bound of one hid: a user who edits a file and edits it back to exactly what memcap
wrote has that taken out by the undo, as memcap's part. Two cases of `Family` in `PlannedKill` overlapped. The type invariant of `Allowance`
was weaker than what every step keeps; the bound is now the sharp one.

*Only model-checked:* the liveness properties (`CancelHonoured`, `DeadEntriesPruned`, `EveryRunEnds`, `WaitsEnd`), which
need fairness and ENABLED. The provers cannot instantiate an induction over data that takes an operator; an induction over the
numbers, for a set of them, is possible, and used for descendants, sums, least and greatest elements, and the loops
of the merge.

## 14. Not modelled

The parts still to come are in the plan (section 2): the watchdog's scopes, the worker
count of `allocation`, and a composition of queue, admission and sampler. Left out:

- *The pressure watchdog's choice of victims* (`mc_kill_over_budget`, `mc_reap_sims`): thresholds
  on the parsed output of `ps`, `footprint` and `simctl`. The choke point its kills pass is in
  `PlannedKill`, with the scopes that are modelled.
- *Command classification*: stateless parsing of shell text.
- *Docker readers, analytics reports and installation, diagnostics and traces*: output for people,
  which nothing reads back; and the launchd file of the recorder.
- *The time spent at each pressure* (`analytics_store.py:177-188`), which the recorder sums up from `last_sample`, in
  memory only: it starts anew with the recorder, and neither counts nor checkpoints depend on it.
- *Configuration and dispatch*; the fitted command that `launch` builds for a compiler.
- *Queue deadlines and feedback*: notices to agents. `feedback_prune` unlinks a receipt's lock
  that another hook may be waiting for, after which two hooks hold "the" lock; the cost is a repeated notice.
- *Abandoned simulators* in `idle_gc.py`, and what makes a command, its CPU time or its
  connections disqualify a helper.

Within the modelled parts, the contents of messages, files and measurements are reduced to what a
decision compares, as each section says.
