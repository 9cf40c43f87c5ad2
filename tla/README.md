# Verification of the PlusClouds VM agent

TLA+ models of the agent in this repository, the TLC configurations that check
them, and TLAPS proofs of their main properties. The models are translated from
the code (`cmd/agent`, `internal/*`, `pkg/isoconfig`); the documents are used
only where a run compares what they say with what the code does.

## 1. Inventory

The agent is one Go process on a VM. It connects to NATS, receives commands on
`agent.vm.{uuid}.cmd`, executes them and publishes results, heartbeats and
telemetry on `agent.vm.{uuid}.evt` (and telemetry on `vm.{uuid}.telemetry`).

| component | state it keeps | operations | what makes it correct |
|---|---|---|---|
| NATS client (`internal/nats`) | the nats.go connection, one subscription with a bounded pending list | `Connect`, `Subscribe`, `Publish`, `PublishToSubject`, `Drain` | every readable message reaches the handler once and in order; unreadable ones are dropped and block nothing |
| Dispatcher (`internal/dispatcher`) | the allowlists, nothing mutable | `Dispatch`, `run` | one result per command; refused commands do nothing; the status tells what happened |
| Publisher (`internal/publisher`) | two goroutines with tickers, a one-slot channel for the telemetry interval | `Start`, `SetTelemetryInterval`, `SendCapabilities` | the newest interval wins and is applied; tickers never get a period they panic on; loops survive errors and stop on cancellation |
| System metrics (`internal/modules/system`) | the last disk counters and their time, under a mutex | `GetInfo`, `GetMetrics`, `GetCPU`, `GetMemory`, `GetDisk`, `GetNetwork` | rates compare consecutive readings, also when two goroutines ask at once |
| Services (`internal/modules/services`) | a D-Bus connection, or none | `List`, `Get`, `Start`, `Stop`, `Restart`, `Reload`, `Enable`, `Disable` | success means that systemd's job was done or the file changed; a call returns with its job |
| Executor (`internal/executor`) | none | `Execute` | a listed binary runs for at most the timeout; the error says how it ended |
| Lifecycle (`cmd/agent/main.go`, systemd unit) | context, deferred clean-ups | start, signal, cancel, drain, exit | commands are handled from the subscription on; a stop is never held up; a command is answered in the end, across restarts |
| Identity (`pkg/isoconfig`, `internal/config`) | none after start | `Load`, `Read` | id and key come from one place, however the drive is mounted meanwhile; an agent that can start does |
| `cmd/ctl`, `pkg/cmdutil` | none | print | not part of the agent process |

**How they interact.** nats.go calls the subscription's callback from one
goroutine, so commands are handled one at a time; the callback runs `Dispatch`
to the end and publishes its result. `telemetry.set_interval` passes a value
through the publisher's channel to the telemetry goroutine. `system.disk` and
`system.metrics` share the disk baseline with the telemetry goroutine. The
heartbeat goroutine shares nothing but the connection. main subscribes *before*
it starts the publisher's loops, and on a signal cancels the context that the
loops and the operations use.

**Where it is hard.** A blocking call in the callback holds up every command;
the channel hand-over is a check followed by a blocking receive; disk counters
are read before the mutex is taken; seconds are converted to nanoseconds
without a bound; some operations report failure in the output and others in the
error; the process exits while the handler may be at work; the platform retries
what the agent may have done already; the drive may be mounted while it is read.
The list with lines is `hazards` in `PROJECT.json`.

## 2. Modules

### Dispatcher

The command path: the pending list (`inbox`), the callback (`Drop`, `Handle`),
`Dispatch` (`Reject`, `Accept`), `run` with one action per operation or, where
`run` waits for something outside (an executed program, a systemd job,
`SetTelemetryInterval`), one action for the call and one for the return, and
the closure of main (`Publish`). A message is a record of what the control flow
looks at: whether envelope and payload decode, version, reply subject,
operation, the spelling of the params (absent, `null`, `[]`, `{}`, an object,
something that does not decode) and the two parameters that decide
something (`command`, `interval_s`). Names of services, arguments and outputs
are left out. `handled`, `answers` and `effects` are histories. `Deliver` and
`Overflow` are nats.go's part.

Handling and publishing are separate steps because other goroutines and the
arrival of messages can come between them; in `Agent`, so can the end of the
process.

### CommandService

What the command path promises, without the pending list, the program counter,
the forms of the params or the operations: one command is taken up at a time
(`Take`), only an accepted one starts work, and only work it is permitted
(`Work`), then it gets one answer under its own id and at its own subject, which
says rejected exactly when it was not accepted (`Answer`). `Dispatcher`
implements it (`ImplementsService`): the commands taken up are `handled`, the
works are `effects` without their outcome, the answers are `answers` without
the history's bookkeeping. Which commands are accepted and which work is
permitted is given by the definitions of `Valid` and `Authorized`, which are
independent of the tests that `Dispatch` makes.

### CommandHandler

The same path as `Agent` sees it: a handler that holds one copy of one command,
turns it down or works on it, and publishes the one status it came to. Seen from
outside, `Dispatcher` is such a handler (`ImplementsHandler`): its program counter
becomes `idle`, `taken`, `working` or `answer`, the copy in hand is the current
command's id with its number among those handled, and a rejection counts as a
failure. `CommandService` and `CommandHandler` are two views of `Dispatcher`, the
first with what is permitted and what was done, the second with the steps that the
end of a process or a lost connection can come between.

### Delivery

What the platform can count on: copies are begun at most once and in the order
of their arrival, one is worked on at a time, anything may be
lost at any moment, and an answer is a status that the handler came to for that
command. It extends `CommandHandler` by the copies that have arrived, those begun,
the statuses come to and those received. `Agent` implements it
(`ImplementsDelivery`); process, connection, machine and pending list are not in it.

### Agent

The agent among its surroundings. The platform (external) wants every command
answered: it sends it (`Arrive`, or `Miss` when nobody is subscribed or the
pending list is full) and sends it again after a time-out (`TimeOut`); it takes
the first result it sees, and more of them may come. Every arrival is a *copy*
of the command, which lets the properties tell a retry from a copy run twice.
The process goes from systemd's start through `Connect`, `Subscribe`, `Start` and
`signal.Notify` to the signal, `cancel`, the deferred `Drain` and the exit, one
action each (`phase`); `Crash` is anything that ends it elsewhere. nats.go
(external) loses and restores the connection, keeps what was published in a
buffer (`outbox`) that may be lost with the connection, gives up after
`max_reconnects` (`GiveUp`), and drains in the background. The handler is
`Dispatcher` seen from outside: a command is taken, turned down or begun, ends,
and its result is published; rejected results count as failed here. A command may
begin after main has cancelled, as in the code; whether it notices is left open.
A command of
`PowerCommands` that completes takes the machine down, so that its result races
the signal it causes.

### Startup

From the start of the process to the capabilities event. systemd reads the
environment file when it starts the process (`Launch`), `Load` merges
environment, file and defaults, `Reader.Read` looks for `metadata.yaml` and then
for `metadata.json` (`ReadYaml`, `ReadJson`, between which the drive may change),
`Resolve` chooses the identity, `Connect` tries it once, and `Start` announces
the operations; the platform may ask for them again (`Ask`). Every failure up to
the connection ends the process (`Ended`), and systemd starts it anew. Around it
the settings are edited and drives mounted and unmounted. A layer of the
configuration holds nothing (`<<>>`) or a value (`<<v>>`) for a setting. A drive
has `metadata.yaml`, `metadata.json`, both or none, readable or not. What identity
a drive calls for is said twice: by `Override`, as `run` has it, and by
`Identities`, which the properties use and which leaves open whose key counts when
a file has only an id or only a key, because code and comments differ there (the
property `KeyFallsBack`). That the catalog has the operations of `Dispatcher` is an
assumption of `MCStartup` (`CatalogIsImplemented`), evaluated by TLC on both sets
and used by no proof.

### Publisher

`SetTelemetryInterval` statement by statement (`SetCall` clamps; `SetSend` and
`SetFull` are the two branches of the `select`; `SetDrain` and `SetResend` the
two statements of the default branch), and the heartbeat and telemetry
goroutines: the first send before the ticker exists, the `select`, a send whose
collecting or publishing may fail, `Reset` (which since Go 1.23 also discards a
tick of the old period; `go.mod` says 1.25), the return on a cancelled context.
A `Duration` wraps around at `HalfRange`, in Go 2^63.

### IntervalRegister

What the hand-over of intervals promises without the channel: a request takes
effect at one moment (`Store`), replaces whatever was waiting, and is then used
(`Use`) or replaced by a newer one. `Publisher` implements it
(`ImplementsRegister`). The moment is the send into the free slot or, on the other
branch, the drain, not the second send: the caller is the only goroutine that
sends, so a slot it has emptied is its own. A call that blocks in the drain is one
that has not taken effect; the register simply stops.

### DiskStats

`GetDisk` for one device, with the two goroutines that call it: read the clock
(`Stamp`), read the counters (`Sample`, may fail), swap both with the baseline
under the mutex (`Swap`). The rest of the function uses local values, so the
rates are operators (`HasIO`, `Delta`, `Elapsed`) on what was swapped.

### Services

The systemd backend (`linux.go`): the connection is opened at the start or not
(`Connect`, `Unavailable`), and a call goes through its request, the reply and,
for the four actions that queue a job, the receive on its channel (`Call`,
`CallFails`, `JobQueued`, `Receive`); `enable` and `disable` change the unit
file and then reload systemd (`FilesChanged`, `Reloaded`). Accepting a request
and reading its reply are two steps, so a call may fail after systemd has acted.

systemd and go-systemd are external: one installed job per unit, merging with a
job that wants the same and cancelling one that does not (`Install`), others'
jobs (`OtherJob`), the end of a job and its signal (`JobEnds`), the lock that
keeps signals back while a job is requested (`Locked`, `DeliverSignal`), the
loss of the connection (`Lose`). A unit file is enabled, disabled or static, that
is, without an [Install] section; `enable` and `disable` leave a static one as it
is and get no error (`ChangeFiles`). Of a name the model keeps its stem and its
ending: none, `.service`, `.socket`, which `ensureServiceSuffix` and systemd take
as it is, or a dot without a unit type.

### Executor

`Execute` with what `cmd.Run` does for it: start, kill at the end of the context,
wait for the child, copy its output, wait for the end of the pipes, and the
verdict. The processes are external and may do anything: write, start another
process that inherits the pipes, exit with any code, or never. `os/exec` returns
the context's error when its kill was sent to a child that had exited with 0 and
was not yet waited for (`interrupted`); such a call is no success, which is why
`VerdictMatchesExit` speaks of children waited for in time. In the same way a
child that fails by itself is reported as timed out when the deadline passes
while its output is still being read; no document says otherwise.

### MC and proof modules

`MCDispatcher`, `MCPublisher`, `MCServices`, `MCAgent` and `MCStartup` give the
constants their values; `DiskStats` and `Executor` have numbers only and are
checked directly. `DispatcherProofs`, `PublisherProofs`, `DiskStatsProofs`,
`ServicesProofs`, `ExecutorProofs`, `AgentProofs` and `StartupProofs` extend the
seven.

**How the modules fit together.** `Dispatcher` contains what the other components
look like to a command: a service action or an execution is one call that waits
and returns an outcome. That a waiting call returns, which
`AllAnswered` assumes, is what `ReturnsWithItsJob`, `EndsUnlessHeld` and
`SetIntervalReturns` examine; the outcomes it may return are those of `Services`
(`err`) and `Executor` (`Verdict`). `Agent` in turn contains what `Dispatcher`
looks like from outside, and puts the end of the process, the connection and the
platform around it. That it is the same handler is checked and proved: the steps
of `CommandHandler` are what `Dispatcher` does (`ImplementsHandler`), and they are
those that `Delivery`, and with it `Agent`, is made of (`ImplementsDelivery`). `Startup` is the way from `Agent`'s phase `down` to `connected` in
detail. `Agent` assumes nothing of the work of a command but says in
`EventuallyAnswered` that the handler must come free again and again.

## 3. Runs

| run | bounds | result |
|---|---|---|
| `dispatcher` | 15 messages (every operation class, every spelling of params, every way to be turned away), 3 deliveries, pending list of 2 | the safety properties, `AllAnswered`, `ImplementsService` and `ImplementsHandler` hold, 280 000 states |
| `publisher` | requests of 3, 5, 9 and 17 s where a Duration has 6 bits: 9 s turns negative, 17 s small; 3 calls | `NewestWins`, `TickersNeverPanic`, `BlockedForGood`, `UpdateIsApplied`, `LoopsRunUntilCancelled`, `ImplementsRegister` hold, 34 000 states |
| `publisher_blocked` | as above | violated (section 5) |
| `diskstats` | 3 calls by two callers, clock and counter up to 2 | `BaselinesChain`, `ExactWithoutOverlap` hold |
| `diskstats_rates` | as above | violated (section 5) |
| `services` | one unit, static or not, a call of each kind and of each way to be refused; 2 calls, 2 jobs of others | `JobReported`, `NoLostWakeup`, `EnabledAsAsked`, `ReturnsWithItsJob` hold, 650 000 states |
| `services_lost` | one call, one job of others | violated (section 5) |
| `executor` | 3 calls, 2 pieces of output each | `NothingLeftBehind`, `VerdictMatchesExit`, `EndsUnlessHeld` hold, 62 000 states |
| `executor_held` | one call | violated (section 5) |
| `agent` | 2 commands, one restarting the machine; pending list of 1, 2 faults, up to 6 copies, a connection that may be given up | `NothingRunsTwice`, `AnswersAreTrue`, `EveryRepeatHasAFault`, `EventuallyAnswered`, `ShutdownEnds`, `ImplementsDelivery` hold, 385 000 states |
| `agent_drain` | one command, one fault | violated (section 5) |
| `startup` | 4 settings (defaults, an empty list, a list from the environment with an unknown name and `exec`, an unreadable file), 5 drives (both files, naming different machines; without key; without id; broken; JSON only), 4 changes | `IdentityOfOneDrive`, `EventuallyRuns` hold, 64 000 states |

Beside these runs, some sentences of the comments and documents are stated as
properties and have a configuration each, for whoever wants to see how the code
contradicts them. TLC finds each violated within a second or two; section 5 says how.

| configuration | of module | property |
|---|---|---|
| `MCDispatcherRejected.cfg` | `MCDispatcher` | `UnsupportedIsRejected` |
| `MCDispatcherCompleted.cfg` | `MCDispatcher` | `CompletedMeansSuccess` |
| `MCServicesUnlimited.cfg` | `MCServices` | `ReturnsWhileConnected` |
| `MCServicesStatic.cfg` | `MCServices` | `EnableEnables` |
| `MCStartupKey.cfg` | `MCStartup` | `KeyFallsBack` |
| `MCStartupPrecedence.cfg` | `MCStartup` | `YamlTakesPrecedence` |
| `MCStartupAnnounced.cfg` | `MCStartup` | `OnlyAllowedAnnounced` |

A run checks its safety properties under the same fair specification as its
liveness properties; fairness adds no states and removes none.

**Mutants.** Before some definitions stands a variant marked "Mutant": the same
step with a plausible mistake (a reset or a check left out, two steps swapped).
`mutants` in `PROJECT.json` names, for every property that holds, a mutant with
which it is violated.

**Why the bounds are enough.** The handler keeps no state between commands, so
what two commands can do to each other shows with two, and a third makes the
pending list overflow and lets an answered command be followed by a waiting and
a queued one. One slot in the channel means that three calls cover every
relation between the value in the slot, the one being replaced and the newest. A job of a call can be replaced by another's job and that one
by the call's next, or stand beside it, with two calls and two other jobs; jobs
of different units do not meet, so one unit is enough. Calls of `Execute` follow
each other, so two show what one leaves to the next, and two pieces of output
let one be copied and one still be in the pipe. For the disk, an underflow needs two overlapping calls and a
baseline; three calls give the baseline of either kind. For `Agent`, two faults
let a retry overtake its own result and the process be lost after it; a pending
list of one overflows with two commands; the bound on copies is never reached
(with 7 the number of states is the same). For `Startup`, four changes let a
drive be exchanged between the two attempts to read it, the process be stopped
and the settings be edited.

**Fairness.** `Dispatcher`: the handler goroutine runs and the operations it
waits for return (weak fairness of `Handler`); the operations that can wait for
ever are exactly what `SetIntervalReturns`, `ReturnsAfterItsJob`,
`ReturnsWhileConnected` and `EndsAfterDeadline` look at. `Services`: the handler
runs, which includes that a request is answered, and signals are delivered;
nothing is assumed of the connection, of others' jobs or of the end of any job: a
job that waits for another one, or starts a oneshot service, has no time limit by
default. `Executor`: goroutines
run and time passes (`Expire`); nothing is expected of a process, which may run,
write or hold the pipes for ever. `Kill` and `Reap` have a fairness of their own
because they do not wait for the goroutines that copy. `Publisher`: goroutines run (weak fairness of the
caller and the sends), tickers fire, and `select` chooses among ready cases at
random, so a case that is ready again and again is taken (strong fairness of
`TakeTick`, `TakeInterval`, `Quit`). Nothing is assumed of how many calls are
made or when the agent is stopped. `Agent`: the platform keeps retrying (the
comment at `client.go:30` counts on it), the handler's own steps and main go on,
systemd restarts the process (`Restart=always`), a connection comes back unless
it is given up, and a machine that was told to restart does so; nothing is
assumed of the work of a command, and a process that is deaf for good is
excluded by the property, not by fairness. `Startup`: run goes on and systemd
restarts it; nothing is assumed of edits, drives, stops or of the platform's
asking.

**Deadlock** is not checked: deliveries, calls, faults and changes are bounded,
so every behaviour comes to an end; that something required remains undone is what the
liveness properties say.

## 4. Proofs

All theorems hold for every value of the constants under the named assumptions
(`MessagesAssumption`, `BoundsAssumption`, `RequestsAssumption`,
`DurationAssumption`, `ConfiguredAssumption`, `WidthAssumption`,
`UnitsAssumption`, `CallsAssumption`, `CommandsAssumption`,
`SettingsAssumption`, `DrivesAssumption`), which TLC evaluates in the runs.

* **Dispatcher.** `Typed` adds to `TypeOK` that a busy handler has a command;
  without it the type of an effect, which names the current command, is not
  inductive. `OneAnswerPerCommand` is inductive on top of it. `CurrentInv` says
  what each program counter knows of the command (permitted while it runs or
  waits; updating only for `system.update`; a result that is rejected exactly
  when the gate does not let the command through) and carries `GateHolds`;
  `GateRejects` carries that to the answers, and `RejectedForCause` follows from
  the two. `Implementation` shows with the same invariant that every action
  is a `Take`, `Work` or `Answer` of `CommandService` or leaves its variables
  alone. `WorkInv` follows the effects of the command at hand from program
  counter to program counter; with it `NothingLeftRunning` and `EffectsInOrder`
  are inductive, and `ResultFits` and `AnswersFit`, which say of the result in
  the handler's hand and of those published what `StatusMatchesEffects` says of
  all, carry it across later commands. `HandlerImplemented` needs one fact more, that
  a result which leaves `Dispatch` before `run` is a rejection: only that is a copy
  turned down. `RefusedMeans` reduces the three tests of the code, over every
  spelling of params, to what the properties state.
* **Publisher.** `NewestWins` is inductive as it stands. `IntervalsInv` adds to
  `TickersNeverPanic` that periods are never negative and that the interval of a
  call in progress is clamped; `ClampedDuration` shows that the clamp after the
  conversion makes any overflow harmless. `HandOverInv` says that one
  call at most is under way and that the slot stays empty once that call has drained
  it; with it and `NewestWins` every statement is a step of `IntervalRegister` or
  changes nothing of it (`RegisterImplemented`), and a call that waits in the drain
  waits for good, because the only one that could send is the call itself
  (`BlockedStaysBlocked`).
* **DiskStats.** `BaselinesChain` needs only the initial baseline.
  `ExactWithoutOverlap` needs `SampledInOrder`: a call that no swap has
  overtaken since it took its time has read at least what its baseline read.

* **Services.** `JobReported` and `NoLostWakeup` follow from one invariant,
  `IInv`: an installed job has not ended (`InstalledInv`), a signal tells its
  job's result (`SignalsInv`), the call's job is the one it asked for
  (`CallInv`), and from the moment the job is queued, before the call waits, its
  result is there, on its way or to come (`WakeupInv`). What systemd does to its
  jobs enters through two facts only: jobs keep their unit, target and result
  (`Kept`), and every end is signalled (`Announced`); `EndKeeps` shows both for
  the end of any installed job, and `InstallKeeps` for a replacement. A second
  invariant, `FileInv`, carries `EnabledAsAsked`: jobs leave the unit files alone
  (`FilesKept`), and from the reply of an enable or disable to its return the file
  is as that call asked, or static.
* **Executor.** `Quiet` follows the pipes from the wait to the end of the call
  and gives `NothingLeftBehind`; `InTimeInv` says that a child waited for in time
  was never killed, which carries `VerdictMatchesExit` to the history.
* **Agent.** `Ordered` gives `NothingRunsTwice`: the copies of a command stand in
  the pending list in the order of their numbers, all above the last one begun
  and the one in hand, and none above the number that has arrived. `Truthful`
  gives `AnswersAreTrue`: a status in the handler's hand, in the buffer or at the
  platform was returned by `Dispatch` for that command, and no command was
  completed that was not begun. With both, every step is one of `Delivery` or a
  stutter (`DeliveryImplemented`). `EveryRepeatHasAFault` is proved with an account,
  `Charged`: the arrivals of a command, one more if the next arrival is due or the
  connection is lost, and one more if main has been cancelled, are never more than
  the faults and one. A fault thus pays in advance for what it may still lose: a
  lost connection for the results that nats.go discards when it gives up, a signal
  for what the exit throws away. No step but a fault adds to the account
  (`Free`, `PaidByFault`). Once a command has restarted the machine, the stop is
  nobody's fault and the statement says no more.
* **Startup.** `ReadInv` says that what was read is in one file of a drive seen
  since the start (`Found`), and that a process which found no `metadata.yaml`
  either still looks at a drive without one or has seen no drive at all; so
  nothing to read in the second attempt means that some drive had nothing to
  say. `OverrideAllowed` compares `run`'s choice with what the file allows.

Only model-checked: the liveness properties (`AllAnswered`, `UpdateIsApplied`,
`LoopsRunUntilCancelled`, `ReturnsWithItsJob`, `EndsUnlessHeld`,
`EventuallyAnswered`, `ShutdownEnds`, `EventuallyRuns`), which are out of the
prover's reach. The safety that some of them rest on is proved: `NoLostWakeup` for
`ReturnsWithItsJob`, `NewestWins` for `UpdateIsApplied`. The refinements are of
the abstract modules' safety; those have no fairness.

## 5. What the runs found

* `SetTelemetryInterval` can block for ever (`publisher.go:66`): it finds the
  channel full, the telemetry loop takes the value, and the drain waits for a
  value that nobody sends. Its caller is the only goroutine that handles
  commands.
* A service action can wait for ever (`linux.go:78`): when the D-Bus connection is
  lost after its job was queued, even though the job ends (`services_lost`), and
  when its job never ends (`ReturnsWhileConnected`). The receive looks at neither the
  context nor the connection, and nothing reads the `timeout_s` after which
  `docs/protocol.md:212` has the agent abandon an operation.
* `Enable` reports success for a unit without an [Install] section, which it has
  not enabled (`linux.go:125`, `EnableEnables`).
* A failed service action is answered `completed` (`linux.go:79`,
  `CompletedMeansSuccess`), which `docs/protocol.md:182` says means success.
* An operation that is listed and that `run` does not know, and a binary outside
  `allowed_commands`, are answered `failed` (`dispatcher.go:263`,
  `UnsupportedIsRejected`), where `README.md:295` and `configs/agent.yaml:63` say
  `rejected`. `RejectedForCause` says what the code does and both agree on.
* A command can outlast its deadline (`executor.go:59`): the deadline kills the
  child only, and `cmd.Run` waits for whoever else has the pipes.
* Disk rates can wrap around (`system.go:213`): time and counters are read
  before the mutex, so overlapping calls can swap in the other order.
* Nothing is drained before the exit (`main.go:194`): `Drain` only starts the
  draining, and main returns at once. What is lost is retried by the platform,
  as `EventuallyAnswered` shows, but a command that was done already is then
  done again.
* A drive with an id and without a key replaces the configured key by an empty
  one (`main.go:89`, `KeyFallsBack`), where `config.go:48` calls the configured key
  the fallback for that very case.
* A drive with both files that is mounted between the two attempts is read by its
  `metadata.json` (`reader.go:248`, `YamlTakesPrecedence`), where
  `reader_test.go:167` has the YAML win.
* An empty `allowed_operations` is announced as the whole catalog, `exec` with
  its binaries included, while the gate refuses everything (`publisher.go:272`,
  `OnlyAllowedAnnounced`); `publisher.go:141` says that only allowed operations are
  published.

Read in the code while modelling, and left without a run because a single look
shows them:

* `unitToServiceInfo` (`linux.go:168`) sets neither `Enabled` nor `PID`, so no unit
  is ever reported as enabled;
* a name with a dot anywhere gets no suffix (`linux.go:28`), so an installed
  service with a dot in its name is found only under its full name, although
  `publisher.go:155` offers both;
* a missing D-Bus is logged and not fatal (`platform_linux.go:18`), although
  `docs/integration.md:362` says so;
* the minimum interval is 1 s (`publisher.go:17`), documented as 5 s
  (`publisher.go:56`, `:230`);
* the first telemetry may carry disk rates when a command asked for the disk
  before it (`system.go:169`, `README.md:92`);
* a drive mounted after it was looked for does not take precedence, whatever
  `config.go:45` says, until the process is started again;
* an envelope of an unknown version is dropped with a warning and no answer
  (`client.go:114`), where `docs/protocol.md:218` says that agents should reject it;
* a missing file that was named with `--config`, as the systemd unit does, ends
  the start (`config.go:130`), where `docs/integration.md:363` promises defaults;
* with a finite `max_reconnects` the process lives on after nats.go has closed
  the connection, and hears nothing any more (`client.go:48`);
* `docs/overview.md:77` has agents create durable consumers; the agent makes a
  plain subscription (`client.go:98`) and misses what is sent while it is away.

## 6. Plan

1. Done: the command path with its abstract promise and their proofs, the
   publisher, the disk baseline, services, the executor, the agent among its
   surroundings, the start.
2. Done: the interval as an abstract register, the handler as `Agent` sees it, and
   what the platform can count on, with the proofs that the detailed modules
   implement them; the account of repeated commands.
3. Proofs: that `Startup` and `Agent` agree on the way to the connection.

## 7. Not modelled

* `cmd/ctl` and `pkg/cmdutil`: they fetch from an HTTP interface that the agent
  does not serve any more, and print; no state, nothing concurrent.
* The Windows service manager: every operation returns an error.
* The contents of system information and metrics (`GetInfo`, `GetCPU`,
  `GetMemory`, `GetNetwork`): read from the kernel by gopsutil and passed on.
  That collecting them may fail is in `Publisher` and `Dispatcher`.
* The fields of the config drive other than id and key, and their accessors: the
  agent does not use them. `fallback_env` and `autoheal` are configured and read
  by nothing.
* The closing of the D-Bus connection (`svcCleanup`) and `logger.Sync`, which main
  defers: `ShutdownEnds` takes both to return.
* viper, zap, nats.go, go-systemd and the platform, except for what the code
  relies on; JSON beyond what decodes; the generation of ids.
