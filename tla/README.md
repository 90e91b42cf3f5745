# A TLA+ model of the process scheduler simulator

This directory models the simulator and the server around it: the discrete-tick
engine with its ten scheduling algorithms, the lifecycle of a simulation (the
commands of concurrent clients against the run goroutine), the WebSocket hub with
its broadcast queue and its shutdown, and the REST interface with its history.
TLC checks all of them on small instances; TLAPS proves safety properties of all
four, and that the engine implements a work-conserving CPU, for every size.

## The system

| Part | State | Operations | Interacts with |
|---|---|---|---|
| `internal/process` | the fields of one process | `NewProcess`, `Clone`, `Execute`, `IsComplete` | mutated by the engine only |
| `internal/scheduler` | nothing, except the level map of MLFQ and MLQ and the lottery's generator | `Schedule`, `Preempt`, `QuantumFor`, `AddProcess`, `RemoveProcess`, `OnQuantumExpired`, `Reset` | called by the engine with `mu` held |
| `internal/simulator`, engine | process list, ready and I/O queues, current process, clock, quantum used, Gantt chart, event log, counters | `AddProcess`, `executeTimeUnit`, `Reset` | calls the scheduler; all under `mu` |
| `internal/simulator`, lifecycle | `state`, `pauseChan`, `stopChan`, `wg`, `stepMu`, the run goroutines | `Start`, `Pause`, `Resume`, `Step`, `Stop`, `Reset`, `run` | called by the hub and by REST, calls back with updates |
| `web` (hub) | connected clients, the current simulator, the broadcast queue, `closed` | `HandleWebSocket`, `handleInit` and the other message handlers, `handleBroadcasts`, `Shutdown` | one goroutine per connection, all sharing one simulator |
| `internal/api` | the semaphore | `handleSimulate`, `handleList`, `handleGet` | a simulator per request; saves to the store |
| `internal/store` | the last `capacity` records | `Save`, `Get`, `List`, `Clear` | used by REST |
| `web/static/app.js` | socket, reconnect timer, the last update | reconnect, render | messages to and from the hub |
| `cmd/server`, `config`, `middleware`, `metrics`, `logging`, `version` | configuration and counters | wiring, pure functions, output | |

What is hard here:

* *Concurrency.* Every WebSocket connection has its own goroutine and all of
  them call the same simulator. A command is several critical sections with
  channel operations between them, and the run goroutine is a `select` over two
  one-place channels and a ticker. `pauseChan` means "pause" in one place of the
  loop and "resume" in another.
* *Order inside a tick.* Arrival, I/O completion, preemption, execution, I/O
  start and quantum expiry all move processes between the queues, and each
  algorithm supplies comparisons with its own tie-breaks.
* *Failure and the end.* Connections fail in the middle of a broadcast, a queue of
  bounded length drops what does not fit, a timeout and a departing client race
  the result, and Shutdown takes all of it apart while it is running.
* *Identity.* Nothing makes PIDs unique. Queues compare pointers; some
  schedulers, the chart and the log compare PIDs.

What makes the parts correct is listed with the runs below; the hazards the
properties are aimed at are in `PROJECT.json`, each at its line.

## Modules

| Module | Models |
|---|---|
| `Scheduler` | the ten algorithms of `scheduler.go` as operators on the simulator struct |
| `Engine` | `executeTimeUnit` and everything it calls, `AddProcess`, the state part of `Reset` |
| `Updates` | `snapshotState` and `calculateMetrics`: what an update shows of the engine |
| `EngineProperties` | what must be true of the engine, and the refinement mapping |
| `WorkConservingCPU` | the abstract specification of the engine |
| `MCEngine` | the workloads TLC uses |
| `RunLoop` | the commands and the run goroutine, with their properties |
| `Hub` | `web/server.go`: connections, `init`, the broadcast queue, `Shutdown` |
| `RestAPI` | `POST /api/simulate`: semaphore, run goroutine, timeout, cancellation, save |
| `Store` | the bounded history, which `RestAPI` extends |
| `RunLoopProofs` | the theorems about `RunLoop` |
| `RestAPIProofs`, `HubProofs` | the theorems about `RestAPI` with `Store`, and about `Hub` |
| `QueueLemmas` | what appending, removing, filtering and joining do to the set a queue holds; `Schedule` returns a process of the ready queue, the one a single pass finds |
| `EngineProofs` | types, places and I/O bursts of `Engine`, and its `Schedule` |
| `EngineMethods` | what each method that a tick calls does, field by field |
| `TickProofs` | the theorems about whole ticks: log, levels, quanta, switches, updates, preemption, the refinement |
| `TimeProofs` | sums over finite sets, and the theorems about where the time goes |

### Scheduler and Engine

`sim` is the `Simulator` struct as a record with the field names of the source;
`task` holds the fields a client submits (`parseProcess` and `validateProcess`
define what is let through), `sim.pcb` the fields of each process that change.
A tick holds `mu` from beginning to end, so it is one step: the methods are
operators from struct to struct and `executeTimeUnit` composes them in the order
of the code. `AddProcess` may put processes with equal arrival times in any
order, because `sort.Slice` is not stable.

`Schedule` is defined by what the scans of the source find (the first process of
the queue among those with the least keys), and `Scan` is the scan itself with
its strict comparisons, an operator for each `Schedule` method (`EarlierArrival`,
`ShorterJob` and so on; MLFQ and MLQ share one, with different levels);
`ScheduleIsTheScan` compares the two in every reachable state. The `Preempt` methods
are operators of their own as well (`ShorterWaits`, `HigherPriorityWaits`,
`LaggardWaits`, `HigherLevelWaits`). The lottery's winning ticket is any position of the queue: every process
holds at least one ticket.

`Updates` keeps the averages of `calculateMetrics` as fractions, with the guards
against division by zero; rounding is left out.

Abstracted: names, colours, the wording of events and the copy of the state in
them; weights are 1024, since `SetNice` is called by tests only. `Clone` in
`AddProcess` is why processes of different simulations never share a struct.

### RunLoop

A step is one critical section of `mu`, one channel operation or one `Wait`.
`rpc[g]` is the place of run goroutine `g` in `run`, `cpc[c]` the place of client
`c` in its command. The engine is reduced to the number of ticks still needed.
A command that finds nothing to do (for instance `Pause` when not running)
changes nothing and is not an action. `SetSpeed` only changes how long a tick
lasts. `ticker` is false after `ticker.Stop()`: under the Go version of `go.mod`
no stale tick is delivered afterwards.

`StuckOnlyWithoutSignal` is about a single client that uses every command. That is
where the code can get stuck, so the property names the two ways and says that there
is no third: `StopMissed` (Stop waits for a goroutine that has no stop token to take)
and `Undriven` (the state is running, no command is under way, and whatever goroutine
is left has its ticker off and no token to take). Both last until the client acts.
TLC reaches them along the traces of `resume_lost` and `stop_hangs`, and along these,
which no other run has:

* Stop while the last tick is executed: run completes without taking the token. The
  goroutine of the next Start takes it and exits, and the state stays running. Reset
  would have drained the token, Start does not.
* Start, Pause, Start, Stop: two goroutines and one token. Stop never returns.
* Start, Pause, a tick that sees the pause, Start: the new goroutine takes the token
  the old one sent to itself, and both stand still while the state is running.
* Step from idle, then Resume: running without a goroutine. The comment at
  `simulator.go:163` says that Step leaves paused "so the UI reflects an in-progress
  simulation and Resume/Start can pick it up"; Start can, Resume cannot.

`Start` needs a free element of `Runs`: that set bounds the number of goroutines
alive at once.

### Hub

`hpc[c]` is the place of the goroutine of connection `c` in `HandleWebSocket` and
in the handler of its message; `ref[c]` is the pointer `getSimulator` gave it,
which another connection's `init` may make stale. `update` and `writing` are the
local variables of `handleBroadcasts`, `spc` and `sref` those of `Shutdown`.
`clientWg`, `clients`, `broadcast` and `simulator` are the fields of `Server`.
`owed` is a history variable: who was in the map when a completion was queued.

`Hub` composes the server with simulators reduced to what `RunLoop` shows of them:
the state, the stop token, the run goroutines and the ticks still needed. The
pause token is left out, because nothing in the hub depends on it. `Send` is the
three-way `select` all updates go through: a closed queue is always "ready", so
the send may be chosen and panics (`RunPanics` ends the program, `HandlerPanics`
is caught by the middleware), or the case of `closed` is.

Left out: messages that change nothing (`getState`, `speed`, anything invalid, any
command before the first `init`); what clients sent before the server closed their
connection, which gorilla may still deliver from its buffer; the mutex around the
writes to one connection, which delays a writer by at most the write deadline; the
state written to a new client, which goes to this client only. Taking a connection
out of the map and closing it is one step: between the two `handleBroadcasts` and
the cleanup do nothing else. So are the update after a tick and the `isComplete` that
follows it. Everything else is a step of its own: the state read by a tick or a Step and
its execution, the three parts of `Stop` (state, token, wait), the drain and the locked
part of `Reset`, and each statement of `Shutdown`.

### RestAPI and Store

`hpc[r]` is the place of request `r` in `handleSimulate`, `run[r]` that of its own
run goroutine. The handler is the sole client of its simulator, so `RunLoop` is
reduced to the last tick, completion, the delivery of the update to `done` and the
stop token; giving up is `Stop` in its three parts (`Abandon`, `StopSend`, `StopWait`).
`left[r]` is the cancelled context: the client leaves, or `Shutdown`
closes the HTTP server. `Store` is a sequence of IDs; its methods hold one mutex
and are operators; `Page` is the part of it `handleList` returns. `saved` is a history variable, of which the store must be the
end (`HistoryWindow`): the abstract specification of the store.

## Runs

| Run | Shows |
|---|---|
| `engine` | the properties below, for ten algorithms and eighteen workloads |
| `waiting_time` | *violated*: `WaitingTime` is not the time spent waiting when there is a quantum |
| `runloop` | two clients, every command: types, the WaitGroup, exclusive Steps |
| `sole_client` | one client, every command: Stop and Reset leave nothing behind, Complete means complete, and there are two ways to get stuck |
| `runloop_live` | one client that starts, resets and adds: commands return, running ends |
| `resume_lost` | *violated*: Pause and Resume between two ticks freeze a running simulation |
| `stop_hangs` | *violated*: Stop hangs when Step completed a paused simulation |
| `reset_race` | *violated*: a concurrent Reset steals the stop token of a Stop |
| `late_add` | *violated*: a process added while completion is being recorded is never run |
| `hub` | two connections, a Shutdown at any time: the properties below |
| `send_after_close` | *violated*: a goroutine sends on the queue Shutdown has closed |
| `rest_api` | three requests that complete, time out, leave or are cut off in every order |

The six violations are behaviours of the code that its comments, tests or docs
rule out; `findings` in `PROJECT.json` quotes the lines.

Properties of the hub:

* `HandlersCounted`, `ClientsAreServed`: the WaitGroup,
  the map of clients and the connections agree although the handler,
  `handleBroadcasts` and `Shutdown` all take clients out; nobody is leaked or stays
  connected without being served.
* `ReplacedMeansStopped`: with a single connection, `init` leaves no running
  simulator behind. With two connections it does: two `init` at once stop the same
  old simulator, and the one assigned first may be started through `ref` and is then
  out of reach; a `start` that read the pointer before the `init` revives the old one.
* `CompletionReachesClients`: a completion that found room in the queue reaches every
  client that stays, whatever happens to the others. That it finds room is not
  promised: the code drops it when the queue is full.
* `ShutdownGetsOn`: until Shutdown returns some goroutine can move, with two named
  exceptions. `LateClient`: a connection registered after Shutdown has emptied the map
  is closed by nobody, and `clientWg.Wait` waits for it. `StuckStop`: a Reset took the
  token of the Stop that Shutdown or a handler waits in (`reset_race`). TLC reaches
  both.
* `NoSendAfterClose` fails (`send_after_close`): the queue is closed before the
  listener is, so the WaitGroup can be zero and rise again.

Properties of the REST interface:

* `SlotsAreHeld`, `SimulationsHoldSlots`: the semaphore bounds the handlers, and
  through `Stop` the simulations too; a timeout leaves no simulation behind.
* `SavedOnceIffOK`, `HistoryWindow`: a request is saved once if and only if it is
  answered 200, under its own ID, and the history is the newest `Capacity` of them.
* `EveryRequestEnds`: every request is answered and its goroutine exits.

Properties of the engine:

* `Placement`: every process is in exactly the one place its state names.
* `ChartAccountsForTime`, `EventsAccountForStates`: the Gantt chart covers the
  time exactly and agrees with the CPU time used, and the log with what happened and
  with the number of context switches.
* `UpdateShowsEveryProcess`, `MetricsConsistent`: an update shows each arrived process
  once, and its metrics agree with each other.
* `CompletionTimesConsistent`, `IOBurstsInOrder`, `WaitingTimeExactWithoutQuantum`:
  the recorded times and I/O bursts are those of the execution.
* `QuantumRespected`, `RoundRobinResponse`, `NonPreemptiveRunsOn`,
  `NoVainPreemption`, `NeverOutranked`: what the algorithms promise.
* `LevelsTrackLiveProcesses`, `ResetStartsOver`: no state of an earlier life.
* `FinishesInTime`: a bound on the makespan. It stands in for the liveness "every
  process finishes", and is stronger: it says by when.
* `IsWorkConserving`: the engine implements `WorkConservingCPU`. A tick serves one
  runnable process or idles because none is runnable; a process that starts I/O
  of duration D cannot run again for D-1 ticks.

### Bounds

Three processes are the smallest number for which a queue has an order while a
third process runs, so that preemption, expiry and I/O completion compete for
one queue. The workloads mix bursts of 1 to 4, equal and different arrivals, one
and two I/O bursts (durations 1, 2 and 3, thresholds that coincide with a quantum
or with each other), and in a third of them two processes share a PID. `Quantum`
is 2, `FeedbackQuanta` <<1, 2>> and `AgingInterval` 2, instead of 4, <<2, 4, 8>>
and 10, so that expiry, demotion, the bottom level and aging happen within a few
ticks. `MaxTime` is 15, past the end of every workload; processes may be added
until time `LastAdd` = 2, before and after their arrival time. `Reset` may happen
at any time. In `RunLoop` two goroutines allow the one overlap `Start` permits,
and a load of two ticks allows a Step, a tick of the loop and both completions.

In `Hub` two connections are enough for two handlers with different pointers, one
client whose write fails while the other stays, and one that is rejected at a limit
of one (the limits are 0 and 1). `MaxMessages` = 3 messages in all allow `init` and
`start` by one connection and any third message by either, `MaxSims` = 2 one
replacement; a queue of one place is full after one update, and one tick per `init`
makes a run send twice. In `RestAPI` three requests with one or two slots, and a
store of two records, are the smallest numbers with a rejection next to two
concurrent requests and an eviction; without a limit (0) requests do not interact
before they save, and no run covers it.

### Fairness

`FairSpec` assumes weak fairness of every goroutine once it has something to do
(Go's scheduler runs runnable goroutines, the ticker fires again and again), and
strong fairness of the stop and pause cases of `select`: Go picks among the ready
cases at random, so a case that is ready again and again is taken. Nothing is
assumed of clients: nobody has to issue another command. `runloop_live`,
`sole_client` and the violations of liveness use it. `CHECK_DEADLOCK FALSE` appears where a client may wait in `Stop` for ever, which is what `stop_hangs` is
about, and in `Hub` and `RestAPI`, which come to an end.

`RestAPI` assumes weak fairness of each handler, which includes that its timer fires,
and of what a run goroutine does once it has ticked for the last time or has been told
to stop. That a simulation ever comes to its last tick is not assumed, nor that the
client waits.

## Proofs

`RunLoopProofs` assumes `RunLoopAssumption` (finitely many goroutines alive at
once, `NoClient` is not a client) and nothing else about the constants.

* `LifecycleTypes`, `WaitGroupCounts`. The inductive invariant is `Counted`, the
  conjunction of the two: the counter stays a natural number only because it
  counts live goroutines, and `Exit` takes one off a set that holds the one that
  exits.
* `StepsSerialized`, from type correctness.
* `StopWaitsForTheRun`, `ResetIsClean`, for a sole client. `StoppedMeansExited` is
  not inductive: the invariant `Quiet` adds that an idle state with a live
  goroutine is one whose Stop has not returned, and that while Reset drains the
  channels nothing is alive that could send. `Wait` contributes "counter zero
  implies no live goroutine" through `Counted`.
* `CompletionIsReal`, for a sole client that adds no process. `TestStillHolds`
  carries the result of `isComplete` to the assignment in the next critical
  section; `Quiet` excludes a Reset in between. Without either hypothesis the
  property fails (`late_add`).

The hypotheses "sole client" and "no `AddProcess`" are in the theorems because the
code does not hold the property without them.

`EngineProofs` assumes `ProcsAssumption`, `QuantumAssumption` and
`EngineAssumption`: finitely many processes, positive quanta, and the fields that
`validateProcess` lets through. The bounds `MaxTime` and `LastAdd` appear in guards
only, so the theorems hold for every value of them.

* `EngineTypes`, `EveryProcessInItsPlace`, `BurstsInOrder`. The inductive invariant
  is `EngineInv`. Its part `Sound` says of the struct, with queues as sets, what
  `TypeOK`, `Placement` and `IOBurstsInOrder` say; none of the three is inductive
  alone. That `Execute` leaves no negative `RemainingTime` needs the current process
  to be unfinished, which is `Placement`; that `tickIOQueue` leaves no negative
  `IORemaining` needs the I/O queue to hold only processes with I/O left; and that
  `checkIOBurst` finds its burst needs the completed bursts to be a prefix. `Sound`
  is preserved by every method a tick calls, so there is one lemma per method, and
  the tick is their composition.
* `MoveSound` is the step most methods are: one process changes its State and moves
  to the queue the new State names.
* `QueueLemmas` says how the set a queue holds, and that it holds no process twice,
  follow the operations on queues of any length. Induction on the length is replaced
  by the least counterexample (`LeastNat`, from well-foundedness of `<`), which is why
  `Kept` is a recursive function.
* `AddSound`: the order sort.Slice leaves is an injection of 1..n into n processes,
  hence a permutation; no process is dropped.
* `ScheduleMakesOnePass`. Every comparison of the source is lexicographic in at most
  three keys (`BestIsLex`), so "better" is a strict weak order, and `Best` is the set of
  those nobody is better than. `Wins` says which position of the queue the pass holds
  after some of the positions; `WinnerNext` is one round of the loop. The fold is a
  recursive function on sets of positions: the winners are shown to solve its equation,
  then to be its only solution.

`EngineMethods`, `TickProofs` and `TimeProofs` have the same assumptions.
`EngineMethods` describes each method by the fields it changes. A proof about a tick
then composes these descriptions in the order of `executeTimeUnit` (arrivals, I/O,
dispatch, execution, I/O start or expiry, the clock) and does not open a method again.

* `ExpiryIsNoticed`, `LevelsOfTheLive`, `LogAccountsForStates`,
  `UpdatesShowEveryProcess`. The inductive invariant is `TickInv`: `EngineInv`,
  `QuantumLeft` and `Tracked`. `Tracked` holds after every method and not only between
  ticks. Its part `Ledger` is the reason the log can be trusted: for every PID the
  number of log entries of each kind is the number of processes whose State says that
  it happened, counted as sets because PIDs are shared. `Fresh` (a process that has not
  arrived is as `NewProcess` made it) is what makes `AddProcess`, which clones the
  submitted process, change nothing that was recorded. `Dated` gives the order of the
  log, and `LevelsRight` what `QuantumLeft` needs, since the quantum of MLFQ depends on
  the level.
* `ResetIsComplete`, `NonPreemptiveKeepsTheCPU`: action properties, from the same
  invariant and the frames of the methods.
* `EngineIsWorkConserving`: the refinement. Initial states map to initial states;
  `AddProcess`, a tick and `Reset` map to a step of `WorkConservingCPU` or a stutter.
  `CanRun` is what the engine could give the CPU to in the tick, `Wanted` the abstract
  guard, and `RunnableIsCanRun` their equivalence; `WakeTime` turns a countdown into a
  date.
* `TheBestReadyProcessRuns`, `PreemptionChangesTheProcess`: every algorithm with a
  preemption rule has a rank; `Schedule` picks a process of least rank, `Preempt`
  compares the rank of the running process with it, and only the dispatch adds a
  preemption to the log. The argument is per algorithm, because MLQ and MLFQ read the
  level map where the others read the process.

`TimeProofs` begins with a theory of `MapThenSumSet`. The library defines it by a
recursive function on subsets, and the library's induction theorems cannot be
instantiated here. `SubsetInduction` takes their place: it speaks of a set of sets
instead of a predicate, and is itself proved by a set of least cardinality that is not a
member. That the function exists, that the order of summation does not matter, what
happens when one term changes, the sums of sums, of parts and of bounded terms follow
from it.

* `TheChartIsComplete`. The inductive invariant `Charted` says for every number, and
  not only for the PIDs in use, that its slices add up to the CPU time of its processes.
  The delicate step is `ChartGrows`: a tick either prolongs the last slice or appends
  one, and in both cases one PID is charged with one tick.
* `CompletionTimesAreReal`. What `Execute` records depends on the whole life of a
  process, so the invariant `Timed` speaks of unfinished ones: between its first tick
  and now lie the CPU time used and the I/O ticks (`Underway`). A process that starts
  I/O has accounted for ticks still to come; `Limit` adds what is left of the countdown,
  and without it the invariant is not inductive.
* `EveryProcessFinishes`. `Progress` of a process is its CPU time and the I/O ticks
  behind it; it never exceeds `Demand`. The invariant `InTime` says that since the last
  arrival the sum of all progress has grown by at least one in every tick, as long as
  somebody is unfinished. A busy tick is progress of the process served. An idle tick is
  progress too: nobody can run, so whoever is unfinished is asleep, and its countdown
  goes on. A process may run in the tick in which its countdown ends, which is why an I/O
  burst adds its duration less one.
* `MetricsAgree`. `Busy` says that the clock less the idle time is the sum of the CPU
  times used, `Patient` that no waiting time is negative before `Execute` replaces it by
  the final one; the rest is `Timed`, summed over the completed processes.
* `WaitingTimesAreExact`. With distinct PIDs `Ledger` leaves one arrival entry for each
  process, and `TickLogs` (a tick only appends, and dates what it appends with the time
  at its start) shows that it stays the same entry. `TickWaits` is the step: without a
  quantum the process served is not in the ready queue when `advanceClock` charges the
  waiting times. With a quantum it may have been put back by then and is charged
  for a tick in which it ran: the run `waiting_time`.
* `RoundRobinAnswersInTime`: the bound of docs/ALGORITHMS.md:105, n - 1 quanta, for any
  number of processes and every quantum, with I/O, late arrivals and processes added
  during the run. The bound says nothing of how far a process in the queue has come, so
  the invariant `InTurn` adds it: what a process has waited, the rest of the current
  quantum and a whole quantum for each process before it in the queue (`Turn`) stay within
  the bound together. A newcomer meets it because the ready queue and the CPU hold no
  more than the n processes added, itself among them (`QueueFits`), and joins at the end
  (`ReadyingExtends`), as does a process whose I/O or whose quantum ended. Each tick the
  wait grows by one and `Turn` shrinks by at least one: the quantum shrinks with the tick,
  and a dispatch takes the head (`RoundRobinTakesHead`), so that everyone moves up by
  one (`RemoveShifts`). `QuantumLeft` of `TickInv` is what keeps the current quantum from
  being used up unnoticed. `Prompt` ties the dates in `InTurn` to the arrivals in the
  log; distinct PIDs are needed for that alone.

`RestAPIProofs` assumes `RestAssumption` and `CapacityAssumption`: finitely many
requests, any limit on their number (0 is none), room for at least one record.

* `RestTypes`, `SlotsHeld`, from `Counted`: the semaphore's content stays a natural
  number only because it counts the handlers inside.
* `SimulationsAreBounded`, from `RunFollows`, which says where a handler can be while
  its run goroutine has still to deliver.
* `SavedOnce`, from `Numbered`: an ID is drawn once, is not in the history before the
  save and is in it afterwards; who does not answer 200 never draws one.
* `HistoryIsAWindow`, from `Window`, which states it by positions; eviction moves the
  window by one.

`HubProofs` assumes `HubAssumption`: finitely many connections and goroutines, a queue
with room for at least one update, any limit on clients, any bounds.

* `HubTypes`, `HandlersAreCounted`, from `HubInv`: types (in five parts) and `Counts`.
  `clientWg` stays a natural number because it counts the handlers inside; the number
  of simulators stays bounded because `init` counts those still on the way.
* `ClientsServed`, from `Served`: who is in the map has a handler in its loop or in its
  cleanup, and an open connection in its loop is in the map.
* `CompletionReaches`, from `Owed`, which adds that whoever is owed a final update is
  still in the map: that is the set `handleBroadcasts` writes to.
* `ReplacedStopped`, for a sole connection (`Alone`): at most the current simulator has
  live goroutines, every handler uses it, and while `init` or `Reset` assign nothing is
  alive.

Only model-checked:

* Liveness under fairness (`EveryRequestEnds`, `CommandsReturn`, `RunningEnds`,
  `StuckOnlyWithoutSignal`) and
  `ShutdownGetsOn`, which uses ENABLED: out of the prover's reach.

Every other invariant and action property of a passing run is stated by a theorem.

## Not modelled

* `config`: read once, before anything runs. What it lets through are the assumptions
  on the constants of `Hub` and `RestAPI`.
* `middleware`, except the recovery from panics, `metrics`, `logging` and
  `version`: nothing the program does depends on them.
  `RateLimiter` is not wired into the server. `Store.Clear` is called by tests only.
* The frontend. Its back-off is a function of one sequence of events (`onclose` sets
  `reconnectAttempts` to 0 and a failed attempt ends in `onclose`), without anything
  concurrent in it.
* Durations. Keepalive is the nondeterministic departure of a peer, a timeout may
  fire at any time.
* The order of updates. An update is a snapshot that is queued later, so the updates of
  a Step and of the run goroutine may overtake each other, and the state written
  directly to one client may overtake queued ones; nothing promises otherwise.

Noticed on the way, where docs and code differ without a run of their own:

* docs/ALGORITHMS.md:180 gives MLFQ the quanta 1, 2 and 4; the code
  (`scheduler.go:361`) uses 2, 4 and 8, which is what the parameter stands for. :191
  promises a priority boost every 100 ticks, and there is none: a level only goes down.
* docs/ALGORITHMS.md:156 lets CFS advance `VRuntime` by 1 / nReady a tick and :173 resets
  it after I/O; the code (`process.go:145`) adds `VRuntimeScale` / weight and never resets
  it within a run.
* `simulator_test.go:552` counts 8 ticks for two of CPU, three of I/O and three of CPU. The
  code takes 7, as the comment at :578-581 of the same test says and as
  docs/ARCHITECTURE.md:172 implies: a burst of duration D costs D-1 ticks, which
  `IsWorkConserving` states.
* `Shutdown` closes the HTTP server (`server.go:681`) before `main` asks it to drain
  (`main.go:147`), so REST requests in flight are cut off, not drained.
* The default `WriteTimeout` (`config.go:58`) ends before the 30 s after which
  `handleSimulate` answers 504.
