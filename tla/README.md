# A verification development for build-your-own-goroutine

The repository builds a goroutine runtime for Rust in stages: `green.rs` (N:1),
`multi.rs` (M:N), `spawn.rs` (a worker is added when a task blocks), `poll.rs`
(gopark, goready and a network poller), `timer.rs` (timers, wait groups) and
`channel.rs` (channels).  This directory holds TLA+ models of those stages, the
TLC configurations that check them on small instances, and proofs, checked by
TLAPS, of what holds for any number of tasks and threads.

Paths below are relative to `src/src/` unless they begin with `src/`.

## 1. The system

| Component | State | Operations | Talks to |
|---|---|---|---|
| N:1 runtime, `runtime/green.rs` | queue of tasks, current task | `go`, `gosched`, `task_finished`, `start_runtime` | context switch |
| M:N runtime, `runtime/multi.rs` | the queue behind a mutex, one current task per worker | the same, on several threads | context switch |
| with worker spawning, `runtime/spawn.rs` | the same | the same, `io::*` (`enter_blocking`) | the operating system's threads |
| Scheduler of `runtime/timer.rs` and `channel.rs` | `runnable`, `waiting`, pending wakes (`pre_ready`, `pending_ready`), `idle_workers`, `all_workers`, a condition variable, one current task per worker | `worker_loop`, `go`, `gosched`, `gopark`, `goready`, `enter_blocking`, `start_runtime` | poller, channels, wait groups |
| Timers and poller, `runtime/timer.rs`, `channel.rs` | `POLLING`, `TIMER_HEAP` | `sleep`, `net_poll_read`, `check_timers`, `try_poll_network` | scheduler (`goready`), netpoll |
| Network poller, `netpoll/epoll.rs`, `kqueue.rs` | `waiting_fds`, the kernel's interest list | `register_read`, `unregister`, `poll`, `has_waiters` | kernel |
| Channels, `runtime/channel.rs` | `buf`, `buf_cap`, `sendq`, `recvq`, `delivered`, `closed` | `send`, `recv`, `close` | `gopark`, `goready` |
| Wait groups, `sync.rs` | `counter`, `waiters` | `add`, `done`, `wait` | `gopark`, `goready` |
| Scheduler of `runtime/poll.rs` | as timer.rs, without pending wakes; `next_worker_id`, `POLLING` | as timer.rs, without timers | netpoll |
| Tasks and workers, `common.rs` | `Task.state`, `Worker.current_task`, stacks, contexts | `new`, `prepare_stack` | all runtimes |
| Context switch, `arch/*.rs` | registers | `context_switch` | workers |

What is hard in it:

* **Two locks for one task.**  A task that must wait publishes its id (in a
  `recvq`, a timer heap, a list of waiters), releases that lock, and only then
  calls `gopark`; its worker files it in `waiting` later still.  A waker may
  call `goready` anywhere in between.
* **An empty queue is looked at twice.**  A worker that pops nothing drops the
  queue's mutex to poll and takes it again to go idle; `go` and `goready` notify
  only if `idle_workers > 0`.
* **Termination by counting.**  A worker leaves when nothing is queued, parked or
  about to be woken and `idle_workers == all_workers`, while other threads still
  register, wake up or hold a task.
* **One poller for all.**  `POLLING` lets one worker poll; the others trust it.
* **The kernel repeats itself, or does not.**  epoll is level-triggered, kqueue is
  used with `EV_ONESHOT`.
* **Blocking calls** take a worker away; the decision to add one is taken from
  state that changes as soon as the mutex is released.

What makes each component correct:

* scheduler: a task is in one place; a wake is neither lost nor counted twice; no
  queued task is left without a thread on its way to it; no early shutdown; in
  the end a shutdown;
* poller: one poller; a sleeper wakes once, and not before its time; no report
  of a socket is lost;
* channels: a FIFO queue with one owner per value, `None` only at the end, each
  waiter woken exactly once;
* wait groups: `wait` returns exactly when the counter has been zero;
* the early runtimes: every task finishes, `start_runtime` returns only then,
  and a blocked worker does not strand the queued tasks.

`PROJECT.json` lists every hazard at its line with the properties that cover it.

## 2. The modules

    ParkContract        what gopark and goready promise            (abstract)
      ^ implemented by      ^ kept by their clients
    Scheduler           Chan, WaitGroup, TimerRuntime (its timers)
      ^ instantiated by
    TimerRuntime
    FifoChannel         what a channel promises                    (abstract)
      ^ implemented by Chan
    PollRuntime         poll.rs
    SpawnRuntime        green.rs, multi.rs, spawn.rs

    SchedulerProofs                            about Scheduler
      ^ instantiated by
    TimerProofs                                about TimerRuntime
    SeqLemmas <- ChanProofs                    about Chan
              <- WaitGroupProofs               about WaitGroup
              <- SpawnProofs                   about SpawnRuntime
              <- PollProofs                    about PollRuntime

The `MC*` modules give TLC the model values and the sequences of batches.

**ParkContract.**  For each task a life (`status`), whether its id lies with a
waker (`armed`) and whether it has been made ready before it was parked
(`token`).  It says how `gopark` and `goready` look to the code built on them.
`Scheduler` implements it (`ImplementsContract`); `Chan` and `WaitGroup` run on
its actions and show that each `goready` they make was owed (`KeepsParkContract`),
so that channels and wait groups are checked without worker threads and the
scheduler without channels.  Its own theorem is short and stands at its end.

**Scheduler.**  One action is one critical section of the queue's mutex, or one
step of a task between two of them.  The position of each thread is `pc`:

| `pc` | the thread is |
|---|---|
| `none`, `start`, `exit` | not started; started but not registered; out of its loop |
| `pop` | about to look at the queue (channel.rs:121) |
| `idling` | past `drop(q)`, before it takes the mutex again (130-144) |
| `asleep`, `woken` | in `condvar.wait`; notified, waiting for the mutex (162) |
| `run` | in a task |
| `parking` | in a task that has published its id and will call `gopark` |
| `spawning`, `blocking` | in `enter_blocking`; in the system call |
| `switched` | back in the loop with the task that switched out (202) |

`go`, `goready`, `enter_blocking`, the worker loop and `start_runtime` are the
actions of the same names.  The client of `gopark` is abstract: `Publish` leaves
the id with a waker and `Goready` lets any running task take it.  `Batches` is
what main submits before each `start_runtime`.  channel.rs and timer.rs differ
in one line: channel.rs:216 notifies when it finds a pending wake, timer.rs:210
does not (`CommitNotifies`).

`FairSpec` lets spurious wakeups happen any finite number of times.

**TimerRuntime** replaces the abstract waker by the real ones.  It instantiates
`Scheduler` with `armed` defined as the ids in the timer heap, in the hands of
`check_timers`, or in `waiting_fds`, reuses its actions (blocking calls and the
workers they add included) and adds the steps of `try_poll_network`, one per
atomic operation, critical section or system call.  The kernel is two sets:
`watched` (interest list) and `readable`.  Time is the set of timers that are
`due`; `check_timers` reads the clock once (`now`).

**PollRuntime** is the stage before: a worker tests for termination before it
polls (`ShouldTerminate`) and not again when it goes idle, it is counted in
`idle_workers` only while it waits, and `goready` forgets a task that has not been
parked yet (poll.rs:231).  That last call is a race only with the poller: the
task depends on the kernel reporting its socket again, which `ReadersWake` states.
The workers are numbered by `next_worker_id`, and main starts any number of them
up to `MaxWorkers`.

**Chan.**  One action is one critical section of the channel's mutex or one
`goready` after it.  `offer`, `wake_list`, `received` and `ended` are the local
variables and results of the calls.  A panic leaves the task through `task_entry`,
an `extern "C"` function, and aborts the process, so nothing happens after one.
**FifoChannel** is its specification; `buf` followed by the values of the blocked
senders is the queue, and a value delivered to a receiver that has not run yet
counts as received.

**WaitGroup.**  As `Chan`.  `Wrap` is the `i32` addition of a release build (a
debug build panics where it wraps); `total` and `released` are history variables
that only properties read.

**SpawnRuntime.**  multi.rs is the set of behaviours in which no task blocks,
green.rs the one-worker case.  spawn.rs is all of it.

An operator whose comment says "Mutant" is a wrong version of the operator it is
named after: it is used nowhere in the specifications, and serves to show that
the property listed with it in `PROJECT.json` would catch that mistake.

## 3. What the runs check

| Run | Instance | Shows |
|---|---|---|
| `scheduler` | 4 tasks, 2 workers, 1 spare, 2 calls of `start_runtime`, spurious wakeups, no notification for pending wakes | `OnePlace`, `OneWakeEach`, `NoStrandedWork`, `ShutdownMeansDone`, refinement of `ParkContract`; `RunnableRuns` (no starvation), `RegisteredWorkersLeave` (the shutdown handshake) |
| `chan` | 3 tasks in 5 roles, 3 values, capacities 0 and 1 | `QueuesAgree`, `EveryWakeHasAReason`, `NoneIsTheEnd`, refinement of `FifoChannel`, `KeepsParkContract`, `TakenOffReturns`, `EveryValueArrives` |
| `waitgroup` | 2 adders, 2 waiters, 3-bit counter | `NobodyLeftBehind`, `WakeMeansZero`, `CounterIsTheSum`, `KeepsParkContract`, `TakenOffReturns` |
| `poller_safety` | 3 tasks (one only sleeps, one sleeps and reads, one yields and blocks), 1 worker and 1 spare, epoll, spurious wakeups | `OnePoller`, `SleepersNotEarly`, `ShutdownMeansDone`, `NoLostReport`, `TimersKeepContract` |
| `poller_fair` | 1 worker, 2 sleepers, 1 reader, kqueue | `SleepersWake`, `ReadersWake` |
| `spawn_runtime` | 3 tasks, 2 workers, 2 spares | `OnePlace`, `ReturnMeansDone`, `BlockingLeavesAWorker`, `EveryTaskFinishes` |
| `poll_runtime` | 3 tasks (2 read, 2 block), 1 or 2 workers, epoll, spurious wakeups | `ShutdownMeansDone`, `RunnableRuns`, `ReadersWake`, `WorkersLeave` |
| `scheduler_restart`, `chan_panic`, `lost_poller`, `early_wake`, `poll_hang` | the smallest instance that shows it | a disagreement between code and documentation (section 5) |

Each passing run also checks the module's `TypeOK`, which for the schedulers says
that `idle_workers` and `all_workers`, unsigned in the code, never go below zero.

**Bounds, and why they are enough.**  Two workers are what it takes for every race
between two critical sections; a third thread comes from `Spares` when a task
blocks.  Four tasks let one be queued, one parked, one running and one created
late.  `Spares` (in `PollRuntime`, `MaxThreads`) bounds `spawn_worker`: where none
is left, a task that would need one does not block.  In `poller_safety` the second
thread is the one a blocking call adds, so that the poller meets both a second
worker and `enter_blocking` in one run.  In `chan` three values are a full buffer
of one with both senders blocked behind it, and the roles overlap (b sends and
receives), so that two senders, two receivers and a closer meet with three tasks;
a value is sent at most once, and a task that got `None` does not call `recv`
again.  In `waitgroup` `MaxInt = 3` makes the counter overflow after a few
additions.  In the poller models a task has one socket and at most one entry in
the heap.  Deadlock is not checked: the system stops when all work is done, and in
`Chan` and `WaitGroup` the program may leave everybody waiting.  That work which
can go on does go on is stated by the liveness properties instead.  The theorems of
section 4 lift every safety property from these instances to every instance (one of
them, `NoLostReport` for kqueue, to every instance with one thread).

**Fairness.**  `WF` of a thread's own steps: the operating system schedules every
thread, no mutex is held for ever, and blocking calls return.  `SF` of the steps
that take a running task off its worker (`gosched`, `gopark`, finishing):
scheduling is cooperative, the runtime cannot take a worker back, so that tasks do
give it back is an assumption about the program, the one the runtime is built on;
it is strong because a task may go in and out of blocking calls first.  In
`PollRuntime` the assumption is that a task which is scheduled again and again
finishes: tasks that go on for ever keep the queue busy and no worker polls.  A
socket that stays readable is reported in the end (`SF`: a wait may time out any
number of times before), and in `TimerRuntime` the clock goes on.  Spurious wakeups
come to an end (`<>[]` in the fair specifications): an endless series of them keeps
a worker taking the mutex, which no program could exclude.  Nothing is assumed
about when data arrives, about which sleeping thread `notify_one` chooses, or about
what a task calls.  `Chan` and `WaitGroup` assume that a runnable task runs, which
is what `RunnableRuns` shows of the scheduler; `EveryValueArrives` adds that the
receivers keep calling `recv` until they get `None` (`KeepReceiving`), as the
consumer of `src/examples/channel_demo.rs` does.

## 4. What is proved

For every set of tasks and, in `Scheduler` and `TimerRuntime`, every finite set of
workers and spares, every sequence of batches, with and without spurious wakeups, for
both variants of the notification and both kinds of network poller, whichever tasks
sleep, read, yield and block; in `Chan`, every set of values and capacities; in `WaitGroup`,
every set of deltas and every width of the counter; in `SpawnRuntime`, every
non-empty set of workers and every set of spares; in `PollRuntime`, any number of
workers and of threads that may be added.  All that is assumed of the
constants are `SchedulerAssumption`, `TimerAssumption`, `ChanAssumption`,
`WaitGroupAssumption`, `SpawnAssumption` and `PollAssumption`, and in two theorems
about `TimerRuntime` a hypothesis on the number of threads (below).  (With no worker at all, `num_threads = 0`, `start_runtime`
returns at once and leaves the tasks queued.)

| Theorem | States |
|---|---|
| `ParkContract!ContractKeepsWakes` | in the contract itself, `OneWakeEach` |
| `SchedulerProofs!OnePlaceAlways` | `Spec => []OnePlace` |
| `SchedulerProofs!TypeCorrect` | `Spec => []TypeOK`, the counters in `Nat` included |
| `SchedulerProofs!NoEarlyShutdown` | `Spec => []ShutdownMeansDone` |
| `SchedulerProofs!WorkNeverStranded` | `Spec => []NoStrandedWork` |
| `SchedulerProofs!SchedulerImplementsContract` | `Spec => ImplementsContract` |
| `SchedulerProofs!NoWakeLost` | `Spec => []OneWakeEach` |
| `TimerProofs!TypeCorrect`, `OnePollerAlways` | `Spec => []TypeOK`, `Spec => []OnePoller` |
| `TimerProofs!NoEarlyShutdown`, `OnePlaceAlways` | `Spec => []ShutdownMeansDone`, `Spec => []S!OnePlace` |
| `TimerProofs!WorkNeverStranded` | `Spec => []NoStrandedWork`, with the poller's positions |
| `TimerProofs!TimersImplementContract` | `Spec => TimersKeepContract` |
| `TimerProofs!NoSleeperForgotten` | `Spec => []SleeperHasWake`: one wake for each sleeper |
| `TimerProofs!NoSleeperEarly` | `Spec => []SleepersNotEarly` |
| `TimerProofs!ReportsKept` | `Spec => []NoLostReport`; if `OneShot`, with one thread |
| `TimerProofs!OneThreadIsAttentive` | with one thread, `Spec => []Attentive` |
| `ChanProofs!TypeCorrect`, `QueuesAlwaysAgree` | `Spec => []TypeOK`, `Spec => []QueuesAgree` |
| `ChanProofs!ChannelKeepsContract` | `Spec => KeepsParkContract` |
| `ChanProofs!WakesHaveReasons`, `NoneIsAlwaysTheEnd` | `Spec => []EveryWakeHasAReason`, `Spec => []NoneIsTheEnd` |
| `ChanProofs!ChannelIsFifo` | `Spec => ImplementsFifo` |
| `WaitGroupProofs!TypeCorrect`, `NobodyWaitsInVain` | `Spec => []TypeOK`, `Spec => []NobodyLeftBehind` |
| `WaitGroupProofs!CounterNeverWraps`, `WaitEndsAtZero` | `Spec => []CounterIsTheSum`, `Spec => []WakeMeansZero` |
| `WaitGroupProofs!GroupKeepsContract` | `Spec => KeepsParkContract` |
| `SpawnProofs!TypeCorrect`, `OnePlaceAlways` | `Spec => []TypeOK`, `Spec => []OnePlace` |
| `SpawnProofs!BlockingIsCovered` | `Spec => []BlockingLeavesAWorker` |
| `SpawnProofs!ReturnsWhenDone` | `Spec => []ReturnMeansDone` |
| `PollProofs!TypeCorrect` | `Spec => []TypeOK`: one poller, counters in `Nat` |
| `PollProofs!NoEarlyShutdown` | `Spec => []ShutdownMeansDone` |

So the two halves of the argument for channels and wait groups are closed: what
they need of the scheduler is `ParkContract`, the scheduler implements it, and they
call it only as it allows.  Timers are clients as well (`TimersKeepContract`); tasks
that read sockets are not, since a report may come twice, and what holds of them is
`NoLostReport`.

### Scheduler

*The invariant.*  `IInv == Shape /\ OnePlace /\ WorkersOutside`.  `Shape` (the
types, the counters merely integers) says which thread positions hold a task and
`OnePlace` where each task is; neither is inductive without the other, because an
action takes the task from the thread and changes the task's place.
`WorkersOutside` (workers are outside their loop unless main is in `join`) is there
for the second `start_runtime`, which puts the workers at `start` and must not
overwrite one that holds a task.  The proof has one step per action; the actions
fall into five shapes (a step that moves no task, queueing, dequeueing, switching
out, settling), each a lemma.

*The counters.*  `CInv`: `all_workers` is the number of registered threads, and
`idle_workers` at least the number of threads in or just after `condvar.wait`.  It is
only "at least" because a worker that leaves keeps its place in `idle_workers`; that
is enough for no decrement to go below zero.

*NoStrandedWork* is inductive on top of both.  A thread that queues a task holds
one itself, or is main before it starts the workers, and a thread that holds a task
comes back to the queue.  A thread that goes to sleep was not on its way to the
queue to begin with (`idling`): the thread that queued the task meanwhile is.  A
task that enters a blocking call without a replacement has seen an empty queue or
`idle_workers > 0` under the mutex, and while it blocks the counter stays above
zero until some sleeper is notified and is on its way.

*NoEarlyShutdown.*  `QInv` says that until the first worker leaves, `idle_workers` is
exactly the number of threads in or just after `condvar.wait` (`Counted`), and that
after that no thread has a task and no task is alive (`Quiet`).  When a worker finds
`idle_workers = all_workers`, the sleeping threads and itself are all the registered
ones, so that none holds a task; then a live task would have to be queued or parked,
and the test excludes both.

*The refinement.*  The abstract status of a task is a function of where it is
(`StatusFacts`), which `OnePlace` makes well defined.  Each action then is the
contract's action of the same name or a stutter; `Settle` takes the pending wake or
files the task, `Goready` finds it filed or leaves a pending wake, and these are the
two outcomes of the contract's `Settle` and `Ready`.  `OneWakeEach` of the scheduler
is then the contract's theorem, read through the refinement.

*A poller on top.*  The invariants above are shown to survive not only the actions of
`Scheduler` but also what a poller adds (`PolledNext`): a thread that was about to go
idle turns back to the queue, calls `goready` for any task from outside of a task,
and the set of published ids changes as it likes.  `StepImplements`, too, allows
threads that turn back.

### Timers and the poller

`TimerRuntime` shares its threads with the scheduler, so that its proof is one about
both.  `At` maps the position of a thread that polls to what the scheduler would take
it for: while it may still find nothing and go idle (`Looking`) to `idling`, after
that to `pop`, and `registering` to `run`.  Under this map each step of
`TimerRuntime` is a step of `PolledNext` or a stutter (`NextSimulated`), which gives
`OnePlace`, the counters, `NoStrandedWork` and `ShutdownMeansDone` without proving
them again.

The joint invariant `TimerInv` adds what is the poller's own.  `Types`; `OnePoller`;
`Memory`: a thread remembers a popped entry only while it fires it, and events or
ready tasks only between the system call and the delivery; `Clock`: whatever a thread
takes for expired is due, although it reads the clock once and sleeps begin in the
meantime, a task whose time has not come is in the heap, and what has been popped is
not.  `Memory` with `OnePoller` says that two threads never hold a popped entry.

*TimersKeepContract.*  For the tasks that never read, each step is the contract's
action or a stutter.  The delivery of a report is a `goready` for a reader and so a
stutter; `FireTimer` is the contract's `Wake`, for which the popped id must be in no
other waker's hands.  `SleeperHasWake` is the contract's `OneWakeEach` read back.
`SleepersNotEarly` follows from the contract and `Clock`: a sleeper that runs has no
entry in the heap, and an entry leaves the heap only when it is due.

*NoLostReport* needs two more cases to be inductive (`Reported`): the task that has
called `gopark` but is not filed yet, and the one that has told the kernel and not
yet the poller.  The latter is where epoll and kqueue differ.  epoll reports again;
a one-shot event that is collected before the task is in `waiting_fds` is gone, so
that for kqueue the theorem assumes a single thread.  The hypothesis is needed: with
two threads TLC finds the counterexample (section 5).

*OneThreadIsAttentive* is the safety half of `SleepersWake` on one worker: the thread
never waits on the condition variable while a timer is set or a socket registered.
With two threads it is false for the reason `lost_poller` shows.

### Wait groups

*Counting*: until a call has panicked the counter is not negative, equals the true
sum, and is positive while a task is registered.  It is inductive because an
addition to a counter in `0 .. MaxInt` either fits or wraps below zero
(`WrapIsSeen`), where the test in the code catches it.  *Once*: an id lies in one
list only.  With the contract's invariant this says that whoever is woken waits, and
that an id can be published only by a task that is in no list.

### Channels

`QInv` (types and `QueuesAgree`) is inductive alone: each branch of `send` and `recv`
tests one queue, and `QueuesAgree` supplies what it means for the others.  `Once` and
the contract's invariant are as for wait groups.  `Story` is what becomes of the
values: a receiver woken with nothing finds the channel closed and empty, a value is
delivered once to a receiver that has left the `recvq`, each entry of the `sendq`
holds what its sender offers, and an offer whose sender has left the `sendq` is in
the buffer, delivered or received.  The refinement of `FifoChannel` follows action
by action (`IsPut`, `IsTake`, `IsHandoff`, `IsClose`): a blocked sender's value moved
to the back of the buffer leaves the concatenation of buffer and `sendq` as it is
(`TakeAndMoveUp`), and closing cuts it off where the buffer ends (`CutLine`), since
senders wait only behind a full buffer.

### The early runtimes

`IInv == TypeOK /\ OnePlace /\ Alive /\ WorkersOutside`: besides each task being in
one place, a task on a thread is alive until it has finished and switched out
(`Alive`), and no worker is in its loop before `start_runtime` or after it.
`BlockingLeavesAWorker` is inductive on top: whoever makes the queue non-empty holds
a task itself, a thread leaves only on an empty queue, and it blocks only on an
empty queue or after it has added a thread.  `ReturnMeansDone` then needs no further
invariant: when main returns all of its workers are out, so that a queued task is
left to an added thread by the property before, and a task that is not queued is
held by one.

### The runtime of poll.rs

`IInv == Types /\ Machine /\ Live /\ Quiet`.  `Machine` is about the threads alone:
`POLLING` is on exactly while one thread is between its `compare_exchange` and its
`store`; `idle_workers` is the number of threads in or just after `condvar.wait` and
`all_workers` the number of registered ones, here at all times, since a worker of
poll.rs is counted as idle only while it waits; ids are handed out in order.  `Live`
says that a live task is queued, parked or on a thread.  A worker that asks for
`idle_workers == all_workers - 1` is itself registered and awake, so that the two
numbers leave no other awake thread (`LastOneOut`); with an empty queue and nothing
parked, `Live` leaves no live task, and from then on nothing can create one
(`Quiet`).  The proof does not use that `waiting_fds` is empty: the test for it in the
code is not needed for safety.

### Only model-checked

Liveness: `RunnableRuns`, `RegisteredWorkersLeave`, `TakenOffReturns`,
`EveryValueArrives`, `SleepersWake`, `ReadersWake`, `EveryTaskFinishes`, `WorkersLeave`.
The prover has no rule for fairness here.  Every invariant and every refinement that
a passing run checks is also the subject of a theorem.

## 5. Where code and documentation disagree

Five runs end in a counterexample on purpose:

* `scheduler_restart`: `idle_workers` is left one too high by the shutdown
  (channel.rs:145, 155-158), and a later `start_runtime` does not return.  A worker
  thread that registers only after its peers have left meets the same counter
  (`ShutdownMeansDone` and `RegisteredWorkersLeave` are stated for the first run,
  the latter for threads that have all registered before the first one leaves,
  which is where they hold).
* `chan_panic`: a sender whose value has been received panics if `close` comes
  before it runs again (channel.rs:730-735).
* `lost_poller`: a worker is turned away by a poller that has already seen that
  there is nothing to poll for; a timer pushed in between is nobody's
  (timer.rs:545-563).  `SleepersWake` is therefore checked with one worker.
* `early_wake`: with level-triggered epoll a socket may be reported twice for one
  `gopark`, and the second wake ends a later `sleep` at once.  `SleepersNotEarly`
  and `TimersKeepContract` are stated for the tasks that do not read.
* `poll_hang`: in poll.rs the last two workers may both pass the test for
  termination before either is idle, find nothing to poll, and go to sleep
  (poll.rs:120-142): `start_runtime` does not return.  `ReadersWake` and
  `WorkersLeave` make an exception of the state in which all of several workers
  sleep (`AllAsleep`).

Met while modelling, and not checked by a run of their own:

* `enter_blocking` (channel.rs:398).  A worker finds the queue empty and drops the
  mutex; a task calls `go`, which notifies nobody as `idle_workers` is 0; the
  worker goes idle without looking at the queue again; the task blocks, sees
  `idle_workers = 1` and adds no worker.  The queued task waits until the blocking
  call returns, although a worker sleeps.  This is the last case of
  `NoStrandedWork`, the only one in which nobody is on the way to the queue.
* kqueue.rs:36-56 registers a one-shot event before it files the task: a report
  collected in between is dropped and never repeated.  `TimerRuntime` with
  `OneShot = TRUE` and two workers violates `NoLostReport`.
* Timers and sockets are polled only when the queue is empty (timer.rs:124-133): a
  task that keeps calling `gosched` on the only worker starves them.
  `TimerRuntime` with one worker and a yielder violates `SleepersWake`.
* spawn.rs:171-175 joins only the first workers; the detached ones may still be
  running a task.  `ReturnMeansDone` says exactly that much.
* A report that a poller of poll.rs took before the task unregistered its socket is
  delivered after the task has parked again (poll.rs:464): `net_poll_read` returns
  although there is nothing to read.

## 6. What is not modelled

* The assembly of `context_switch`, stacks and contexts (`arch/*.rs`, most of
  `common.rs`): the switch between a task and its worker is one step, and has no
  interleaving to check.  In particular the compiler's treatment of the
  thread-local `CURRENT_WORKER` over a switch is outside the models.
* What is read, written or printed, durations, the limit of 64 events per poll,
  `EINTR`, and two tasks on one descriptor (the examples never share one).
* The `.diff` files of the stages, which restate the sources, and the examples as
  programs: the modules let tasks make their calls in every order.
* Task ids: an id is the task.

## 7. Plan

1. `TimerRuntime`: several tasks for one descriptor, the limit of events per poll; a
   statement of what does hold of sleepers on several workers (some worker polls, or
   some worker is awake), as `AllAsleep` is for `PollRuntime`.
2. Proofs: for `PollRuntime`, that a task is in one place and what is left of
   `NoStrandedWork` there; for `Chan`, that a waiter lies in one queue only, stated as
   a theorem of its own (`Once` is part of the invariant already).
