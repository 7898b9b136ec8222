---------------------------- MODULE PollRuntime -----------------------------
(***************************************************************************)
(* The runtime of src/src/runtime/poll.rs, the stage before timer.rs: the  *)
(* first gopark and goready, the first network poller, workers that sleep  *)
(* when they are idle, blocking I/O that adds workers.  It differs from    *)
(* Scheduler in what its authors changed afterwards: a worker tests for    *)
(* termination before it polls and not again when it goes idle, it counts  *)
(* as idle only while it waits, and goready forgets a task that has not    *)
(* been parked yet.                                                        *)
(*                                                                         *)
(* One action is one critical section of the queue or of waiting_fds, one  *)
(* atomic operation on POLLING, or one system call.  A task has one        *)
(* socket, which stands for its file descriptor; the kernel is epoll.      *)
(***************************************************************************)
EXTENDS Integers, Sequences, FiniteSets

CONSTANTS
  Tasks,        \* the tasks a behaviour may create
  Submitted,    \* those that main creates before start_runtime
  Readers,      \* those that call net_poll_read
  Blockers,     \* those that call the functions of io
  MaxWorkers,   \* bounds the argument of start_runtime
  MaxThreads,   \* bounds the number of threads ever started
  NoTask        \* an empty current_task

ASSUME PollAssumption ==
  /\ Submitted \cup Readers \cup Blockers \subseteq Tasks
  /\ MaxWorkers \in Nat \ {0}
  /\ MaxThreads \in Nat
  /\ MaxWorkers <= MaxThreads
  /\ NoTask \notin Tasks

(* Worker ids.                                                             *)
Threads == 0 .. MaxThreads - 1

VARIABLES
  runnable,        \* GlobalQueue.runnable
  waiting,         \* keys of GlobalQueue.waiting
  idle_workers,    \* GlobalQueue.idle_workers
  all_workers,     \* GlobalQueue.all_workers
  next_worker_id,  \* GlobalQueue.next_worker_id
  current_task,    \* Worker.current_task of each thread
  state,           \* Task.state, "New" before the task is created
  pc,              \* where each thread stands
  main,            \* where the main thread stands
  num_threads,     \* the argument of start_runtime
  polling,         \* POLLING
  watched,         \* the sockets registered with the kernel
  fds,             \* keys of NetPoller.waiting_fds
  readable,        \* the sockets with something to read
  ready            \* what the kernel reported to each thread's poll, then its
                   \* ready_tasks

queue   == <<runnable, waiting, idle_workers, all_workers, next_worker_id>>
threads == <<current_task, state, pc>>
program == <<main, num_threads>>
poller  == <<polling, watched, fds, readable, ready>>
vars    == <<queue, threads, program, poller>>

Holding == {"run", "registering", "parking", "spawning", "blocking", "switched"}
Polling == {"look", "unclaim", "wait", "map", "release"}
PC      == Holding \cup Polling \cup
             {"none", "start", "pop", "claim", "deliver", "idling", "asleep",
              "woken", "exit"}

TaskState == {"New", "Runnable", "Running", "Waiting", "Dead"}

In(S) == {w \in Threads : pc[w] \in S}

Goto(w, at) == [pc EXCEPT ![w] = at]

(* A step of one thread that leaves the queue and the tasks alone.         *)
Step(w, from, to) ==
  /\ pc[w] = from
  /\ pc' = Goto(w, to)
  /\ UNCHANGED <<queue, current_task, state, program>>

(* Condvar::notify_one and notify_all.                                     *)
NotifyOne(p) ==
  LET asleep == {w \in Threads : p[w] = "asleep"}
  IN  IF asleep = {} THEN {p} ELSE {[p EXCEPT ![w] = "woken"] : w \in asleep}

NotifyAll(p) == [w \in Threads |-> IF p[w] = "asleep" THEN "woken" ELSE p[w]]

(* "Wake up an idle worker if any"                                         *)
WakeIdle(p) == IF idle_workers > 0 THEN NotifyOne(p) ELSE {p}

Enqueue(t) ==
  /\ runnable' = Append(runnable, t)
  /\ state' = [state EXCEPT ![t] = "Runnable"]

(* q.runnable.pop_front(), and the switch into the task that follows.      *)
Dequeue(w) ==
  /\ runnable # <<>>
  /\ runnable' = Tail(runnable)
  /\ state' = [state EXCEPT ![Head(runnable)] = "Running"]
  /\ current_task' = [current_task EXCEPT ![w] = Head(runnable)]
  /\ pc' = Goto(w, "run")

(* The task gives its worker back with the state it has.                   *)
SwitchToScheduler(w) == pc' = Goto(w, "switched")

-----------------------------------------------------------------------------
(* worker_loop                                                             *)

(* Mutant: the workers that hold a task are not counted.                   *)
ShouldTerminate_Busy(idle) == runnable = <<>> /\ waiting = {} /\ fds = {}

(* No task is queued or parked, no socket is waited for, and all workers   *)
(* but the one that asks wait on the condition variable.                   *)
ShouldTerminate(idle) ==
  /\ runnable = <<>>
  /\ waiting = {}
  /\ fds = {}
  /\ idle = all_workers - 1

(* Mutant: the worker that terminates tells nobody.                        *)
Shutdown_Silent(w) ==
  /\ pc' = Goto(w, "exit")
  /\ all_workers' = all_workers - 1
  /\ UNCHANGED <<runnable, current_task, state>>

Shutdown(w) ==
  /\ pc' = NotifyAll(Goto(w, "exit"))
  /\ all_workers' = all_workers - 1
  /\ UNCHANGED <<runnable, current_task, state>>

Register(w) ==
  /\ pc[w] = "start"
  /\ all_workers' = all_workers + 1
  /\ pc' = Goto(w, "pop")
  /\ UNCHANGED <<runnable, waiting, idle_workers, next_worker_id, current_task,
                 state, program, poller>>

(* The queue's mutex is taken: pop a task, or leave, or drop the mutex     *)
(* and poll.                                                               *)
Pop(w) ==
  /\ pc[w] = "pop"
  /\ \/ Dequeue(w) /\ UNCHANGED all_workers
     \/ ShouldTerminate(idle_workers) /\ Shutdown(w)
     \/ /\ runnable = <<>> /\ ~ShouldTerminate(idle_workers)
        /\ pc' = Goto(w, "claim")
        /\ UNCHANGED <<runnable, all_workers, current_task, state>>
  /\ UNCHANGED <<waiting, idle_workers, next_worker_id, program, poller>>

(* try_poll_network returned false.  The queue is not looked at again.     *)
GoIdle(w) ==
  /\ pc[w] = "idling"
  /\ idle_workers' = idle_workers + 1
  /\ pc' = Goto(w, "asleep")
  /\ UNCHANGED <<runnable, waiting, all_workers, next_worker_id, current_task,
                 state, program, poller>>

(* condvar.wait returned: stop counting as idle, test for termination, pop *)
(* or start over.                                                          *)
WakeUp(w) ==
  /\ pc[w] = "woken"
  /\ idle_workers' = idle_workers - 1
  /\ \/ Dequeue(w) /\ UNCHANGED all_workers
     \/ ShouldTerminate(idle_workers - 1) /\ Shutdown(w)
     \/ /\ runnable = <<>> /\ ~ShouldTerminate(idle_workers - 1)
        /\ pc' = Goto(w, "pop")
        /\ UNCHANGED <<runnable, all_workers, current_task, state>>
  /\ UNCHANGED <<waiting, next_worker_id, program, poller>>

SpuriousWakeup(w) == Step(w, "asleep", "woken") /\ UNCHANGED poller

(* Mutant: the task is not taken out of the worker.                        *)
Settle_NotTaken(w) ==
  LET t == current_task[w]
  IN  /\ pc[w] = "switched"
      /\ pc' = Goto(w, "pop")
      /\ \/ state[t] = "Dead" /\ UNCHANGED <<runnable, waiting, state>>
         \/ /\ state[t] = "Waiting"
            /\ waiting' = waiting \cup {t}
            /\ UNCHANGED <<runnable, state>>
         \/ state[t] = "Running" /\ Enqueue(t) /\ UNCHANGED waiting
      /\ UNCHANGED <<current_task, idle_workers, all_workers, next_worker_id,
                     program, poller>>

(* The task that switched out goes where its state says.                   *)
Settle(w) ==
  LET t == current_task[w]
  IN  /\ pc[w] = "switched"
      /\ pc' = Goto(w, "pop")
      /\ current_task' = [current_task EXCEPT ![w] = NoTask]
      /\ \/ state[t] = "Dead" /\ UNCHANGED <<runnable, waiting, state>>
         \/ /\ state[t] = "Waiting"
            /\ waiting' = waiting \cup {t}
            /\ UNCHANGED <<runnable, state>>
         \/ state[t] = "Running" /\ Enqueue(t) /\ UNCHANGED waiting
      /\ UNCHANGED <<idle_workers, all_workers, next_worker_id, program, poller>>

(* goready(t): a task that is not in the waiting map is not woken, and     *)
(* nothing remembers the call.                                             *)
ReadyTask(t) ==
  \/ /\ t \in waiting
     /\ waiting' = waiting \ {t}
     /\ Enqueue(t)
     /\ pc' \in WakeIdle(pc)
  \/ /\ t \notin waiting
     /\ UNCHANGED <<waiting, runnable, state, pc>>

-----------------------------------------------------------------------------
(* try_poll_network                                                        *)

(* compare_exchange: whoever turns POLLING on is the poller; the others    *)
(* return false.                                                           *)
Claim(w) ==
  /\ \/ polling /\ Step(w, "claim", "idling") /\ UNCHANGED polling
     \/ ~polling /\ Step(w, "claim", "look") /\ polling' = TRUE
  /\ UNCHANGED <<watched, fds, readable, ready>>

(* has_waiters: the poller gives up if no socket is waited for.            *)
LookForWaiters(w) ==
  /\ \/ fds = {} /\ Step(w, "look", "unclaim")
     \/ fds # {} /\ Step(w, "look", "wait")
  /\ UNCHANGED poller

(* epoll_wait reports what can be read, or times out after 100 ms; the     *)
(* reports repeat for as long as there is something to read.               *)
WaitOver(w) ==
  /\ Step(w, "wait", "map")
  /\ \E reported \in {{}, watched \cap readable} :
       ready' = [ready EXCEPT ![w] = reported]
  /\ UNCHANGED <<polling, watched, fds, readable>>

(* NetPoller::poll looks up who waits for the reported sockets.            *)
MapEvents(w) ==
  /\ Step(w, "map", "release")
  /\ ready' = [ready EXCEPT ![w] = @ \cap fds]
  /\ UNCHANGED <<polling, watched, fds, readable>>

(* Mutant: a poll with nothing to report leaves POLLING on.                *)
Release_Forgets(w) ==
  /\ \/ Step(w, "unclaim", "idling") /\ polling' = FALSE
     \/ Step(w, "release", "deliver") /\ polling' = (ready[w] = {})
  /\ UNCHANGED <<watched, fds, readable, ready>>

(* POLLING.store(false), and false or true is returned: before the ready   *)
(* tasks are woken.                                                        *)
Release(w) ==
  /\ \/ Step(w, "unclaim", "idling")
     \/ Step(w, "release", "deliver")
  /\ polling' = FALSE
  /\ UNCHANGED <<watched, fds, readable, ready>>

(* Mutant: false is returned, as if nobody had been woken.                 *)
Deliver_ReturnsFalse(w) ==
  /\ \/ /\ pc[w] = "deliver"
        /\ \E t \in ready[w] :
             ReadyTask(t) /\ ready' = [ready EXCEPT ![w] = @ \ {t}]
        /\ UNCHANGED <<idle_workers, all_workers, next_worker_id, current_task, program>>
     \/ ready[w] = {} /\ Step(w, "deliver", "idling") /\ UNCHANGED ready
  /\ UNCHANGED <<polling, watched, fds, readable>>

(* goready for one ready task after the other, then back to the queue.     *)
Deliver(w) ==
  /\ \/ /\ pc[w] = "deliver"
        /\ \E t \in ready[w] :
             ReadyTask(t) /\ ready' = [ready EXCEPT ![w] = @ \ {t}]
        /\ UNCHANGED <<idle_workers, all_workers, next_worker_id, current_task, program>>
     \/ ready[w] = {} /\ Step(w, "deliver", "pop") /\ UNCHANGED ready
  /\ UNCHANGED <<polling, watched, fds, readable>>

-----------------------------------------------------------------------------
(* What a running task may do                                              *)

(* The task runs its own code, not the end of net_poll_read.               *)
InCode(w) == pc[w] = "run" /\ current_task[w] \notin watched \cup fds

Gosched(w) ==
  /\ InCode(w)
  /\ SwitchToScheduler(w)
  /\ UNCHANGED <<queue, current_task, state, program, poller>>

(* task_finished                                                           *)
Finish(w) ==
  /\ InCode(w)
  /\ state' = [state EXCEPT ![current_task[w]] = "Dead"]
  /\ SwitchToScheduler(w)
  /\ UNCHANGED <<queue, current_task, program, poller>>

(* net_poll_read: tell the kernel, then file the task id, then park ...    *)
RegisterRead(w) ==
  /\ InCode(w)
  /\ current_task[w] \in Readers
  /\ watched' = watched \cup {current_task[w]}
  /\ Step(w, "run", "registering")
  /\ UNCHANGED <<polling, fds, readable, ready>>

FileRead(w) ==
  /\ Step(w, "registering", "parking")
  /\ fds' = fds \cup {current_task[w]}
  /\ UNCHANGED <<polling, watched, readable, ready>>

Gopark(w) ==
  /\ pc[w] = "parking"
  /\ state' = [state EXCEPT ![current_task[w]] = "Waiting"]
  /\ SwitchToScheduler(w)
  /\ UNCHANGED <<queue, current_task, program, poller>>

(* ... and undo both; the task then reads what there is.                   *)
Unregister(w) ==
  /\ pc[w] = "run"
  /\ current_task[w] \in watched
  /\ watched' = watched \ {current_task[w]}
  /\ UNCHANGED <<queue, threads, program, polling, fds, readable, ready>>

Unfile(w) ==
  /\ pc[w] = "run"
  /\ current_task[w] \in fds \ watched
  /\ fds' = fds \ {current_task[w]}
  /\ readable' = readable \ {current_task[w]}
  /\ UNCHANGED <<queue, threads, program, polling, watched, ready>>

(* go(t), from a task or from main.                                        *)
CreateTask(t) ==
  /\ state[t] = "New"
  /\ Enqueue(t)
  /\ pc' \in WakeIdle(pc)
  /\ UNCHANGED <<waiting, idle_workers, all_workers, next_worker_id,
                 current_task, program, poller>>

Go(w, t) == InCode(w) /\ t \notin Submitted /\ CreateTask(t)

(* enter_blocking decides under the mutex whether to add a worker.         *)
(* Bound: a task that would need a thread when none is left does not block.*)
EnterBlocking(w) ==
  LET should_spawn == runnable # <<>> /\ idle_workers = 0
  IN  /\ InCode(w)
      /\ current_task[w] \in Blockers
      /\ should_spawn =>
           next_worker_id + Cardinality(In({"spawning"})) < MaxThreads
      /\ Step(w, "run", IF should_spawn THEN "spawning" ELSE "blocking")
      /\ UNCHANGED poller

(* spawn_worker takes an id and starts the thread.                         *)
SpawnWorker(w) ==
  /\ pc[w] = "spawning"
  /\ next_worker_id' = next_worker_id + 1
  /\ pc' = [pc EXCEPT ![next_worker_id] = "start", ![w] = "blocking"]
  /\ UNCHANGED <<runnable, waiting, idle_workers, all_workers, current_task,
                 state, program, poller>>

(* The blocking system call returns to the task.                           *)
LeaveBlocking(w) == Step(w, "blocking", "run") /\ UNCHANGED poller

-----------------------------------------------------------------------------
(* The main thread, and the network                                        *)

Submit(t) == main = "submit" /\ t \in Submitted /\ CreateTask(t)

StartRuntime ==
  /\ main = "submit"
  /\ \A t \in Submitted : state[t] # "New"
  /\ main' = "join"
  /\ next_worker_id' = num_threads
  /\ pc' = [w \in Threads |-> IF w < num_threads THEN "start" ELSE pc[w]]
  /\ UNCHANGED <<runnable, waiting, idle_workers, all_workers, current_task,
                 state, num_threads, poller>>

(* start_runtime returns once the threads it started have been joined.     *)
Join ==
  /\ main = "join"
  /\ \A w \in 0 .. num_threads - 1 : pc[w] = "exit"
  /\ main' = "done"
  /\ UNCHANGED <<queue, threads, num_threads, poller>>

(* Data arrives for a socket.  Data that came before the registration is   *)
(* reported as if it came with it.                                         *)
DataArrives(t) ==
  /\ t \in watched \ readable
  /\ readable' = readable \cup {t}
  /\ UNCHANGED <<queue, threads, program, polling, watched, fds, ready>>

-----------------------------------------------------------------------------

Init ==
  /\ runnable = <<>>
  /\ waiting = {}
  /\ idle_workers = 0
  /\ all_workers = 0
  /\ next_worker_id = 0
  /\ current_task = [w \in Threads |-> NoTask]
  /\ state = [t \in Tasks |-> "New"]
  /\ pc = [w \in Threads |-> "none"]
  /\ main = "submit"
  /\ num_threads \in 1 .. MaxWorkers
  /\ polling = FALSE
  /\ watched = {}
  /\ fds = {}
  /\ readable = {}
  /\ ready = [w \in Threads |-> {}]

PollStep(w) ==
  \/ Claim(w) \/ LookForWaiters(w) \/ WaitOver(w) \/ MapEvents(w)
  \/ Release(w) \/ Deliver(w)

WorkerStep(w) ==
  \/ Register(w) \/ Pop(w) \/ PollStep(w) \/ GoIdle(w) \/ WakeUp(w) \/ Settle(w)
  \/ FileRead(w) \/ Gopark(w) \/ Unregister(w) \/ Unfile(w)
  \/ SpawnWorker(w) \/ LeaveBlocking(w)

TaskStep(w) ==
  \/ Gosched(w) \/ Finish(w) \/ RegisterRead(w) \/ EnterBlocking(w)
  \/ \E t \in Tasks : Go(w, t)

MainStep == StartRuntime \/ Join \/ \E t \in Tasks : Submit(t)

Next ==
  \/ \E w \in Threads : WorkerStep(w) \/ TaskStep(w) \/ SpuriousWakeup(w)
  \/ \E t \in Tasks : DataArrives(t)
  \/ MainStep

Spec == Init /\ [][Next]_vars

(* Threads are scheduled, blocking calls return, spurious wakeups come to  *)
(* an end; a socket that stays readable is reported in the end; and tasks  *)
(* are of the kind the runtime is for: none keeps its worker for ever, and *)
(* none is scheduled for ever without finishing.                           *)
FairSpec ==
  /\ Spec
  /\ WF_vars(MainStep)
  /\ <>[][\A w \in Threads : ~SpuriousWakeup(w)]_vars
  /\ \A w \in Threads :
       /\ WF_vars(WorkerStep(w))
       /\ SF_vars(WaitOver(w) /\ ready'[w] = watched \cap readable)
  /\ \A t \in Tasks :
       SF_vars(\E w \in Threads : current_task[w] = t /\ Finish(w))

-----------------------------------------------------------------------------
(* Properties                                                              *)

(* Types, and what a thread holds at each point of the loop.  The counters *)
(* are unsigned in the code: no decrement without its increment.           *)
TypeOK ==
  /\ runnable \in Seq(Tasks)
  /\ waiting \in SUBSET Tasks
  /\ idle_workers \in Nat
  /\ all_workers \in Nat
  /\ next_worker_id \in 0 .. MaxThreads
  /\ current_task \in [Threads -> Tasks \cup {NoTask}]
  /\ state \in [Tasks -> TaskState]
  /\ pc \in [Threads -> PC]
  /\ \A w \in Threads : pc[w] \in Holding <=> current_task[w] # NoTask
  /\ main \in {"submit", "join", "done"}
  /\ num_threads \in 1 .. MaxWorkers
  /\ polling = (In(Polling) # {})
  /\ watched \in SUBSET Readers
  /\ fds \in SUBSET Readers
  /\ readable \in SUBSET Readers
  /\ ready \in [Threads -> SUBSET Readers]

(* No worker leaves while a task is queued, runs, or waits for a socket,   *)
(* on whatever thread (poll.rs:89-99): has_waiters and the two counters    *)
(* are read while other threads register, wake up, or hold a task.         *)
ShutdownMeansDone ==
  In({"exit"}) # {} => \A t \in Tasks : state[t] \in {"New", "Dead"}

(* A queued task gets a worker, although the queue is not looked at again  *)
(* between the poll and the wait (poll.rs:129-142).                        *)
RunnableRuns ==
  \A t \in Tasks : state[t] = "Runnable" ~> state[t] = "Running"

(* There are several workers and all of them sleep: what the runtime can   *)
(* come to, since a worker goes to sleep on the strength of what it, or    *)
(* the poller, saw before.                                                 *)
AllAsleep == next_worker_id > 1 /\ In(PC \ {"none", "asleep"}) = {}

(* "Parks the current task until the fd is ready for reading"              *)
(* (poll.rs:421): once it is, the task runs, although a goready that comes *)
(* before gopark is forgotten (poll.rs:231); only a runtime whose workers  *)
(* have all gone to sleep forgets a task.                                  *)
ReadersWake ==
  \A t \in Readers :
    [](t \in fds \cap readable => <>(state[t] = "Running" \/ []AllAsleep))

AllDone == \A t \in Tasks : state[t] = "Dead" \/ (state[t] = "New" /\ t \notin Submitted)

(* When all tasks are complete the workers leave, one telling the others,  *)
(* or they have all gone to sleep (poll.rs:120-127, 145-150).              *)
WorkersLeave ==
  [](main = "join" /\ AllDone => <>(main = "done" \/ []AllAsleep))

(* "Start the runtime and run until all tasks complete" (poll.rs:301):     *)
(* when all tasks are complete, start_runtime returns.                     *)
StartRuntimeReturns == (main = "join" /\ AllDone) ~> main = "done"
=============================================================================
