----------------------------- MODULE Scheduler ------------------------------
(***************************************************************************)
(* The M:N scheduler of src/src/runtime/channel.rs, which timer.rs shares  *)
(* but for one notification (CommitNotifies): the global queue behind one  *)
(* mutex, the worker loop with its condition variable and its counters,    *)
(* gopark and goready with the set of pending wakes, blocking I/O that     *)
(* adds workers, and start_runtime, which main may call again once it has  *)
(* returned.                                                               *)
(*                                                                         *)
(* One action is one critical section of the queue mutex, or one step of a *)
(* task between two of them.  No timer and no socket is outstanding here:  *)
(* try_poll_network returns false and the two has_... checks are false.    *)
(* TimerRuntime adds the poller to these actions.                          *)
(***************************************************************************)
EXTENDS Integers, Sequences, FiniteSets

CONSTANTS
  Tasks,           \* the tasks a behaviour may create
  Batches,         \* Batches[i]: what main submits before its i-th start_runtime
  Workers,         \* the threads of start_runtime
  Spares,          \* the threads spawn_worker may add (bounds their number)
  CommitNotifies,  \* channel.rs:216 notifies when it consumes a pending wake;
                   \* timer.rs:210 does not
  SpuriousWakeups, \* whether condvar.wait may return with no notification
  NoTask           \* an empty current_task

Threads == Workers \cup Spares

ASSUME SchedulerAssumption ==
  /\ Batches \in Seq(SUBSET Tasks)
  /\ Batches # <<>>
  /\ IsFiniteSet(Threads)
  /\ Workers # {}
  /\ Workers \cap Spares = {}
  /\ CommitNotifies \in BOOLEAN
  /\ SpuriousWakeups \in BOOLEAN
  /\ NoTask \notin Tasks

VARIABLES
  runnable,        \* GlobalQueue.runnable
  waiting,         \* keys of GlobalQueue.waiting
  pending_ready,   \* GlobalQueue.pending_ready
  idle_workers,    \* GlobalQueue.idle_workers
  all_workers,     \* GlobalQueue.all_workers
  current_task,    \* Worker.current_task of each thread
  state,           \* Task.state, "New" before the task is created
  pc,              \* where each thread stands
  armed,           \* client: ids published for a waker and not yet passed on
  main,            \* where the main thread stands
  session          \* which start_runtime call main is at

queue == <<runnable, waiting, pending_ready, idle_workers, all_workers>>
vars == <<queue, current_task, state, pc, armed, main, session>>

-----------------------------------------------------------------------------
(* Threads.  "switched" is the return of context_switch into worker_loop;  *)
(* an "asleep" thread is inside condvar.wait, a "woken" one has been        *)
(* notified and must take the mutex again.                                 *)

Holding == {"run", "parking", "spawning", "blocking", "switched"}
Dozing  == {"asleep", "woken"}
PC      == Holding \cup Dozing \cup {"none", "start", "pop", "idling", "exit"}

In(S)      == {w \in Threads : pc[w] \in S}
Registered == Threads \ In({"none", "start", "exit"})

(* Condvar::notify_one and notify_all on the thread positions p.           *)
NotifyOne(p) ==
  LET asleep == {w \in Threads : p[w] = "asleep"}
  IN  IF asleep = {} THEN {p} ELSE {[p EXCEPT ![w] = "woken"] : w \in asleep}

NotifyAll(p) == [w \in Threads |-> IF p[w] = "asleep" THEN "woken" ELSE p[w]]

(* "Wake up an idle worker if any"                                         *)
WakeIdle(p) == IF idle_workers > 0 THEN NotifyOne(p) ELSE {p}

Goto(w, at) == [pc EXCEPT ![w] = at]

Enqueue(t) ==
  /\ state' = [state EXCEPT ![t] = "Runnable"]
  /\ runnable' = Append(runnable, t)

(* Mutant: the newest task is taken, not the oldest.                        *)
Dequeue_Lifo(w) ==
  LET last == Len(runnable)
  IN  /\ runnable # <<>>
      /\ runnable' = SubSeq(runnable, 1, last - 1)
      /\ state' = [state EXCEPT ![runnable[last]] = "Running"]
      /\ current_task' = [current_task EXCEPT ![w] = runnable[last]]
      /\ pc' = Goto(w, "run")

(* q.runnable.pop_front(), and the switch into the task that follows.      *)
Dequeue(w) ==
  /\ runnable # <<>>
  /\ runnable' = Tail(runnable)
  /\ state' = [state EXCEPT ![Head(runnable)] = "Running"]
  /\ current_task' = [current_task EXCEPT ![w] = Head(runnable)]
  /\ pc' = Goto(w, "run")

(* Mutant: busy workers are forgotten.                                     *)
ShouldTerminate_Busy(idle) ==
  /\ runnable = <<>>
  /\ waiting = {}
  /\ pending_ready = {}

(* Nothing is queued, parked or about to be woken, and every worker counts *)
(* as idle.                                                                *)
ShouldTerminate(idle) ==
  /\ runnable = <<>>
  /\ waiting = {}
  /\ pending_ready = {}
  /\ idle = all_workers

(* Mutant: the worker that terminates tells nobody.                        *)
Shutdown_Silent(w) ==
  /\ pc' = Goto(w, "exit")
  /\ all_workers' = all_workers - 1
  /\ UNCHANGED <<runnable, waiting, pending_ready, current_task, state>>

Shutdown(w) ==
  /\ pc' = NotifyAll(Goto(w, "exit"))
  /\ all_workers' = all_workers - 1
  /\ UNCHANGED <<runnable, waiting, pending_ready, current_task, state>>

-----------------------------------------------------------------------------
(* worker_loop                                                             *)

Register(w) ==
  /\ pc[w] = "start"
  /\ all_workers' = all_workers + 1
  /\ pc' = Goto(w, "pop")
  /\ UNCHANGED <<runnable, waiting, pending_ready, idle_workers,
                 current_task, state, armed, main, session>>

Pop(w) ==
  /\ pc[w] = "pop"
  /\ Dequeue(w)
  /\ UNCHANGED <<waiting, pending_ready, idle_workers, all_workers, armed,
                 main, session>>

(* Mutant: the worker polls first and looks at the queue afterwards.       *)
PopNothing_PollFirst(w) ==
  /\ pc[w] = "pop"
  /\ pc' = Goto(w, "idling")
  /\ UNCHANGED <<queue, current_task, state, armed, main, session>>

(* The queue is empty: the mutex is dropped before the worker polls.       *)
PopNothing(w) ==
  /\ pc[w] = "pop"
  /\ runnable = <<>>
  /\ pc' = Goto(w, "idling")
  /\ UNCHANGED <<queue, current_task, state, armed, main, session>>

(* Mutant: a worker that goes to sleep is not counted.                     *)
GoIdle_Uncounted(w, outside) ==
  /\ pc[w] = "idling"
  /\ \/ ShouldTerminate(idle_workers + 1) /\ ~outside /\ Shutdown(w)
     \/ /\ ~ShouldTerminate(idle_workers + 1) \/ outside
        /\ pc' = Goto(w, "asleep")
        /\ UNCHANGED <<runnable, waiting, pending_ready, all_workers,
                       current_task, state>>
  /\ UNCHANGED <<idle_workers, armed, main, session>>

(* There was nothing to poll for: count as idle, then terminate or wait.   *)
(* "outside" says whether the worker saw a timer or a socket waited for.   *)
GoIdle(w, outside) ==
  /\ pc[w] = "idling"
  /\ idle_workers' = idle_workers + 1
  /\ \/ ShouldTerminate(idle_workers + 1) /\ ~outside /\ Shutdown(w)
     \/ /\ ~ShouldTerminate(idle_workers + 1) \/ outside
        /\ pc' = Goto(w, "asleep")
        /\ UNCHANGED <<runnable, waiting, pending_ready, all_workers,
                       current_task, state>>
  /\ UNCHANGED <<armed, main, session>>

(* condvar.wait returned: stop counting as idle, check termination again,  *)
(* then try to get a task.                                                 *)
WakeUp(w, outside) ==
  /\ pc[w] = "woken"
  /\ idle_workers' = idle_workers - 1
  /\ \/ ShouldTerminate(idle_workers - 1) /\ ~outside /\ Shutdown(w)
     \/ /\ ~ShouldTerminate(idle_workers - 1) \/ outside
        /\ \/ Dequeue(w)
           \/ /\ runnable = <<>>
              /\ pc' = Goto(w, "pop")
              /\ UNCHANGED <<runnable, current_task, state>>
        /\ UNCHANGED <<waiting, pending_ready, all_workers>>
  /\ UNCHANGED <<armed, main, session>>

(* A condition variable may return from wait with no notification.         *)
SpuriousWakeup(w) ==
  /\ SpuriousWakeups
  /\ pc[w] = "asleep"
  /\ pc' = Goto(w, "woken")
  /\ UNCHANGED <<queue, current_task, state, armed, main, session>>

(* The task that switched out goes where its state says.                   *)
SettleDead(w) ==
  /\ state[current_task[w]] = "Dead"
  /\ pc' = Goto(w, "pop")
  /\ UNCHANGED <<runnable, waiting, pending_ready, state>>

(* Mutants: gopark does not look for a pending wake; or it looks, but      *)
(* leaves it behind.                                                       *)
SettleParked_Always(w) ==
  /\ state[current_task[w]] = "Waiting"
  /\ waiting' = waiting \cup {current_task[w]}
  /\ pc' = Goto(w, "pop")
  /\ UNCHANGED <<runnable, pending_ready, state>>

SettleParked_Keeps(w) ==
  LET t == current_task[w]
  IN  /\ state[t] = "Waiting"
      /\ \/ /\ t \in pending_ready
            /\ Enqueue(t)
            /\ pc' \in WakeIdle(Goto(w, "pop"))
            /\ UNCHANGED <<waiting, pending_ready>>
         \/ /\ t \notin pending_ready
            /\ waiting' = waiting \cup {t}
            /\ pc' = Goto(w, "pop")
            /\ UNCHANGED <<runnable, pending_ready, state>>

SettleParked(w) ==
  LET t == current_task[w]
  IN  /\ state[t] = "Waiting"
      /\ \/ /\ t \in pending_ready
            /\ pending_ready' = pending_ready \ {t}
            /\ Enqueue(t)
            /\ IF CommitNotifies THEN pc' \in WakeIdle(Goto(w, "pop"))
                                 ELSE pc' = Goto(w, "pop")
            /\ UNCHANGED waiting
         \/ /\ t \notin pending_ready
            /\ waiting' = waiting \cup {t}
            /\ pc' = Goto(w, "pop")
            /\ UNCHANGED <<runnable, pending_ready, state>>

SettleYielded(w) ==
  /\ state[current_task[w]] = "Running"
  /\ Enqueue(current_task[w])
  /\ pc' = Goto(w, "pop")
  /\ UNCHANGED <<waiting, pending_ready>>

(* Mutant: the task is not taken out of the worker.                        *)
Settle_NotTaken(w) ==
  /\ pc[w] = "switched"
  /\ SettleDead(w) \/ SettleParked(w) \/ SettleYielded(w)
  /\ UNCHANGED <<current_task, idle_workers, all_workers, armed, main, session>>

Settle(w) ==
  /\ pc[w] = "switched"
  /\ SettleDead(w) \/ SettleParked(w) \/ SettleYielded(w)
  /\ current_task' = [current_task EXCEPT ![w] = NoTask]
  /\ UNCHANGED <<idle_workers, all_workers, armed, main, session>>

-----------------------------------------------------------------------------
(* What a running task may do                                              *)

(* gosched: switch out with the state left at Running.                     *)
Gosched(w) ==
  /\ pc[w] = "run"
  /\ pc' = Goto(w, "switched")
  /\ UNCHANGED <<queue, current_task, state, armed, main, session>>

(* task_finished                                                           *)
Finish(w) ==
  /\ pc[w] = "run"
  /\ state' = [state EXCEPT ![current_task[w]] = "Dead"]
  /\ pc' = Goto(w, "switched")
  /\ UNCHANGED <<queue, current_task, armed, main, session>>

(* The client's half of the protocol: leave the id where a waker finds it, *)
(* release whatever lock protected that place, and only then call gopark.  *)
Publish(w) ==
  /\ pc[w] = "run"
  /\ armed' = armed \cup {current_task[w]}
  /\ pc' = Goto(w, "parking")
  /\ UNCHANGED <<queue, current_task, state, main, session>>

Gopark(w) ==
  /\ pc[w] = "parking"
  /\ state' = [state EXCEPT ![current_task[w]] = "Waiting"]
  /\ pc' = Goto(w, "switched")
  /\ UNCHANGED <<queue, current_task, armed, main, session>>

(* Mutant: goready queues the task and leaves it in the waiting map.       *)
ReadyTask_NotRemoved(t, p) ==
  \/ /\ t \in waiting
     /\ Enqueue(t)
     /\ pc' \in WakeIdle(p)
     /\ UNCHANGED <<waiting, pending_ready>>
  \/ /\ t \notin waiting
     /\ pending_ready' = pending_ready \cup {t}
     /\ pc' = p
     /\ UNCHANGED <<waiting, state, runnable>>

(* goready(t), called with the threads standing at p.                      *)
ReadyTask(t, p) ==
  \/ /\ t \in waiting
     /\ waiting' = waiting \ {t}
     /\ Enqueue(t)
     /\ pc' \in WakeIdle(p)
     /\ UNCHANGED pending_ready
  \/ /\ t \notin waiting
     /\ pending_ready' = pending_ready \cup {t}
     /\ pc' = p
     /\ UNCHANGED <<waiting, state, runnable>>

(* A running task took a published id and passes it to goready.            *)
Goready(w, t) ==
  /\ pc[w] = "run"
  /\ t \in armed
  /\ armed' = armed \ {t}
  /\ ReadyTask(t, pc)
  /\ UNCHANGED <<idle_workers, all_workers, current_task, main, session>>

(* go(t), from a task or from main: create the task and queue it.          *)
CreateTask(t) ==
  /\ state[t] = "New"
  /\ Enqueue(t)
  /\ pc' \in WakeIdle(pc)
  /\ UNCHANGED <<waiting, pending_ready, idle_workers, all_workers,
                 current_task, armed, main, session>>

Submitted(t) == \E i \in DOMAIN Batches : t \in Batches[i]

Go(w, t) ==
  /\ pc[w] = "run"
  /\ ~Submitted(t)
  /\ CreateTask(t)

(* Mutant: no worker takes the place of the one that blocks.               *)
EnterBlocking_NoSpawn(w) ==
  /\ pc[w] = "run"
  /\ pc' = Goto(w, "blocking")
  /\ UNCHANGED <<queue, current_task, state, armed, main, session>>

(* enter_blocking reads the queue under the mutex, releases it, and only   *)
(* then spawns a worker.                                                   *)
EnterBlocking(w) ==
  LET should_spawn == runnable # <<>> /\ idle_workers = 0
  IN  /\ pc[w] = "run"
      /\ should_spawn => Cardinality(In({"spawning"})) < Cardinality(In({"none"}))
      /\ pc' = Goto(w, IF should_spawn THEN "spawning" ELSE "blocking")
      /\ UNCHANGED <<queue, current_task, state, armed, main, session>>

SpawnWorker(w) ==
  /\ pc[w] = "spawning"
  /\ \E s \in Spares :
       /\ pc[s] = "none"
       /\ pc' = [pc EXCEPT ![s] = "start", ![w] = "blocking"]
  /\ UNCHANGED <<queue, current_task, state, armed, main, session>>

(* The blocking system call returns to the task.                           *)
LeaveBlocking(w) ==
  /\ pc[w] = "blocking"
  /\ pc' = Goto(w, "run")
  /\ UNCHANGED <<queue, current_task, state, armed, main, session>>

-----------------------------------------------------------------------------
(* The main thread: go for each task of the batch, start_runtime, join.    *)

Submit(t) ==
  /\ main = "submit"
  /\ t \in Batches[session]
  /\ CreateTask(t)

StartRuntime ==
  /\ main = "submit"
  /\ \A t \in Batches[session] : state[t] # "New"
  /\ main' = "join"
  /\ pc' = [w \in Threads |-> IF w \in Workers THEN "start" ELSE pc[w]]
  /\ UNCHANGED <<queue, current_task, state, armed, session>>

(* start_runtime returns once the threads it started have been joined.     *)
Join ==
  /\ main = "join"
  /\ \A w \in Workers : pc[w] = "exit"
  /\ IF session < Len(Batches)
     THEN main' = "submit" /\ session' = session + 1
     ELSE main' = "done" /\ UNCHANGED session
  /\ UNCHANGED <<queue, current_task, state, pc, armed>>

-----------------------------------------------------------------------------

Init ==
  /\ runnable = <<>>
  /\ waiting = {}
  /\ pending_ready = {}
  /\ idle_workers = 0
  /\ all_workers = 0
  /\ current_task = [w \in Threads |-> NoTask]
  /\ state = [t \in Tasks |-> "New"]
  /\ pc = [w \in Threads |-> "none"]
  /\ armed = {}
  /\ main = "submit"
  /\ session = 1

(* Steps of the loop; they wait for nothing but the mutex.                 *)
WorkerStep(w) ==
  \/ Register(w) \/ Pop(w) \/ PopNothing(w)
  \/ GoIdle(w, FALSE) \/ WakeUp(w, FALSE)
  \/ Settle(w) \/ Gopark(w) \/ SpawnWorker(w) \/ LeaveBlocking(w)

(* Steps that take a running task off its worker.                          *)
LeaveStep(w) == Gosched(w) \/ Publish(w) \/ Finish(w)

TaskStep(w) ==
  \/ LeaveStep(w)
  \/ EnterBlocking(w)
  \/ \E t \in Tasks : Go(w, t) \/ Goready(w, t)

MainStep == StartRuntime \/ Join \/ \E t \in Tasks : Submit(t)

Next ==
  \/ \E w \in Threads : WorkerStep(w) \/ TaskStep(w) \/ SpuriousWakeup(w)
  \/ MainStep

Spec == Init /\ [][Next]_vars

(* Every thread is scheduled by the operating system, blocking calls       *)
(* return, spurious wakeups come to an end, and no task keeps its worker   *)
(* for ever: scheduling is cooperative, so the runtime cannot take the     *)
(* worker back.                                                            *)
Fairness ==
  /\ WF_vars(MainStep)
  /\ <>[][\A w \in Threads : ~SpuriousWakeup(w)]_vars
  /\ \A w \in Threads : WF_vars(WorkerStep(w)) /\ SF_vars(LeaveStep(w))

FairSpec == Spec /\ Fairness

-----------------------------------------------------------------------------
(* Properties                                                              *)

Queued   == {runnable[i] : i \in DOMAIN runnable}
Held     == {current_task[w] : w \in Threads} \ {NoTask}

(* The shape of the state, and what a thread holds at each point of the    *)
(* loop.                                                                   *)
Shape ==
  /\ runnable \in Seq(Tasks)
  /\ waiting \in SUBSET Tasks
  /\ pending_ready \in SUBSET Tasks
  /\ idle_workers \in Int
  /\ all_workers \in Int
  /\ current_task \in [Threads -> Tasks \cup {NoTask}]
  /\ state \in [Tasks -> {"New", "Runnable", "Running", "Waiting", "Dead"}]
  /\ pc \in [Threads -> PC]
  /\ armed \in SUBSET Tasks
  /\ main \in {"submit", "join", "done"}
  /\ session \in DOMAIN Batches
  /\ \A w \in Threads :
       /\ pc[w] \in Holding <=> current_task[w] # NoTask
       /\ pc[w] \in Holding \ {"switched"} => state[current_task[w]] = "Running"

(* The state has its shape, and no decrement of the two usize counters goes *)
(* below zero, although the worker that shuts down leaves its place in      *)
(* idle_workers behind (channel.rs:87-90, 142-149, 163).                    *)
TypeOK == Shape /\ idle_workers >= 0 /\ all_workers >= 0

(* Every task is in exactly one place: queued once, in the waiting map, or *)
(* on one worker, and its state says which.  A task that goready, go or    *)
(* the worker loop queued twice would run on two workers with one stack    *)
(* (channel.rs:188-230, 283-295, 341-342).                                 *)
OnePlace ==
  /\ \A i, j \in DOMAIN runnable : runnable[i] = runnable[j] => i = j
  /\ \A v, w \in Threads :
       current_task[v] = current_task[w] /\ current_task[v] # NoTask => v = w
  /\ \A t \in Tasks :
       /\ t \in Queued <=> state[t] = "Runnable"
       /\ state[t] = "Running" => t \in Held
       /\ state[t] = "Waiting" => t \in waiting \cup Held
       /\ t \in waiting => state[t] = "Waiting"
       /\ t \in Held => state[t] \in {"Running", "Waiting", "Dead"}
       /\ ~(t \in waiting /\ t \in Held)

(* The status of a task in the contract.                                   *)
OnWayToSleep(t) ==
  \E w \in Threads :
    /\ current_task[w] = t
    /\ pc[w] = "parking" \/ (pc[w] = "switched" /\ state[t] = "Waiting")

ContractStatus(t) ==
  CASE state[t] = "New"      -> "new"
    [] state[t] = "Runnable" -> "runnable"
    [] state[t] = "Dead"     -> "dead"
    [] t \in waiting         -> "waiting"
    [] OnWayToSleep(t)       -> "parking"
    [] OTHER                 -> "running"

Contract == INSTANCE ParkContract
              WITH status <- [t \in Tasks |-> ContractStatus(t)],
                   token  <- pending_ready

(* The scheduler implements the contract of gopark and goready.            *)
ImplementsContract == Contract!Spec

(* Exactly one wake is outstanding for a task that waits or is about to    *)
(* (channel.rs:82-86): the id still lies with a waker or is in             *)
(* pending_ready, never both and never neither.                            *)
OneWakeEach ==
  /\ armed \cap pending_ready = {}
  /\ waiting \cap pending_ready = {}
  /\ \A t \in Tasks :
       t \in armed \cup pending_ready <=> t \in waiting \/ OnWayToSleep(t)

(* Queued tasks are never stranded: while runnable is not empty, some      *)
(* thread is on its way back to the queue without having to be notified    *)
(* and without waiting for a blocking call, although goready and go notify *)
(* nobody when idle_workers is 0 and a worker that saw an empty queue      *)
(* still goes to sleep (channel.rs:130-162); or every such thread is in a  *)
(* blocking call and idle_workers kept enter_blocking from adding another  *)
(* one, after it had released the mutex (channel.rs:391-404).              *)
OnTheWay == {"start", "pop", "woken"} \cup (Holding \ {"blocking"})

NoStrandedWork ==
  runnable # <<>> =>
    \/ main = "submit"
    \/ In(OnTheWay) # {}
    \/ In({"blocking"}) # {} /\ idle_workers > 0

(* Until main starts the runtime a second time, a worker shuts down only   *)
(* when every task is dead (channel.rs:95-107, 147-159).                   *)
ShutdownMeansDone ==
  session = 1 /\ In({"exit"}) # {} => \A t \in Tasks : state[t] \in {"New", "Dead"}

(* A queued task gets a worker.                                            *)
RunnableRuns ==
  \A t \in Tasks : state[t] = "Runnable" ~> state[t] = "Running"

AllDone == main = "join" /\ \A t \in Tasks : state[t] \in {"New", "Dead"}

(* The shutdown handshake: once every task is done and every started       *)
(* thread has registered before the first one leaves, the one that detects *)
(* it wakes the others and start_runtime returns (channel.rs:147-159, 162).*)
RegisteredWorkersLeave ==
  (session = 1 /\ AllDone /\ In({"start", "exit"}) = {}) ~> main # "join"

(* "Start the runtime and run until all tasks complete" (channel.rs:357):  *)
(* when all tasks are complete, start_runtime returns.                     *)
StartRuntimeReturns == AllDone ~> main # "join"
=============================================================================
