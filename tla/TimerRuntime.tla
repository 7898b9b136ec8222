---------------------------- MODULE TimerRuntime ----------------------------
(***************************************************************************)
(* The poller of src/src/runtime/timer.rs, on the scheduler of Scheduler:  *)
(* sleep and its heap of timers, net_poll_read and the poller of           *)
(* src/src/netpoll, and the worker that polls for both while the others    *)
(* wait.  channel.rs has the same code.                                    *)
(*                                                                         *)
(* One action is one atomic operation on POLLING, one critical section of  *)
(* the queue, the heap or waiting_fds, or one system call.  A task has one *)
(* socket, which stands for its file descriptor.  Time is the set of       *)
(* timers that are due.                                                    *)
(***************************************************************************)
EXTENDS Integers, Sequences, FiniteSets

CONSTANTS
  Tasks, Batches, Workers, Spares, CommitNotifies, SpuriousWakeups, NoTask,
  Sleepers,        \* the tasks that call sleep
  Readers,         \* the tasks that call net_poll_read
  Yielders,        \* the tasks that call gosched
  Blockers,        \* the tasks that call the functions of io
  OneShot          \* kqueue reports a registration once (EV_ONESHOT), epoll
                   \* for as long as there is something to read

ASSUME TimerAssumption ==
  /\ Batches \in Seq(SUBSET Tasks)
  /\ Batches # <<>>
  /\ IsFiniteSet(Workers \cup Spares)
  /\ Workers # {}
  /\ Workers \cap Spares = {}
  /\ {CommitNotifies, SpuriousWakeups, OneShot} \subseteq BOOLEAN
  /\ NoTask \notin Tasks
  /\ Sleepers \cup Readers \cup Yielders \cup Blockers \subseteq Tasks

VARIABLES
  runnable, waiting, pending_ready, idle_workers, all_workers, current_task,
  state, pc, main, session,      \* as in Scheduler
  polling,                       \* POLLING
  timers,                        \* the tasks in TIMER_HEAP
  due,                           \* the tasks whose last wake_time has come
  watched,                       \* the sockets registered with the kernel
  fds,                           \* keys of NetPoller.waiting_fds
  readable,                      \* the sockets with something to read
  local                          \* what a thread remembers while it polls

sched  == <<runnable, waiting, pending_ready, idle_workers, all_workers,
            current_task, state, main, session>>
poller == <<polling, timers, due, watched, fds, readable, local>>
vars   == <<sched, pc, poller>>

Threads == Workers \cup Spares

(* has_net_waiters and has_timer_waiters, the "now" of check_timers, the   *)
(* entry it has popped, the events of the kernel and the ready tasks.      *)
NoLocals == [net |-> FALSE, timer |-> FALSE, now |-> {}, popped |-> NoTask,
             events |-> {}, ready |-> {}]

Popped == {local[w].popped : w \in Threads} \ {NoTask}

(* The ids that are with a waker.                                          *)
Armed == timers \cup Popped \cup fds

S == INSTANCE Scheduler WITH armed <- Armed

Polling == {"look", "look2", "unclaim", "check1", "fire1", "giveup", "wait",
            "map", "check2", "fire2", "release"}

Set(w, field, value) == local' = [local EXCEPT ![w][field] = value]

(* A step of one thread that leaves the queue alone.                       *)
Step(w, from, to) ==
  /\ pc[w] = from
  /\ pc' = S!Goto(w, to)
  /\ UNCHANGED sched

-----------------------------------------------------------------------------
(* try_poll_network                                                        *)

PopNothing(w) ==
  /\ Step(w, "pop", "poll")
  /\ runnable = <<>>
  /\ UNCHANGED poller

(* Mutant: POLLING is set without looking at it.                           *)
Claim_Blind(w) ==
  /\ Step(w, "poll", "look")
  /\ polling' = TRUE
  /\ UNCHANGED <<timers, due, watched, fds, readable, local>>

(* compare_exchange: whoever turns POLLING on is the poller.               *)
Claim(w) ==
  /\ \/ polling /\ Step(w, "poll", "observe") /\ UNCHANGED polling
     \/ ~polling /\ Step(w, "poll", "look") /\ polling' = TRUE
  /\ UNCHANGED <<timers, due, watched, fds, readable, local>>

LookForNet(w) ==
  /\ Step(w, "look", "look2")
  /\ Set(w, "net", fds # {})
  /\ UNCHANGED <<polling, timers, due, watched, fds, readable>>

(* Mutants: only one of the two kinds of waiters keeps the poller.         *)
LookForTimers_NetOnly(w) ==
  /\ \/ /\ ~local[w].net
        /\ Step(w, "look2", "unclaim")
        /\ UNCHANGED local
     \/ /\ local[w].net
        /\ Step(w, "look2", "check1")
        /\ Set(w, "now", due)
  /\ UNCHANGED <<polling, timers, due, watched, fds, readable>>

LookForTimers_TimersOnly(w) ==
  /\ \/ /\ timers = {}
        /\ Step(w, "look2", "unclaim")
        /\ UNCHANGED local
     \/ /\ timers # {}
        /\ Step(w, "look2", "check1")
        /\ Set(w, "now", due)
  /\ UNCHANGED <<polling, timers, due, watched, fds, readable>>

(* With nothing to poll for, POLLING is turned off again; otherwise the    *)
(* poller reads the clock for its first check_timers.                      *)
LookForTimers(w) ==
  /\ \/ /\ ~local[w].net /\ timers = {}
        /\ Step(w, "look2", "unclaim")
        /\ UNCHANGED local
     \/ /\ local[w].net \/ timers # {}
        /\ Step(w, "look2", "check1")
        /\ Set(w, "now", due)
  /\ UNCHANGED <<polling, timers, due, watched, fds, readable>>

(* Mutants: the entry stays in the heap; the clock is not looked at.       *)
PopTimer_Peek(w) ==
  /\ \/ Step(w, "check1", "fire1")
     \/ Step(w, "check2", "fire2")
  /\ \E t \in timers \cap local[w].now : Set(w, "popped", t)
  /\ UNCHANGED <<polling, timers, due, watched, fds, readable>>

PopTimer_Unexpired(w) ==
  /\ \/ Step(w, "check1", "fire1")
     \/ Step(w, "check2", "fire2")
  /\ \E t \in timers :
       /\ timers' = timers \ {t}
       /\ Set(w, "popped", t)
  /\ UNCHANGED <<polling, due, watched, fds, readable>>

(* check_timers pops an expired entry and releases the heap ...            *)
PopTimer(w) ==
  /\ \/ Step(w, "check1", "fire1")
     \/ Step(w, "check2", "fire2")
  /\ \E t \in timers \cap local[w].now :
       /\ timers' = timers \ {t}
       /\ Set(w, "popped", t)
  /\ UNCHANGED <<polling, due, watched, fds, readable>>

(* ... to call goready.                                                    *)
FireTimer(w) ==
  /\ \/ pc[w] = "fire1" /\ S!ReadyTask(local[w].popped, S!Goto(w, "check1"))
     \/ pc[w] = "fire2" /\ S!ReadyTask(local[w].popped, S!Goto(w, "check2"))
  /\ Set(w, "popped", NoTask)
  /\ UNCHANGED <<idle_workers, all_workers, current_task, main, session,
                 polling, timers, due, watched, fds, readable>>

(* No expired entry is left: wait for the next one, or for the network; or *)
(* return true if there is neither.                                        *)
FirstCheckDone(w) ==
  /\ timers \cap local[w].now = {}
  /\ \/ timers = {} /\ ~local[w].net /\ Step(w, "check1", "giveup")
     \/ (timers # {} \/ local[w].net) /\ Step(w, "check1", "wait")
  /\ UNCHANGED poller

(* Mutant: epoll, too, forgets a socket it has reported.                   *)
WaitOver_Forgets(w) ==
  /\ \/ /\ ~local[w].net
        /\ Step(w, "wait", "check2")
        /\ Set(w, "now", due)
        /\ UNCHANGED watched
     \/ /\ local[w].net
        /\ Step(w, "wait", "map")
        /\ \E reported \in {{}, watched \cap readable} :
             /\ Set(w, "events", reported)
             /\ watched' = watched \ reported
  /\ UNCHANGED <<polling, timers, due, fds, readable>>

(* The end of thread::sleep, or of epoll_wait (kevent), which reports the  *)
(* sockets that can be read or times out.                                  *)
WaitOver(w) ==
  /\ \/ /\ ~local[w].net
        /\ Step(w, "wait", "check2")
        /\ Set(w, "now", due)
        /\ UNCHANGED watched
     \/ /\ local[w].net
        /\ Step(w, "wait", "map")
        /\ \E reported \in {{}, watched \cap readable} :
             /\ Set(w, "events", reported)
             /\ watched' = IF OneShot THEN watched \ reported ELSE watched
  /\ UNCHANGED <<polling, timers, due, fds, readable>>

(* NetPoller::poll looks up who waits for the reported sockets; the second *)
(* check_timers reads the clock.                                           *)
MapEvents(w) ==
  /\ Step(w, "map", "check2")
  /\ local' = [local EXCEPT ![w].ready = local[w].events \cap fds,
                            ![w].events = {},
                            ![w].now = due]
  /\ UNCHANGED <<polling, timers, due, watched, fds, readable>>

SecondCheckDone(w) ==
  /\ timers \cap local[w].now = {}
  /\ Step(w, "check2", "release")
  /\ UNCHANGED poller

(* POLLING.store(false)                                                    *)
Release(w) ==
  /\ \/ Step(w, "unclaim", "observe")
     \/ Step(w, "giveup", "pop")
     \/ Step(w, "release", "deliver")
  /\ polling' = FALSE
  /\ UNCHANGED <<timers, due, watched, fds, readable, local>>

(* goready for one ready task after the other, then true is returned.      *)
Deliver(w) ==
  /\ \/ /\ pc[w] = "deliver"
        /\ \E t \in local[w].ready :
             /\ S!ReadyTask(t, pc)
             /\ Set(w, "ready", local[w].ready \ {t})
        /\ UNCHANGED <<idle_workers, all_workers, current_task, main, session>>
     \/ /\ local[w].ready = {}
        /\ Step(w, "deliver", "pop")
        /\ local' = [local EXCEPT ![w] = NoLocals]
  /\ UNCHANGED <<polling, timers, due, watched, fds, readable>>

(* try_poll_network returned false: look for waiters once more, without    *)
(* the queue's mutex, then go idle.                                        *)
ObserveNet(w) ==
  /\ Step(w, "observe", "observe2")
  /\ Set(w, "net", fds # {})
  /\ UNCHANGED <<polling, timers, due, watched, fds, readable>>

ObserveTimers(w) ==
  /\ Step(w, "observe2", "idling")
  /\ Set(w, "timer", timers # {})
  /\ UNCHANGED <<polling, timers, due, watched, fds, readable>>

GoIdle(w) ==
  /\ local' = [local EXCEPT ![w] = NoLocals]
  /\ UNCHANGED <<polling, timers, due, watched, fds, readable>>
  /\ S!GoIdle(w, local[w].net \/ local[w].timer)

WakeUp(w) ==
  /\ UNCHANGED poller
  /\ S!WakeUp(w, fds # {} \/ timers # {})

-----------------------------------------------------------------------------
(* What a running task may do                                              *)

(* The task runs its own code, not the end of net_poll_read.               *)
InCode(w) == pc[w] = "run" /\ current_task[w] \notin watched \cup fds

(* The new wake_time is later than any clock reading taken so far.         *)
(* Bound: a task has at most one entry in the heap.                        *)
Sleep(w) ==
  LET t == current_task[w]
  IN  /\ InCode(w)
      /\ t \in Sleepers \ (timers \cup Popped)
      /\ timers' = timers \cup {t}
      /\ due' = due \ {t}
      /\ local' = [v \in Threads |-> [local[v] EXCEPT !.now = @ \ {t}]]
      /\ Step(w, "run", "parking")
      /\ UNCHANGED <<polling, watched, fds, readable>>

(* net_poll_read: tell the kernel, then file the task id, then park ...    *)
RegisterRead(w) ==
  /\ InCode(w)
  /\ current_task[w] \in Readers
  /\ watched' = watched \cup {current_task[w]}
  /\ Step(w, "run", "registering")
  /\ UNCHANGED <<polling, timers, due, fds, readable, local>>

FileRead(w) ==
  /\ Step(w, "registering", "parking")
  /\ fds' = fds \cup {current_task[w]}
  /\ UNCHANGED <<polling, timers, due, watched, readable, local>>

(* ... and undo both; the task then reads what there is.                   *)
Unregister(w) ==
  /\ pc[w] = "run"
  /\ current_task[w] \in watched
  /\ watched' = watched \ {current_task[w]}
  /\ UNCHANGED <<sched, pc, polling, timers, due, fds, readable, local>>

Unfile(w) ==
  /\ pc[w] = "run"
  /\ current_task[w] \in fds \ watched
  /\ fds' = fds \ {current_task[w]}
  /\ readable' = readable \ {current_task[w]}
  /\ UNCHANGED <<sched, pc, polling, timers, due, watched, local>>

Gosched(w) ==
  /\ InCode(w)
  /\ current_task[w] \in Yielders
  /\ UNCHANGED poller
  /\ S!Gosched(w)

Finish(w) ==
  /\ InCode(w)
  /\ UNCHANGED poller
  /\ S!Finish(w)

Go(w, t) ==
  /\ InCode(w)
  /\ UNCHANGED poller
  /\ S!Go(w, t)

EnterBlocking(w) ==
  /\ InCode(w)
  /\ current_task[w] \in Blockers
  /\ UNCHANGED poller
  /\ S!EnterBlocking(w)

-----------------------------------------------------------------------------

(* The clock reaches a wake_time.                                          *)
Expire(t) ==
  /\ t \notin due
  /\ due' = due \cup {t}
  /\ UNCHANGED <<sched, pc, polling, timers, watched, fds, readable, local>>

(* Data arrives for a socket.  Data that came before the registration is   *)
(* reported as if it came with it.                                         *)
DataArrives(t) ==
  /\ t \in watched \ readable
  /\ readable' = readable \cup {t}
  /\ UNCHANGED <<sched, pc, polling, timers, due, watched, fds, local>>

Init ==
  /\ polling = FALSE
  /\ timers = {}
  /\ due = Tasks
  /\ watched = {}
  /\ fds = {}
  /\ readable = {}
  /\ local = [w \in Threads |-> NoLocals]
  /\ S!Init

PollStep(w) ==
  \/ Claim(w) \/ LookForNet(w) \/ LookForTimers(w) \/ PopTimer(w)
  \/ FireTimer(w) \/ FirstCheckDone(w) \/ WaitOver(w) \/ MapEvents(w)
  \/ SecondCheckDone(w) \/ Release(w) \/ Deliver(w)

WorkerStep(w) ==
  \/ PopNothing(w) \/ PollStep(w) \/ ObserveNet(w) \/ ObserveTimers(w)
  \/ GoIdle(w) \/ WakeUp(w) \/ FileRead(w) \/ Unregister(w) \/ Unfile(w)
  \/ /\ UNCHANGED poller
     /\ \/ S!Register(w) \/ S!Pop(w) \/ S!Settle(w) \/ S!Gopark(w)
        \/ S!SpawnWorker(w) \/ S!LeaveBlocking(w)

LeaveStep(w) == Sleep(w) \/ RegisterRead(w) \/ Finish(w) \/ Gosched(w)

MainStep == UNCHANGED poller /\ S!MainStep

Next ==
  \/ \E w \in Threads :
       \/ WorkerStep(w) \/ LeaveStep(w) \/ EnterBlocking(w)
       \/ \E t \in Tasks : Go(w, t)
  \/ \E w \in Threads : UNCHANGED poller /\ S!SpuriousWakeup(w)
  \/ \E t \in Tasks : Expire(t) \/ DataArrives(t)
  \/ MainStep

Spec == Init /\ [][Next]_vars

(* As in Scheduler, and the clock goes on.  Nobody promises that data      *)
(* arrives, nor that a wait ends by a report rather than by its timeout,   *)
(* but a socket that stays readable is reported in the end.                *)
FairSpec ==
  /\ Spec
  /\ WF_vars(MainStep)
  /\ \A t \in Tasks : WF_vars(Expire(t))
  /\ \A w \in Threads :
       /\ WF_vars(WorkerStep(w))
       /\ SF_vars(LeaveStep(w))
       /\ SF_vars(WaitOver(w) /\ watched \cap readable \subseteq local'[w].events)

-----------------------------------------------------------------------------
(* Properties                                                              *)

Holding == S!Holding \cup {"registering"}

TypeOK ==
  /\ runnable \in Seq(Tasks)
  /\ waiting \in SUBSET Tasks
  /\ pending_ready \in SUBSET Tasks
  /\ idle_workers \in Nat
  /\ all_workers \in Nat
  /\ current_task \in [Threads -> Tasks \cup {NoTask}]
  /\ state \in [Tasks -> {"New", "Runnable", "Running", "Waiting", "Dead"}]
  /\ pc \in [Threads -> S!PC \cup Polling
                          \cup {"poll", "deliver", "observe", "observe2", "registering"}]
  /\ \A w \in Threads : pc[w] \in Holding <=> current_task[w] # NoTask
  /\ polling \in BOOLEAN
  /\ timers \in SUBSET Sleepers
  /\ due \in SUBSET Tasks
  /\ watched \in SUBSET Readers
  /\ fds \in SUBSET Readers
  /\ readable \in SUBSET Readers
  /\ local \in [Threads -> [net : BOOLEAN, timer : BOOLEAN, now : SUBSET Tasks,
                            popped : Tasks \cup {NoTask}, events : SUBSET Tasks,
                            ready : SUBSET Tasks]]

(* "only one worker can poll at a time" (timer.rs:544): POLLING is on      *)
(* exactly while one thread is between its compare_exchange and its store. *)
OnePoller ==
  /\ polling <=> S!In(Polling) # {}
  /\ \A v, w \in S!In(Polling) : v = w

(* A sleeping task is woken exactly once by its timer, whatever the poller *)
(* does to the others: the tasks that never read keep the whole contract   *)
(* of gopark and goready (timer.rs:82-85, 253-263, 495-513).               *)
OnlySleep == Tasks \ Readers

SleepContract == INSTANCE ParkContract
                   WITH Tasks  <- OnlySleep,
                        status <- [t \in OnlySleep |-> S!ContractStatus(t)],
                        armed  <- Armed \cap OnlySleep,
                        token  <- pending_ready \cap OnlySleep

TimersKeepContract == SleepContract!Spec

(* "wakes it up after the duration has elapsed" (timer.rs:251): a task     *)
(* that has called sleep does not run again before its wake_time.          *)
SleepNotEarly ==
  \A w \in Threads : pc[w] = "run" => current_task[w] \in due

(* Among the tasks that never read, that is: a stale report of a socket is *)
(* never taken for the wake of another task.                               *)
SleepersNotEarly ==
  \A w \in Threads :
    pc[w] = "run" /\ current_task[w] \in OnlySleep => current_task[w] \in due

(* No worker leaves while a task sleeps or waits for the network, although *)
(* has_timers and has_waiters are read outside the queue's mutex           *)
(* (timer.rs:137-158).                                                     *)
ShutdownMeansDone == S!ShutdownMeansDone

(* A task parked for its socket has not been forgotten: the kernel still   *)
(* watches the socket, or its report is on the way to the task             *)
(* (timer.rs:523-539).                                                     *)
NoLostReport ==
  \A t \in fds :
    state[t] = "Waiting" =>
      t \in watched \cup pending_ready
             \cup UNION {local[w].events \cup local[w].ready : w \in Threads}

(* A sleeping task wakes up.                                               *)
SleepersWake ==
  \A t \in Sleepers : t \in timers ~> (t \notin timers /\ state[t] = "Running")

(* "Parks the current task until the fd is ready for reading"              *)
(* (timer.rs:525): once it is, the task runs.                              *)
ReadersWake ==
  \A t \in Readers : t \in fds \cap readable ~> state[t] = "Running"
=============================================================================
