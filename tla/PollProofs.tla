----------------------------- MODULE PollProofs ------------------------------
(***************************************************************************)
(* The runtime of poll.rs, for any tasks, readers and numbers of workers:  *)
(* the state keeps its types, one worker polls, the counters are what they *)
(* are for, and no worker leaves before the work is done.                  *)
(***************************************************************************)
EXTENDS PollRuntime, SeqLemmas, FiniteSetTheorems

Out        == {"none", "start", "exit"}
Dozing     == {"asleep", "woken"}
Dozers     == In(Dozing)
Registered == In(PC \ Out)
Spawning   == In({"spawning"})
Busy       == In(Holding)
Left       == In({"exit"})
Queued     == Range(runnable)
Held       == {current_task[w] : w \in Threads}

(* Types, and what a thread holds at each point of the loop.               *)
Types ==
  /\ runnable \in Seq(Tasks)
  /\ waiting \in SUBSET Tasks
  /\ next_worker_id \in Nat
  /\ current_task \in [Threads -> Tasks \cup {NoTask}]
  /\ state \in [Tasks -> TaskState]
  /\ pc \in [Threads -> PC]
  /\ \A w \in Threads : pc[w] \in Holding <=> current_task[w] # NoTask
  /\ \A w \in Threads : pc[w] = "registering" => current_task[w] \in Readers
  /\ main \in {"submit", "join", "done"}
  /\ num_threads \in 1 .. MaxWorkers
  /\ watched \in SUBSET Readers
  /\ fds \in SUBSET Readers
  /\ readable \in SUBSET Readers
  /\ ready \in [Threads -> SUBSET Readers]

(* POLLING belongs to one thread at most.                                  *)
OnePoller ==
  /\ polling \in BOOLEAN
  /\ polling <=> In(Polling) # {}
  /\ \A v, w \in In(Polling) : v = w

(* The counters count (poll.rs:83-88).                                     *)
Counted ==
  /\ idle_workers = Cardinality(Dozers)
  /\ all_workers = Cardinality(Registered)

(* Ids are handed out in order, and there is one for every thread that is  *)
(* about to be started.                                                    *)
Ids ==
  /\ \A w \in Threads : w >= next_worker_id => pc[w] = "none"
  /\ next_worker_id + Cardinality(Spawning) <= MaxThreads
  /\ main = "submit" => \A w \in Threads : pc[w] = "none"

Machine == OnePoller /\ Counted /\ Ids

(* A live task is queued, parked or on a thread.                           *)
Live ==
  \A t \in Tasks :
    /\ state[t] = "Runnable" => t \in Queued
    /\ state[t] = "Running" => t \in Held
    /\ state[t] = "Waiting" => t \in waiting \cup Held

(* Once a worker has left nothing is left to do.                           *)
Quiet ==
  Left # {} =>
    /\ Busy = {}
    /\ runnable = <<>> /\ waiting = {}
    /\ main # "submit"
    /\ \A t \in Tasks : state[t] \in {"New", "Dead"}

IInv == Types /\ Machine /\ Live /\ Quiet

(* A thread is moved by nobody but notify.                                 *)
Nudged(p, q, v) == q[v] = p[v] \/ (p[v] = "asleep" /\ q[v] = "woken")

(* Who is at one of the positions S does not change.                       *)
Agree(S) == \A v \in Threads : pc'[v] \in S <=> pc[v] \in S

(* The positions that no counter, flag or id depends on.                   *)
Plain == PC \ (Out \cup Dozing \cup Polling \cup {"spawning"})

-----------------------------------------------------------------------------

LEMMA ThreadsFinite ==
  /\ IsFiniteSet(Threads)
  /\ IsFiniteSet(Dozers) /\ Cardinality(Dozers) \in Nat
  /\ IsFiniteSet(Registered) /\ Cardinality(Registered) \in Nat
  /\ IsFiniteSet(Spawning) /\ Cardinality(Spawning) \in Nat
<1>1. IsFiniteSet(Threads)
  BY FS_Interval, PollAssumption DEF Threads
<1>2. /\ Dozers \in SUBSET Threads /\ Registered \in SUBSET Threads
      /\ Spawning \in SUBSET Threads
  BY DEF Dozers, Registered, Spawning, In
<1> QED
  BY <1>1, <1>2, FS_Subset, FS_CardinalityType

LEMMA WakeIdleNudges ==
  ASSUME NEW p \in [Threads -> PC], NEW q \in WakeIdle(p)
  PROVE  q \in [Threads -> PC] /\ \A v \in Threads : Nudged(p, q, v)
<1>1. q = p \/ \E w \in Threads : p[w] = "asleep" /\ q = [p EXCEPT ![w] = "woken"]
  BY DEF WakeIdle, NotifyOne
<1>2. CASE q = p
  BY <1>2 DEF Nudged
<1>3. CASE \E w \in Threads : p[w] = "asleep" /\ q = [p EXCEPT ![w] = "woken"]
  BY <1>3 DEF Nudged, PC
<1> QED
  BY <1>1, <1>2, <1>3

LEMMA PollInit == Init => IInv
<1> SUFFICES ASSUME Init PROVE IInv
  OBVIOUS
<1>1. Types
  BY PollAssumption DEF Init, Types, PC, TaskState, Holding
<1>2. \A w \in Threads : pc[w] = "none"
  BY DEF Init
<1>3. /\ Dozers = {} /\ Registered = {} /\ Spawning = {} /\ Left = {}
      /\ In(Polling) = {}
  BY <1>2 DEF Dozers, Dozing, Registered, Out, Spawning, Left, In, Polling
<1>4. Machine
  <2>1. OnePoller
    BY <1>3 DEF Init, OnePoller
  <2>2. Counted
    BY <1>3, FS_EmptySet DEF Init, Counted
  <2>3. Ids
    BY <1>2, <1>3, FS_EmptySet, PollAssumption DEF Init, Ids
  <2> QED
    BY <2>1, <2>2, <2>3 DEF Machine
<1>5. Live /\ Quiet
  BY <1>3 DEF Init, Live, Quiet
<1> QED
  BY <1>1, <1>4, <1>5 DEF IInv

-----------------------------------------------------------------------------
(* Types                                                                   *)

LEMMA DequeueTypes ==
  ASSUME Types, NEW w \in Threads, pc[w] \in {"pop", "woken"}, Dequeue(w)
  PROVE  /\ runnable' \in Seq(Tasks)
         /\ current_task' \in [Threads -> Tasks \cup {NoTask}]
         /\ state' \in [Tasks -> TaskState]
         /\ pc' \in [Threads -> PC]
         /\ \A v \in Threads :
              /\ pc'[v] \in Holding <=> current_task'[v] # NoTask
              /\ pc'[v] = "registering" => current_task'[v] \in Readers
<1>1. Head(runnable) \in Tasks /\ Tail(runnable) \in Seq(Tasks)
  BY ListTail DEF Types, Dequeue
<1> QED
  BY <1>1, PollAssumption DEF Types, Dequeue, Goto, PC, Holding, TaskState

LEMMA ShutdownTypes ==
  ASSUME Types, NEW w \in Threads, pc[w] \in {"pop", "woken"}, Shutdown(w)
  PROVE  /\ pc' \in [Threads -> PC]
         /\ pc'[w] = "exit"
         /\ \A v \in Threads \ {w} : Nudged(pc, pc', v)
BY DEF Types, Shutdown, NotifyAll, Goto, PC, Nudged

LEMMA NudgedHolding ==
  ASSUME Types, pc' \in [Threads -> PC], \A v \in Threads : Nudged(pc, pc', v)
  PROVE  \A v \in Threads :
           /\ pc'[v] \in Holding <=> pc[v] \in Holding
           /\ pc'[v] = "registering" <=> pc[v] = "registering"
BY DEF Nudged, Holding, Types

LEMMA TypesNext ==
  ASSUME Types, Ids, [Next]_vars
  PROVE  Types'
<1> USE PollAssumption
<1>1. ASSUME NEW w \in Threads, Register(w) \/ GoIdle(w) \/ SpuriousWakeup(w)
      PROVE  Types'
  BY <1>1 DEF Types, Register, GoIdle, SpuriousWakeup, Step, Goto, Holding, PC, queue,
              threads, program, poller
<1>2. ASSUME NEW w \in Threads, Pop(w) \/ WakeUp(w) PROVE Types'
  <2>1. /\ pc[w] \in {"pop", "woken"}
        /\ UNCHANGED <<waiting, next_worker_id, program, poller>>
    BY <1>2 DEF Pop, WakeUp
  <2>2. CASE Dequeue(w)
    BY <2>1, <2>2, DequeueTypes DEF Types, program, poller
  <2>3. CASE Shutdown(w)
    <3>1. \A v \in Threads :
            /\ pc'[v] \in Holding <=> pc[v] \in Holding
            /\ pc'[v] = "registering" <=> pc[v] = "registering"
      BY <2>1, <2>3, ShutdownTypes DEF Nudged, Holding
    <3> QED
      BY <2>1, <2>3, <3>1, ShutdownTypes DEF Shutdown, Types, program, poller
  <2>4. CASE /\ pc' = Goto(w, "claim") \/ pc' = Goto(w, "pop")
             /\ UNCHANGED <<runnable, current_task, state>>
    BY <2>1, <2>4 DEF Types, Goto, Holding, PC, program, poller
  <2> QED
    BY <1>2, <2>2, <2>3, <2>4 DEF Pop, WakeUp
<1>3. ASSUME NEW w \in Threads, Settle(w) PROVE Types'
  <2>1. pc[w] = "switched" /\ current_task[w] \in Tasks
    BY <1>3 DEF Settle, Types, Holding
  <2>2. /\ pc' \in [Threads -> PC]
        /\ current_task' \in [Threads -> Tasks \cup {NoTask}]
        /\ \A v \in Threads :
             /\ pc'[v] \in Holding <=> current_task'[v] # NoTask
             /\ pc'[v] = "registering" => current_task'[v] \in Readers
    BY <1>3 DEF Settle, Types, Goto, PC, Holding
  <2>3. /\ runnable' \in Seq(Tasks)
        /\ waiting' \in SUBSET Tasks
        /\ state' \in [Tasks -> TaskState]
    BY <1>3, <2>1 DEF Settle, Types, Enqueue, TaskState
  <2> QED
    BY <1>3, <2>2, <2>3 DEF Settle, Types, program, poller
<1>4. ASSUME NEW t \in Tasks, pc' \in WakeIdle(pc), Enqueue(t),
             waiting' \in SUBSET Tasks, ready' \in [Threads -> SUBSET Readers],
             UNCHANGED <<next_worker_id, current_task, program, watched, fds, readable>>
      PROVE  Types'
  <2>1. pc' \in [Threads -> PC] /\ \A v \in Threads : Nudged(pc, pc', v)
    BY <1>4, WakeIdleNudges DEF Types
  <2>2. runnable' \in Seq(Tasks) /\ state' \in [Tasks -> TaskState]
    BY <1>4 DEF Enqueue, Types, TaskState
  <2> QED
    BY <1>4, <2>1, <2>2, NudgedHolding DEF Types, program
<1>5. ASSUME NEW w \in Threads, PollStep(w) PROVE Types'
  <2>1. CASE Claim(w) \/ LookForWaiters(w) \/ WaitOver(w) \/ MapEvents(w) \/ Release(w)
    <3>1. /\ ready' \in [Threads -> SUBSET Readers]
          /\ UNCHANGED <<watched, fds, readable>>
      BY <2>1 DEF Types, Claim, LookForWaiters, WaitOver, MapEvents, Release, poller
    <3>2. \E a \in Polling \cup {"claim"}, b \in Polling \cup {"idling", "deliver"} : Step(w, a, b)
      BY <2>1 DEF Claim, LookForWaiters, WaitOver, MapEvents, Release, Polling
    <3> QED
      BY <3>1, <3>2 DEF Types, Step, Goto, Holding, Polling, PC, queue, program
  <2>2. CASE Deliver(w)
    <3>1. CASE ready[w] = {} /\ Step(w, "deliver", "pop") /\ UNCHANGED ready
      BY <2>2, <3>1 DEF Deliver, Types, Step, Goto, Holding, PC, queue, program
    <3>2. ASSUME NEW t \in ready[w], ReadyTask(t), ready' = [ready EXCEPT ![w] = @ \ {t}]
          PROVE  Types'
      <4>0. t \in Tasks /\ ready' \in [Threads -> SUBSET Readers]
        BY <3>2 DEF Types
      <4>00. UNCHANGED <<next_worker_id, current_task, program, watched, fds, readable>>
        BY <2>2 DEF Deliver, Step, queue
      <4>1. CASE t \in waiting /\ waiting' = waiting \ {t} /\ Enqueue(t) /\ pc' \in WakeIdle(pc)
        <5>1. waiting' \in SUBSET Tasks
          BY <4>1 DEF Types
        <5> QED
          BY <1>4, <4>0, <4>00, <4>1, <5>1
      <4>2. CASE UNCHANGED <<waiting, runnable, state, pc>>
        BY <4>0, <4>00, <4>2 DEF Types, program
      <4> QED
        BY <3>2, <4>1, <4>2 DEF ReadyTask
    <3> QED
      BY <2>2, <3>1, <3>2 DEF Deliver
  <2> QED
    BY <1>5, <2>1, <2>2 DEF PollStep
<1>6. ASSUME NEW w \in Threads,
             \/ FileRead(w) \/ Gopark(w) \/ Unregister(w) \/ Unfile(w) \/ LeaveBlocking(w)
             \/ Gosched(w) \/ Finish(w) \/ RegisterRead(w) \/ EnterBlocking(w)
      PROVE  Types'
  <2>1. pc[w] \in Holding /\ current_task[w] \in Tasks
    BY <1>6 DEF FileRead, Gopark, Unregister, Unfile, LeaveBlocking, Gosched, Finish,
                RegisterRead, EnterBlocking, InCode, Step, Types, Holding
  <2>2. CASE FileRead(w) \/ LeaveBlocking(w) \/ RegisterRead(w) \/ EnterBlocking(w)
    BY <2>1, <2>2 DEF FileRead, LeaveBlocking, RegisterRead, EnterBlocking, Step, Types,
                Goto, Holding, PC, queue, program, poller
  <2>3. CASE Gopark(w) \/ Gosched(w) \/ Finish(w)
    BY <2>1, <2>3 DEF Gopark, Gosched, Finish, InCode, SwitchToScheduler, Types, Goto,
                Holding, PC, TaskState, queue, program, poller
  <2>4. CASE Unregister(w) \/ Unfile(w)
    BY <2>4 DEF Unregister, Unfile, Types, queue, threads, program
  <2> QED
    BY <1>6, <2>2, <2>3, <2>4
<1>7. ASSUME NEW w \in Threads, SpawnWorker(w) PROVE Types'
  <2>1. /\ pc[w] = "spawning"
        /\ pc' = [pc EXCEPT ![next_worker_id] = "start", ![w] = "blocking"]
        /\ next_worker_id' = next_worker_id + 1
        /\ UNCHANGED <<runnable, waiting, current_task, state, program, poller>>
    BY <1>7 DEF SpawnWorker
  <2>2. next_worker_id \in Threads => pc[next_worker_id] = "none"
    BY DEF Ids, Types
  <2> QED
    BY <2>1, <2>2 DEF Types, Holding, PC, program, poller
<1>8. ASSUME NEW t \in Tasks, CreateTask(t) PROVE Types'
  <2>1. waiting' \in SUBSET Tasks /\ ready' \in [Threads -> SUBSET Readers]
    BY <1>8 DEF CreateTask, Types, poller
  <2> QED
    BY <1>4, <1>8, <2>1 DEF CreateTask, poller
<1>9. CASE StartRuntime
  <2>1. \A w \in Threads : pc[w] = "none"
    BY <1>9 DEF StartRuntime, Ids
  <2> QED
    BY <1>9, <2>1 DEF StartRuntime, Types, poller, Holding, PC
<1>10. CASE Join
  BY <1>10 DEF Join, Types, queue, threads, poller
<1>11. ASSUME NEW t \in Tasks, DataArrives(t) PROVE Types'
  BY <1>11 DEF DataArrives, Types, queue, threads, program
<1>12. CASE UNCHANGED vars
  BY <1>12 DEF vars, Types, queue, threads, program, poller
<1> QED
  BY <1>1, <1>2, <1>3, <1>5, <1>6, <1>7, <1>8, <1>9, <1>10, <1>11, <1>12
     DEF Next, WorkerStep, TaskStep, MainStep, Go, Submit

-----------------------------------------------------------------------------
(* The flag, the counters and the ids                                      *)

LEMMA PollerKept ==
  ASSUME OnePoller, Agree(Polling), UNCHANGED polling
  PROVE  OnePoller'
<1>1. In(Polling)' = In(Polling)
  BY DEF Agree, In
<1> QED
  BY <1>1 DEF OnePoller

LEMMA CountedKept ==
  ASSUME Counted, Agree(Dozing), Agree(Out), pc \in [Threads -> PC], pc' \in [Threads -> PC],
         UNCHANGED <<idle_workers, all_workers>>
  PROVE  Counted'
<1>1. Dozers' = Dozers /\ Registered' = Registered
  BY DEF Agree, Dozers, Registered, In
<1> QED
  BY <1>1 DEF Counted

LEMMA IdsKept ==
  ASSUME Ids, Agree({"none"}), Agree({"spawning"}), UNCHANGED next_worker_id,
         main' = "submit" => main = "submit"
  PROVE  Ids'
<1>1. Spawning' = Spawning
  BY DEF Agree, Spawning, In
<1> QED
  BY <1>1 DEF Ids, Agree

(* A thread moves among the plain positions, and may wake another.         *)
LEMMA PlainMove ==
  ASSUME Types, Machine, Types', NEW w \in Threads, NEW at \in Plain, pc[w] \in Plain,
         \A v \in Threads : Nudged(Goto(w, at), pc', v),
         UNCHANGED <<idle_workers, all_workers, next_worker_id, main, polling>>
  PROVE  Machine'
<1>1. /\ pc'[w] = at
      /\ \A v \in Threads \ {w} : Nudged(pc, pc', v)
  BY DEF Nudged, Goto, Types, Plain, Dozing
<1>2. /\ Agree(Dozing) /\ Agree(Out) /\ Agree(Polling)
      /\ Agree({"none"}) /\ Agree({"spawning"})
  BY <1>1 DEF Nudged, Agree, Plain, Dozing, Out, Polling
<1> QED
  BY <1>2, PollerKept, CountedKept, IdsKept DEF Machine, Types

(* Nobody moves, but one thread may be woken.                              *)
LEMMA OnlyNudged ==
  ASSUME Types, Machine, Types', \A v \in Threads : Nudged(pc, pc', v),
         UNCHANGED <<idle_workers, all_workers, next_worker_id, polling>>,
         main' = "submit" => main = "submit"
  PROVE  Machine'
<1>1. /\ Agree(Dozing) /\ Agree(Out) /\ Agree(Polling)
      /\ Agree({"none"}) /\ Agree({"spawning"})
  BY DEF Nudged, Agree, Dozing, Out, Polling
<1> QED
  BY <1>1, PollerKept, CountedKept, IdsKept DEF Machine, Types

(* A step between the poller's positions and the plain ones.               *)
LEMMA PollMove ==
  ASSUME Types, Machine, Types', NEW w \in Threads,
         NEW a \in Plain \cup Polling, NEW b \in Plain \cup Polling, Step(w, a, b),
         OnePoller'
  PROVE  Machine'
<1>1. pc[w] = a /\ pc'[w] = b /\ \A v \in Threads \ {w} : pc'[v] = pc[v]
  BY DEF Step, Goto, Types
<1>2. Agree(Dozing) /\ Agree(Out) /\ Agree({"none"}) /\ Agree({"spawning"})
  BY <1>1 DEF Agree, Plain, Dozing, Out, Polling
<1>3. UNCHANGED <<idle_workers, all_workers, next_worker_id, main>>
  BY DEF Step, queue, program
<1> QED
  BY <1>2, <1>3, CountedKept, IdsKept DEF Machine, Types

LEMMA PollStepOne ==
  ASSUME Types, OnePoller, NEW w \in Threads,
         Claim(w) \/ LookForWaiters(w) \/ WaitOver(w) \/ MapEvents(w) \/ Release(w)
  PROVE  OnePoller'
<1>1. ASSUME NEW a \in Polling, NEW b \in Polling, Step(w, a, b), UNCHANGED polling
      PROVE  OnePoller'
  <2>1. Agree(Polling)
    BY <1>1 DEF Types, Step, Goto, Agree
  <2> QED
    BY <1>1, <2>1, PollerKept
<1>2. CASE LookForWaiters(w) \/ WaitOver(w) \/ MapEvents(w)
  BY <1>1, <1>2 DEF LookForWaiters, WaitOver, MapEvents, Polling, poller
<1>3. CASE polling /\ Step(w, "claim", "idling") /\ UNCHANGED polling
  <2>1. Agree(Polling)
    BY <1>3 DEF Types, Step, Goto, Agree, Polling
  <2> QED
    BY <1>3, <2>1, PollerKept
<1>4. CASE ~polling /\ Step(w, "claim", "look") /\ polling' = TRUE
  <2>1. \A v \in Threads : pc[v] \notin Polling
    BY <1>4 DEF OnePoller, In
  <2>2. In(Polling)' = {w}
    BY <1>4, <2>1 DEF Types, Step, Goto, In, Polling
  <2> QED
    BY <1>4, <2>2 DEF OnePoller
<1>5. CASE Release(w)
  <2>1. PICK a \in {"unclaim", "release"}, b \in {"idling", "deliver"} : Step(w, a, b)
    BY <1>5 DEF Release
  <2>2. \A v \in Threads \ {w} : pc[v] \notin Polling
    BY <2>1 DEF OnePoller, In, Step, Polling
  <2>3. In(Polling)' = {}
    BY <2>1, <2>2 DEF Types, Step, Goto, In, Polling
  <2>4. polling' = FALSE
    BY <1>5 DEF Release
  <2> QED
    BY <2>3, <2>4 DEF OnePoller
<1> QED
  BY <1>2, <1>3, <1>4, <1>5 DEF Claim

(* The worker w leaves, from the queue or from the condition variable.     *)
LEMMA MachineAfterShutdown ==
  ASSUME Types, Machine, Types', NEW w \in Threads, pc[w] \in {"pop", "woken"},
         Shutdown(w),
         idle_workers' = IF pc[w] = "woken" THEN idle_workers - 1 ELSE idle_workers,
         UNCHANGED <<next_worker_id, main, polling>>
  PROVE  Machine'
<1>1. pc'[w] = "exit" /\ \A v \in Threads \ {w} : Nudged(pc, pc', v)
  BY ShutdownTypes
<1>2. Agree(Polling) /\ Agree({"none"}) /\ Agree({"spawning"})
  BY <1>1 DEF Nudged, Agree, Polling
<1>3. /\ Registered' = Registered \ {w} /\ w \in Registered
      /\ Dozers' = Dozers \ {w}
      /\ w \in Dozers <=> pc[w] = "woken"
  BY <1>1 DEF Types, Nudged, Registered, Dozers, Dozing, Out, In
<1>4. Cardinality(Registered') = Cardinality(Registered) - 1
  BY <1>3, ThreadsFinite, FS_RemoveElement
<1>5. Cardinality(Dozers') = IF pc[w] = "woken" THEN Cardinality(Dozers) - 1
                                                ELSE Cardinality(Dozers)
  BY <1>3, ThreadsFinite, FS_RemoveElement
<1>6. Counted'
  BY <1>4, <1>5 DEF Machine, Counted, Shutdown
<1> QED
  BY <1>2, <1>6, PollerKept, IdsKept DEF Machine

LEMMA MachineNext ==
  ASSUME Types, Machine, Types', [Next]_vars
  PROVE  Machine'
<1>1. ASSUME NEW w \in Threads, Register(w) PROVE Machine'
  <2>1. /\ pc[w] = "start" /\ pc'[w] = "pop"
        /\ \A v \in Threads \ {w} : pc'[v] = pc[v]
        /\ all_workers' = all_workers + 1
        /\ UNCHANGED <<idle_workers, next_worker_id, main, polling>>
    BY <1>1 DEF Register, Goto, Types, program, poller
  <2>2. Agree(Polling) /\ Agree({"none"}) /\ Agree({"spawning"})
    BY <2>1 DEF Agree, Polling
  <2>3. Registered' = Registered \cup {w} /\ w \notin Registered /\ Dozers' = Dozers
    BY <2>1 DEF Types, Registered, Dozers, Dozing, Out, In, PC
  <2>4. Cardinality(Registered') = Cardinality(Registered) + 1
    BY <2>3, ThreadsFinite, FS_AddElement
  <2>5. Counted'
    BY <2>1, <2>3, <2>4 DEF Machine, Counted
  <2> QED
    BY <2>1, <2>2, <2>5, PollerKept, IdsKept DEF Machine
<1>2. ASSUME NEW w \in Threads, GoIdle(w) PROVE Machine'
  <2>1. /\ pc[w] = "idling" /\ pc'[w] = "asleep"
        /\ \A v \in Threads \ {w} : pc'[v] = pc[v]
        /\ idle_workers' = idle_workers + 1
        /\ UNCHANGED <<all_workers, next_worker_id, main, polling>>
    BY <1>2 DEF GoIdle, Goto, Types, program, poller
  <2>2. Agree(Polling) /\ Agree({"none"}) /\ Agree({"spawning"})
    BY <2>1 DEF Agree, Polling
  <2>3. Dozers' = Dozers \cup {w} /\ w \notin Dozers /\ Registered' = Registered
    BY <2>1 DEF Types, Registered, Dozers, Dozing, Out, In, PC
  <2>4. Cardinality(Dozers') = Cardinality(Dozers) + 1
    BY <2>3, ThreadsFinite, FS_AddElement
  <2>5. Counted'
    BY <2>1, <2>3, <2>4 DEF Machine, Counted
  <2> QED
    BY <2>1, <2>2, <2>5, PollerKept, IdsKept DEF Machine
<1>3. ASSUME NEW w \in Threads, NEW at \in Plain, pc[w] \in Plain, pc' = Goto(w, at),
             UNCHANGED <<idle_workers, all_workers, next_worker_id, main, polling>>
      PROVE  Machine'
  <2>1. \A v \in Threads : Nudged(Goto(w, at), pc', v)
    BY <1>3 DEF Nudged
  <2> QED
    BY <1>3, <2>1, PlainMove
<1>4. ASSUME NEW w \in Threads, Pop(w) PROVE Machine'
  <2>1. pc[w] = "pop" /\ UNCHANGED <<idle_workers, next_worker_id, main, polling>>
    BY <1>4 DEF Pop, program, poller
  <2>2. CASE Shutdown(w)
    BY <2>1, <2>2, MachineAfterShutdown
  <2>3. CASE /\ pc' = Goto(w, "run") \/ pc' = Goto(w, "claim")
             /\ UNCHANGED all_workers
    BY <1>3, <2>1, <2>3 DEF Plain, PC, Holding, Out, Dozing, Polling
  <2> QED
    BY <1>4, <2>2, <2>3 DEF Pop, Dequeue
<1>5. ASSUME NEW w \in Threads, WakeUp(w) PROVE Machine'
  <2>1. /\ pc[w] = "woken" /\ idle_workers' = idle_workers - 1
        /\ UNCHANGED <<next_worker_id, main, polling>>
    BY <1>5 DEF WakeUp, program, poller
  <2>2. CASE Shutdown(w)
    BY <2>1, <2>2, MachineAfterShutdown
  <2>3. CASE /\ pc' = Goto(w, "run") \/ pc' = Goto(w, "pop")
             /\ UNCHANGED all_workers
    <3>1. pc'[w] \in {"run", "pop"} /\ \A v \in Threads \ {w} : pc'[v] = pc[v]
      BY <2>3 DEF Goto, Types
    <3>2. Agree(Polling) /\ Agree({"none"}) /\ Agree({"spawning"})
      BY <2>1, <3>1 DEF Agree, Polling
    <3>3. Dozers' = Dozers \ {w} /\ w \in Dozers /\ Registered' = Registered
      BY <2>1, <3>1 DEF Types, Registered, Dozers, Dozing, Out, In, PC, Holding
    <3>4. Cardinality(Dozers') = Cardinality(Dozers) - 1
      BY <3>3, ThreadsFinite, FS_RemoveElement
    <3>5. Counted'
      BY <2>1, <2>3, <3>3, <3>4 DEF Machine, Counted
    <3> QED
      BY <2>1, <3>2, <3>5, PollerKept, IdsKept DEF Machine
  <2> QED
    BY <1>5, <2>2, <2>3 DEF WakeUp, Dequeue
<1>6. ASSUME NEW w \in Threads,
             \/ Settle(w) \/ FileRead(w) \/ Gopark(w) \/ LeaveBlocking(w) \/ Gosched(w)
             \/ Finish(w) \/ RegisterRead(w)
      PROVE  Machine'
  <2>1. /\ \E at \in {"pop", "parking", "switched", "run", "registering"} : pc' = Goto(w, at)
        /\ pc[w] \in Holding \ {"spawning"}
        /\ UNCHANGED <<idle_workers, all_workers, next_worker_id, main, polling>>
    BY <1>6 DEF Settle, FileRead, Gopark, LeaveBlocking, Gosched, Finish, RegisterRead,
                InCode, SwitchToScheduler, Step, Holding, queue, program, poller
  <2> QED
    BY <1>3, <2>1 DEF Plain, PC, Holding, Out, Dozing, Polling
<1>7. ASSUME pc' \in WakeIdle(pc) \/ pc' = pc,
             UNCHANGED <<idle_workers, all_workers, next_worker_id, polling>>,
             main' = "submit" => main = "submit"
      PROVE  Machine'
  <2>1. \A v \in Threads : Nudged(pc, pc', v)
    BY <1>7, WakeIdleNudges DEF Types, Nudged
  <2> QED
    BY <1>7, <2>1, OnlyNudged
<1>8. ASSUME NEW w \in Threads, PollStep(w) PROVE Machine'
  <2>1. CASE Claim(w) \/ LookForWaiters(w) \/ WaitOver(w) \/ MapEvents(w) \/ Release(w)
    <3>1. \E a \in Polling \cup {"claim"}, b \in Polling \cup {"idling", "deliver"} : Step(w, a, b)
      BY <2>1 DEF Claim, LookForWaiters, WaitOver, MapEvents, Release, Polling
    <3>2. {"claim", "idling", "deliver"} \subseteq Plain
      BY DEF Plain, PC, Holding, Out, Dozing, Polling
    <3>3. OnePoller'
      BY <2>1, PollStepOne DEF Machine
    <3> QED
      BY <3>1, <3>2, <3>3, PollMove
  <2>2. CASE ready[w] = {} /\ Step(w, "deliver", "pop") /\ UNCHANGED polling
    BY <1>3, <2>2 DEF Step, queue, program, Plain, PC, Holding, Out, Dozing, Polling
  <2>3. CASE /\ \E t \in ready[w] : ReadyTask(t)
             /\ UNCHANGED <<idle_workers, all_workers, next_worker_id, program, polling>>
    BY <1>7, <2>3 DEF ReadyTask, program
  <2> QED
    BY <1>8, <2>1, <2>2, <2>3 DEF PollStep, Deliver
<1>9. ASSUME NEW t \in Tasks, CreateTask(t) PROVE Machine'
  BY <1>7, <1>9 DEF CreateTask, program, poller
<1>10. ASSUME NEW w \in Threads, EnterBlocking(w) PROVE Machine'
  <2>1. pc[w] = "run" /\ UNCHANGED <<idle_workers, all_workers, next_worker_id, main, polling>>
    BY <1>10 DEF EnterBlocking, InCode, Step, queue, program, poller
  <2>2. CASE pc' = Goto(w, "blocking")
    BY <1>3, <2>1, <2>2 DEF Plain, PC, Holding, Out, Dozing, Polling
  <2>3. CASE pc' = Goto(w, "spawning") /\ next_worker_id + Cardinality(Spawning) < MaxThreads
    <3>1. pc'[w] = "spawning" /\ \A v \in Threads \ {w} : pc'[v] = pc[v]
      BY <2>3 DEF Goto, Types
    <3>2. Agree(Polling) /\ Agree({"none"}) /\ Agree(Dozing) /\ Agree(Out)
      BY <2>1, <3>1 DEF Agree, Polling, Dozing, Out
    <3>3. Spawning' = Spawning \cup {w} /\ w \notin Spawning
      BY <2>1, <3>1 DEF Spawning, In
    <3>4. Cardinality(Spawning') = Cardinality(Spawning) + 1
      BY <3>3, ThreadsFinite, FS_AddElement
    <3>5. Ids'
      <4>1. next_worker_id' + Cardinality(Spawning') <= MaxThreads
        BY <2>1, <2>3, <3>4, ThreadsFinite, PollAssumption DEF Types
      <4>2. \A v \in Threads : pc'[v] = "none" <=> pc[v] = "none"
        BY <3>2 DEF Agree
      <4> QED
        BY <2>1, <4>1, <4>2 DEF Machine, Ids
    <3> QED
      BY <2>1, <3>2, <3>5, PollerKept, CountedKept DEF Machine, Types
  <2> QED
    BY <1>10, <2>2, <2>3 DEF EnterBlocking, Step, Spawning
<1>11. ASSUME NEW w \in Threads, SpawnWorker(w) PROVE Machine'
  <2>1. /\ pc[w] = "spawning"
        /\ pc' = [pc EXCEPT ![next_worker_id] = "start", ![w] = "blocking"]
        /\ next_worker_id' = next_worker_id + 1
        /\ UNCHANGED <<idle_workers, all_workers, main, polling>>
    BY <1>11 DEF SpawnWorker, program, poller
  <2>2. w \in Spawning /\ Cardinality(Spawning \ {w}) = Cardinality(Spawning) - 1
    BY <2>1, ThreadsFinite, FS_RemoveElement DEF Spawning, In
  <2>3. Cardinality(Spawning) >= 1
    BY <2>2, ThreadsFinite, FS_EmptySet
  <2>4. next_worker_id \in Threads /\ pc[next_worker_id] = "none"
    BY <2>3, ThreadsFinite, PollAssumption DEF Machine, Ids, Types, Threads
  <2>5. /\ pc'[next_worker_id] = "start" /\ pc'[w] = "blocking"
        /\ \A v \in Threads \ {next_worker_id, w} : pc'[v] = pc[v]
    BY <2>1, <2>4 DEF Types
  <2>6. Agree(Polling) /\ Agree(Dozing) /\ Agree(Out)
    BY <2>1, <2>4, <2>5 DEF Agree, Polling, Dozing, Out
  <2>7. Spawning' = Spawning \ {w}
    BY <2>1, <2>4, <2>5 DEF Spawning, In
  <2>8. Ids'
    <3>1. next_worker_id' + Cardinality(Spawning') <= MaxThreads
      BY <2>1, <2>2, <2>7, ThreadsFinite, PollAssumption DEF Machine, Ids, Types
    <3>2. main' # "submit"
      BY <2>1 DEF Machine, Ids
    <3>3. \A v \in Threads : v >= next_worker_id' => pc'[v] = "none"
      <4>1. ASSUME NEW v \in Threads, v >= next_worker_id + 1
            PROVE  v # next_worker_id /\ pc[v] = "none"
        <5>1. v \in Int /\ next_worker_id \in Int
          BY PollAssumption DEF Types, Threads
        <5>2. v >= next_worker_id /\ v # next_worker_id
          BY <4>1, <5>1
        <5> QED
          BY <5>2 DEF Machine, Ids
      <4> QED
        BY <2>1, <2>5, <4>1
    <3> QED
      BY <3>1, <3>2, <3>3 DEF Ids
  <2> QED
    BY <2>1, <2>6, <2>8, PollerKept, CountedKept DEF Machine, Types
<1>12. CASE StartRuntime
  <2>1. /\ \A v \in Threads : pc[v] = "none"
        /\ pc' = [v \in Threads |-> IF v < num_threads THEN "start" ELSE pc[v]]
        /\ next_worker_id' = num_threads /\ main' = "join"
        /\ UNCHANGED <<idle_workers, all_workers, polling>>
    BY <1>12 DEF StartRuntime, poller, Machine, Ids
  <2>2. Agree(Polling) /\ Agree(Dozing) /\ Agree(Out)
    BY <2>1 DEF Agree, Polling, Dozing, Out
  <2>3. Spawning' = {}
    BY <2>1 DEF Spawning, In
  <2>4. Ids'
    BY <2>1, <2>3, FS_EmptySet, PollAssumption DEF Ids, Types, Threads
  <2> QED
    BY <2>1, <2>2, <2>4, PollerKept, CountedKept DEF Machine, Types
<1>13. ASSUME NEW w \in Threads, SpuriousWakeup(w) PROVE Machine'
  <2>1. /\ \A v \in Threads : Nudged(pc, pc', v)
        /\ UNCHANGED <<idle_workers, all_workers, next_worker_id, polling, main>>
    BY <1>13 DEF SpuriousWakeup, Step, Goto, Types, Nudged, queue, program, poller
  <2> QED
    BY <2>1, OnlyNudged
<1>14. CASE \/ Join \/ UNCHANGED vars \/ (\E t \in Tasks : DataArrives(t))
            \/ \E w \in Threads : Unregister(w) \/ Unfile(w)
  <2>1. /\ UNCHANGED <<pc, idle_workers, all_workers, next_worker_id, polling>>
        /\ main' = "submit" => main = "submit"
    BY <1>14 DEF Join, vars, DataArrives, Unregister, Unfile, queue, threads, program, poller
  <2> QED
    BY <1>7, <2>1
<1> QED
  BY <1>1, <1>2, <1>4, <1>5, <1>6, <1>8, <1>9, <1>10, <1>11, <1>12, <1>13, <1>14
     DEF Next, WorkerStep, TaskStep, MainStep, Go, Submit

-----------------------------------------------------------------------------
(* Live tasks, and the end of the work                                     *)

(* Nothing moves.                                                          *)
LEMMA LiveStays ==
  ASSUME Live, UNCHANGED <<runnable, waiting, current_task, state>>
  PROVE  Live'
BY DEF Live, Queued, Held

(* A task is queued that was new, parked or on a thread, and taken from    *)
(* there.                                                                  *)
LEMMA LiveEnqueue ==
  ASSUME Types, Live, NEW t \in Tasks, Enqueue(t),
         waiting \subseteq waiting' \cup {t},
         Held \subseteq Held' \cup {t}
  PROVE  Live'
<1>1. Range(runnable') = Queued \cup {t}
  BY ListAppend DEF Enqueue, Types, Queued
<1>2. /\ state'[t] = "Runnable"
      /\ \A u \in Tasks \ {t} : state'[u] = state[u]
  BY DEF Enqueue, Types
<1> QED
  BY <1>1, <1>2 DEF Live, Queued

LEMMA LiveDequeue ==
  ASSUME Types, Live, NEW w \in Threads, pc[w] \in {"pop", "woken"}, Dequeue(w),
         UNCHANGED waiting
  PROVE  Live'
<1>1. /\ Head(runnable) \in Tasks
      /\ Queued = Range(runnable') \cup {Head(runnable)}
  BY ListTail DEF Dequeue, Types, Queued
<1>2. current_task[w] = NoTask
  BY DEF Types, Holding
<1>3. \A t \in Tasks \cap Held : t \in Held'
  BY <1>2, PollAssumption DEF Held, Dequeue, Types
<1>4. Head(runnable) \in Held'
  BY DEF Held, Dequeue, Types
<1>5. /\ state'[Head(runnable)] = "Running"
      /\ \A u \in Tasks \ {Head(runnable)} : state'[u] = state[u]
  BY <1>1 DEF Dequeue, Types
<1> QED
  BY <1>1, <1>3, <1>4, <1>5 DEF Live, Queued

LEMMA LiveReady ==
  ASSUME Types, Live, NEW t \in Tasks, ReadyTask(t), UNCHANGED current_task
  PROVE  Live'
<1>1. Held' = Held
  BY DEF Held
<1>2. CASE Enqueue(t) /\ waiting' = waiting \ {t}
  BY <1>1, <1>2, LiveEnqueue
<1> QED
  BY <1>2, LiveStays DEF ReadyTask

LEMMA LiveNext ==
  ASSUME Types, Live, [Next]_vars
  PROVE  Live'
<1>1. ASSUME NEW w \in Threads, Pop(w) \/ WakeUp(w) PROVE Live'
  <2>1. CASE Dequeue(w)
    BY <1>1, <2>1, LiveDequeue DEF Pop, WakeUp
  <2>2. CASE UNCHANGED <<runnable, current_task, state>>
    BY <1>1, <2>2, LiveStays DEF Pop, WakeUp
  <2> QED
    BY <1>1, <2>1, <2>2 DEF Pop, WakeUp, Shutdown
<1>2. ASSUME NEW w \in Threads, Settle(w) PROVE Live'
  <2> DEFINE t == current_task[w]
  <2>1. t \in Tasks
    BY <1>2 DEF Settle, Types, Holding
  <2>2. Held \subseteq Held' \cup {t}
    BY <1>2 DEF Settle, Held, Types
  <2>3. CASE state[t] = "Dead" /\ UNCHANGED <<runnable, waiting, state>>
    BY <2>1, <2>2, <2>3 DEF Live, Queued
  <2>4. CASE /\ state[t] = "Waiting" /\ waiting' = waiting \cup {t}
             /\ UNCHANGED <<runnable, state>>
    BY <2>1, <2>2, <2>4 DEF Live, Queued
  <2>5. CASE Enqueue(t) /\ UNCHANGED waiting
    BY <2>1, <2>2, <2>5, LiveEnqueue
  <2> QED
    BY <1>2, <2>3, <2>4, <2>5 DEF Settle
<1>3. ASSUME NEW w \in Threads, Deliver(w) PROVE Live'
  <2>1. UNCHANGED current_task
    BY <1>3 DEF Deliver, Step
  <2>2. CASE \E t \in ready[w] : ReadyTask(t)
    BY <2>1, <2>2, LiveReady, PollAssumption DEF Types
  <2>3. CASE Step(w, "deliver", "pop")
    BY <2>3, LiveStays DEF Step, queue
  <2> QED
    BY <1>3, <2>2, <2>3 DEF Deliver
<1>4. ASSUME NEW w \in Threads, Finish(w) \/ Gopark(w) PROVE Live'
  <2>1. current_task[w] \in Tasks /\ current_task[w] \in Held
    BY <1>4 DEF Finish, Gopark, InCode, Types, Holding, Held
  <2>2. /\ \A u \in Tasks \ {current_task[w]} : state'[u] = state[u]
        /\ state'[current_task[w]] \in {"Dead", "Waiting"}
        /\ UNCHANGED <<runnable, waiting, Held>>
    BY <1>4, <2>1 DEF Finish, Gopark, Types, Held, queue
  <2> QED
    BY <2>1, <2>2 DEF Live, Queued
<1>5. ASSUME NEW t \in Tasks, CreateTask(t) PROVE Live'
  <2>1. Held' = Held
    BY <1>5 DEF CreateTask, Held
  <2> QED
    BY <1>5, <2>1, LiveEnqueue DEF CreateTask
<1>6. ASSUME NEW w \in Threads,
             \/ Register(w) \/ GoIdle(w) \/ SpuriousWakeup(w) \/ FileRead(w)
             \/ Unregister(w) \/ Unfile(w) \/ SpawnWorker(w) \/ LeaveBlocking(w)
             \/ Gosched(w) \/ RegisterRead(w) \/ EnterBlocking(w)
             \/ Claim(w) \/ LookForWaiters(w) \/ WaitOver(w) \/ MapEvents(w) \/ Release(w)
      PROVE  Live'
  <2>1. UNCHANGED <<runnable, waiting, current_task, state>>
    BY <1>6 DEF Register, GoIdle, SpuriousWakeup, FileRead, Unregister, Unfile, SpawnWorker,
                LeaveBlocking, Gosched, RegisterRead, EnterBlocking, Claim, LookForWaiters,
                WaitOver, MapEvents, Release, Step, queue, threads
  <2> QED
    BY <2>1, LiveStays
<1>7. CASE \/ StartRuntime \/ Join \/ UNCHANGED vars \/ \E t \in Tasks : DataArrives(t)
  <2>1. UNCHANGED <<runnable, waiting, current_task, state>>
    BY <1>7 DEF StartRuntime, Join, vars, DataArrives, queue, threads
  <2> QED
    BY <2>1, LiveStays
<1> QED
  BY <1>1, <1>2, <1>3, <1>4, <1>5, <1>6, <1>7
     DEF Next, WorkerStep, PollStep, TaskStep, MainStep, Go, Submit

(* The first worker to leave has seen that nobody else has a task.         *)
LEMMA LastOneOut ==
  ASSUME Types, Machine, Live, NEW w \in Threads,
         \/ pc[w] = "pop" /\ ShouldTerminate(idle_workers)
         \/ pc[w] = "woken" /\ ShouldTerminate(idle_workers - 1),
         Shutdown(w), UNCHANGED <<waiting, main>>
  PROVE  Quiet'
<1>1. Dozers \subseteq Registered /\ w \in Registered
  BY DEF Dozers, Dozing, Registered, Out, In, Types, PC
<1>2. Registered \subseteq Dozers \cup {w}
  <2>1. CASE pc[w] = "pop" /\ idle_workers = all_workers - 1
    <3>1. w \notin Dozers
      BY <2>1 DEF Dozers, Dozing, In
    <3>2. Cardinality(Dozers \cup {w}) = Cardinality(Registered)
      <4>1. Cardinality(Dozers \cup {w}) = Cardinality(Dozers) + 1
        BY <3>1, ThreadsFinite, FS_AddElement
      <4>2. Cardinality(Dozers) = Cardinality(Registered) - 1
        BY <2>1 DEF Machine, Counted
      <4> QED
        BY <4>1, <4>2, ThreadsFinite
    <3>3. Dozers \cup {w} \in SUBSET Registered
      BY <1>1
    <3> QED
      BY <3>2, <3>3, ThreadsFinite, FS_Subset
  <2>2. CASE idle_workers - 1 = all_workers - 1
    <3>1. Cardinality(Dozers) = Cardinality(Registered)
      BY <2>2, ThreadsFinite DEF Machine, Counted
    <3>2. Dozers \in SUBSET Registered
      BY <1>1
    <3> QED
      BY <3>1, <3>2, ThreadsFinite, FS_Subset
  <2> QED
    BY <2>1, <2>2 DEF ShouldTerminate
<1>3. \A v \in Threads : pc[v] \notin Holding
  BY <1>2 DEF Registered, Dozers, Dozing, Out, In, Holding, Types, PC
<1>4. Held \cap Tasks = {} /\ Queued = {} /\ waiting = {} /\ runnable = <<>>
  BY <1>3, EmptyList, PollAssumption DEF Held, Types, Queued, ShouldTerminate
<1>5. \A t \in Tasks : state[t] \in {"New", "Dead"}
  BY <1>4 DEF Live, Types, TaskState
<1>6. \A v \in Threads : pc'[v] \notin Holding
  BY <1>3, ShutdownTypes DEF Nudged, Holding
<1>7. main # "submit"
  BY DEF Machine, Ids
<1> QED
  BY <1>4, <1>5, <1>6, <1>7 DEF Quiet, Busy, In, Shutdown

(* After it the others only find out.                                      *)
LEMMA QuietStays ==
  ASSUME Types, Quiet, Left # {}, [Next]_vars
  PROVE  Quiet'
<1>1. /\ \A v \in Threads : pc[v] \notin Holding
      /\ runnable = <<>> /\ waiting = {} /\ main # "submit"
      /\ \A t \in Tasks : state[t] \in {"New", "Dead"}
  BY DEF Quiet, Busy, In
<1> DEFINE Still ==
      /\ UNCHANGED <<runnable, waiting, state>>
      /\ main' # "submit"
      /\ \A v \in Threads : pc'[v] \notin Holding
<1>2. ASSUME NEW w \in Threads, NEW at \in PC \ Holding, pc' = Goto(w, at),
             UNCHANGED <<runnable, waiting, state, main>>
      PROVE  Still
  BY <1>1, <1>2 DEF Types, Goto
<1>3. ASSUME NEW w \in Threads, Register(w) \/ GoIdle(w) PROVE Still
  BY <1>2, <1>3 DEF Register, GoIdle, program, PC, Holding
<1>4. ASSUME NEW w \in Threads, Pop(w) \/ WakeUp(w) PROVE Still
  <2>1. ~Dequeue(w) /\ pc[w] \in {"pop", "woken"} /\ UNCHANGED <<waiting, main>>
    BY <1>1, <1>4 DEF Pop, WakeUp, Dequeue, program
  <2>2. CASE Shutdown(w)
    <3>1. \A v \in Threads : pc'[v] \notin Holding
      BY <1>1, <2>1, <2>2, ShutdownTypes DEF Nudged, Holding
    <3> QED
      BY <1>1, <2>1, <2>2, <3>1 DEF Shutdown
  <2>3. CASE pc' \in {Goto(w, "claim"), Goto(w, "pop")} /\ UNCHANGED <<runnable, state>>
    BY <1>2, <2>1, <2>3 DEF PC, Holding
  <2> QED
    BY <1>4, <2>1, <2>2, <2>3 DEF Pop, WakeUp
<1>5. ASSUME NEW w \in Threads, PollStep(w) \/ SpuriousWakeup(w) PROVE Still
  <2>1. CASE \E a \in PC, b \in PC \ Holding : Step(w, a, b)
    BY <1>2, <2>1 DEF Step, queue, program
  <2>2. CASE \E t \in ready[w] : ReadyTask(t) /\ UNCHANGED program
    BY <1>1, <2>2 DEF ReadyTask, program
  <2> QED
    BY <1>5, <2>1, <2>2 DEF PollStep, SpuriousWakeup, Claim, LookForWaiters, WaitOver,
                            MapEvents, Release, Deliver, PC, Polling, Holding
<1>6. ASSUME NEW w \in Threads,
             \/ Settle(w) \/ FileRead(w) \/ Gopark(w) \/ Unregister(w) \/ Unfile(w)
             \/ SpawnWorker(w) \/ LeaveBlocking(w) \/ TaskStep(w)
      PROVE  FALSE
  BY <1>1, <1>6 DEF Settle, FileRead, Gopark, Unregister, Unfile, SpawnWorker, LeaveBlocking,
                    TaskStep, Gosched, Finish, RegisterRead, EnterBlocking, Go, InCode, Step,
                    Holding
<1>7. ASSUME MainStep \/ UNCHANGED vars \/ \E t \in Tasks : DataArrives(t) PROVE Still
  <2>1. ~StartRuntime /\ \A t \in Tasks : ~Submit(t)
    BY <1>1 DEF StartRuntime, Submit
  <2>2. UNCHANGED <<runnable, waiting, state, pc>> /\ main' \in {main, "done"}
    BY <1>7, <2>1 DEF MainStep, Join, DataArrives, vars, queue, threads, program
  <2> QED
    BY <1>1, <2>2
<1> HIDE DEF Still
<1>8. Still
  BY <1>3, <1>4, <1>5, <1>6, <1>7 DEF Next, WorkerStep
<1> QED
  BY <1>1, <1>8 DEF Still, Quiet, Busy, In

LEMMA QuietNext ==
  ASSUME Types, Machine, Live, Quiet, [Next]_vars
  PROVE  Quiet'
<1>1. CASE Left # {}
  BY <1>1, QuietStays
<1>2. CASE \E w \in Threads :
             /\ Shutdown(w)
             /\ UNCHANGED <<waiting, main>>
             /\ \/ pc[w] = "pop" /\ ShouldTerminate(idle_workers)
                \/ pc[w] = "woken" /\ ShouldTerminate(idle_workers - 1)
  BY <1>2, LastOneOut
<1>3. CASE Left' = {}
  BY <1>3 DEF Quiet
<1>4. ASSUME Left = {}, Left' # {}
      PROVE  \E w \in Threads :
               /\ Shutdown(w)
               /\ UNCHANGED <<waiting, main>>
               /\ \/ pc[w] = "pop" /\ ShouldTerminate(idle_workers)
                  \/ pc[w] = "woken" /\ ShouldTerminate(idle_workers - 1)
  <2>1. PICK v \in Threads : pc'[v] = "exit" /\ pc[v] # "exit"
    BY <1>4 DEF Left, In
  <2>2. ASSUME NEW w \in Threads, NEW at \in PC \ {"exit"}, pc' = Goto(w, at) PROVE FALSE
    BY <2>1, <2>2 DEF Goto, Types
  <2>3. ASSUME pc' \in WakeIdle(pc) PROVE FALSE
    BY <2>1, <2>3, WakeIdleNudges DEF Types, Nudged
  <2>4. ASSUME NEW w \in Threads, NEW at \in PC \ {"exit"}, NEW a \in PC, Step(w, a, at)
        PROVE  FALSE
    BY <2>2, <2>4 DEF Step
  <2>5. ASSUME NEW w \in Threads,
               \/ Register(w) \/ GoIdle(w) \/ Settle(w) \/ Gopark(w) \/ Gosched(w)
               \/ Finish(w)
        PROVE  FALSE
    BY <2>2, <2>5 DEF Register, GoIdle, Settle, Gopark, Gosched, Finish,
                      SwitchToScheduler, PC, Holding
  <2>6. ASSUME NEW w \in Threads,
               \/ SpuriousWakeup(w) \/ FileRead(w) \/ LeaveBlocking(w) \/ RegisterRead(w)
               \/ EnterBlocking(w) \/ Claim(w) \/ LookForWaiters(w) \/ WaitOver(w)
               \/ MapEvents(w) \/ Release(w)
        PROVE  FALSE
    BY <2>4, <2>6 DEF SpuriousWakeup, FileRead, LeaveBlocking, RegisterRead, EnterBlocking,
                      Claim, LookForWaiters, WaitOver, MapEvents, Release, PC, Holding, Polling
  <2>7. ASSUME NEW w \in Threads, Deliver(w) PROVE FALSE
    BY <2>1, <2>3, <2>4, <2>7 DEF Deliver, ReadyTask, PC
  <2>8. ASSUME NEW t \in Tasks, CreateTask(t) PROVE FALSE
    BY <2>3, <2>8 DEF CreateTask
  <2>9. ASSUME NEW w \in Threads, SpawnWorker(w) PROVE FALSE
    BY <2>1, <2>9 DEF SpawnWorker, Types
  <2>10. ~StartRuntime
    BY <2>1 DEF StartRuntime
  <2>11. pc' # pc
    BY <2>1
  <2>12. \E w \in Threads : Pop(w) \/ WakeUp(w)
    BY <2>5, <2>6, <2>7, <2>8, <2>9, <2>10, <2>11
       DEF Next, WorkerStep, PollStep, TaskStep, MainStep, Go, Submit, Unregister, Unfile,
           Join, DataArrives, vars, threads
  <2>13. PICK w \in Threads : Pop(w) \/ WakeUp(w)
    BY <2>12
  <2>14. \A at \in {"run", "claim", "pop"} : pc' # Goto(w, at)
    BY <2>2 DEF PC, Holding
  <2> QED
    BY <2>13, <2>14 DEF Pop, WakeUp, Dequeue, program
<1> QED
  BY <1>1, <1>2, <1>3, <1>4

LEMMA Invariant == Spec => []IInv
<1>1. ASSUME IInv, [Next]_vars PROVE IInv'
  <2>1. Types /\ Machine /\ Ids /\ Live /\ Quiet
    BY <1>1 DEF IInv, Machine
  <2>2. Types'
    BY <1>1, <2>1, TypesNext
  <2>3. Machine'
    BY <1>1, <2>1, <2>2, MachineNext
  <2>4. Live' /\ Quiet'
    BY <1>1, <2>1, LiveNext, QuietNext
  <2> QED
    BY <2>2, <2>3, <2>4 DEF IInv
<1> QED
  BY <1>1, PollInit, PTL DEF Spec

(* The state keeps its types, one worker polls at a time, and neither of   *)
(* the unsigned counters is decremented below zero (poll.rs:83-88, 120-160,*)
(* 330-372).                                                               *)
THEOREM TypeCorrect == Spec => []TypeOK
<1>1. IInv => TypeOK
  <2> SUFFICES ASSUME IInv PROVE TypeOK
    OBVIOUS
  <2>1. Types /\ OnePoller /\ Counted /\ Ids
    BY DEF IInv, Machine
  <2>2. idle_workers \in Nat /\ all_workers \in Nat /\ next_worker_id \in 0 .. MaxThreads
    BY <2>1, ThreadsFinite, PollAssumption DEF Types, Counted, Ids
  <2>3. polling = (In(Polling) # {})
    BY <2>1 DEF OnePoller
  <2> QED
    BY <2>1, <2>2, <2>3 DEF Types, TypeOK
<1> QED
  BY <1>1, Invariant, PTL

(* No worker leaves while a task is queued, parked or on a thread          *)
(* (poll.rs:89-99, 120-127): when a worker finds all the others counted as *)
(* idle, they are all asleep.                                              *)
THEOREM NoEarlyShutdown == Spec => []ShutdownMeansDone
<1>1. IInv => ShutdownMeansDone
  BY DEF IInv, Quiet, Left, ShutdownMeansDone
<1> QED
  BY <1>1, Invariant, PTL
=============================================================================
