----------------------------- MODULE TimerProofs ----------------------------
(***************************************************************************)
(* What holds of the runtime of timer.rs and channel.rs, the poller        *)
(* included, for any number of tasks and threads.                          *)
(*                                                                         *)
(* The threads of TimerRuntime take steps that Scheduler does not know:    *)
(* they poll, and they register sockets.  AbsPc shows the scheduler a      *)
(* thread that polls as one that is about to look at the queue, or to go   *)
(* idle, and a thread in net_poll_read as one that runs its task. Read     *)
(* this way every step of TimerRuntime is a step of Scheduler or one of    *)
(* the steps that PolledNext of SchedulerProofs adds (NextSimulated), so   *)
(* that what SchedulerProofs shows of those holds here.  The rest is       *)
(* about the poller's own state: who polls (OnePoller), what the threads   *)
(* remember (Memory), and which clock they read (Clock).                   *)
(***************************************************************************)
EXTENDS TimerRuntime, FiniteSetTheorems, TLAPS

(* The positions outside the scheduler: from the empty queue               *)
(* (timer.rs:120-135) to the way back to it.                               *)
Away == Polling \cup {"poll", "deliver", "observe", "observe2"}

(* Until it has found something to poll for, the thread may still go idle. *)
Looking == {"poll", "look", "look2", "unclaim", "observe", "observe2"}

(* Where the scheduler sees a thread.  A thread that has found nothing     *)
(* to poll for goes idle, which is a step from "idling"; a thread that     *)
(* polls in earnest returns to the queue, and calls goready as any         *)
(* thread outside of a task may.                                           *)
At(x) ==
  CASE x \in Looking         -> "idling"
    [] x \in Away \ Looking  -> "pop"
    [] x = "registering"     -> "run"
    [] OTHER                 -> x

Abs(p) == [w \in Threads |-> At(p[w])]

AbsPc == Abs(pc)

(* The scheduler as it sees the threads; S, of TimerRuntime, is the same   *)
(* scheduler with the positions of TimerRuntime.                           *)
A == INSTANCE SchedulerProofs WITH pc <- AbsPc, armed <- Armed

Positions == S!PC \cup Away \cup {"registering"}

LEMMA AbsAssumption == A!SchedulerAssumption
BY TimerAssumption DEF A!SchedulerAssumption, A!Threads, IsFiniteSet, A!IsFiniteSet

LEMMA SameCardinality ==
  ASSUME NEW T
  PROVE  A!Cardinality(T) = S!Cardinality(T)
BY DEF A!Cardinality, S!Cardinality

-----------------------------------------------------------------------------

(* What At does to the positions, and that it keeps the ones that tell     *)
(* tasks and counters apart.                                               *)
LEMMA AtKeeps ==
  /\ \A x \in S!PC : At(x) = x
  /\ \A x \in Looking : At(x) = "idling"
  /\ \A x \in Away \ Looking : At(x) = "pop"
  /\ At("registering") = "run"
  /\ \A x \in Positions : At(x) \in A!PC
  /\ \A x \in Positions, y \in S!PC \ {"pop", "run", "idling"} : At(x) = y <=> x = y
  /\ S!PC = A!PC
BY DEF At, Looking, Away, Polling, Positions, S!PC, S!Holding, S!Dozing, A!PC, A!Holding, A!Dozing

LEMMA AbsAt ==
  ASSUME pc \in [Threads -> Positions]
  PROVE  /\ AbsPc \in [A!Threads -> A!PC]
         /\ \A w \in Threads : AbsPc[w] = At(pc[w])
BY AtKeeps DEF AbsPc, Abs, Threads, A!Threads

LEMMA AbsNext == AbsPc' = Abs(pc')
BY DEF AbsPc, Abs

LEMMA AbsGoto ==
  ASSUME NEW p \in [Threads -> Positions], NEW w \in Threads, NEW at \in Positions,
         NEW q, q = [p EXCEPT ![w] = at]
  PROVE  q \in [Threads -> Positions] /\ Abs(q) = [Abs(p) EXCEPT ![w] = At(at)]
BY DEF Abs

(* The worker w moves, and the scheduler sees it move.                     *)
LEMMA AbsMove ==
  ASSUME pc \in [Threads -> Positions], NEW w \in Threads, NEW at \in Positions,
         pc' = S!Goto(w, at)
  PROVE  pc' \in [Threads -> Positions] /\ AbsPc' = A!Goto(w, At(at))
<1>1. pc' = [pc EXCEPT ![w] = at]
  BY DEF S!Goto
<1>2. pc' \in [Threads -> Positions] /\ Abs(pc') = [Abs(pc) EXCEPT ![w] = At(at)]
  BY <1>1, AbsGoto
<1> QED
  BY <1>2, AbsNext DEF A!Goto, AbsPc

(* goready, seen by the scheduler: notify_one finds the same sleeping      *)
(* threads, and the queue and the pending wakes change alike.              *)
LEMMA AbsWakeIdle ==
  ASSUME NEW p \in [Threads -> Positions], NEW q \in S!WakeIdle(p)
  PROVE  q \in [Threads -> Positions] /\ Abs(q) \in A!WakeIdle(Abs(p))
<1>1. \A v \in Threads : Abs(p)[v] = "asleep" <=> p[v] = "asleep"
  BY AtKeeps DEF Abs, S!PC, S!Dozing
<1>2. CASE q = p
  BY <1>1, <1>2 DEF S!WakeIdle, S!NotifyOne, A!WakeIdle, A!NotifyOne, Threads,
                    S!Threads, A!Threads
<1>3. CASE idle_workers > 0 /\ \E w \in Threads : p[w] = "asleep" /\ q = [p EXCEPT ![w] = "woken"]
  <2>1. PICK w \in Threads : p[w] = "asleep" /\ q = [p EXCEPT ![w] = "woken"]
    BY <1>3
  <2>2. "woken" \in Positions /\ At("woken") = "woken"
    BY AtKeeps DEF Positions, S!PC, S!Dozing
  <2>3. q \in [Threads -> Positions] /\ Abs(q) = [Abs(p) EXCEPT ![w] = At("woken")]
    <3>1. PICK at \in Positions : at = "woken"
      BY <2>2
    <3> QED
      BY <2>1, <3>1, AbsGoto
  <2> QED
    BY <1>1, <1>3, <2>1, <2>2, <2>3 DEF A!WakeIdle, A!NotifyOne, Threads, A!Threads
<1> QED
  BY <1>2, <1>3 DEF S!WakeIdle, S!NotifyOne, Threads, S!Threads

LEMMA AbsNotifyAll ==
  ASSUME NEW p \in [Threads -> Positions]
  PROVE  /\ S!NotifyAll(p) \in [Threads -> Positions]
         /\ Abs(S!NotifyAll(p)) = A!NotifyAll(Abs(p))
<1>1. \A v \in Threads : Abs(p)[v] = "asleep" <=> p[v] = "asleep"
  BY AtKeeps DEF Abs, S!PC, S!Dozing
<1>2. "woken" \in Positions /\ At("woken") = "woken"
  BY AtKeeps DEF Positions, S!PC, S!Dozing
<1> QED
  BY <1>1, <1>2 DEF Abs, S!NotifyAll, A!NotifyAll, Threads, S!Threads, A!Threads

LEMMA AbsDequeue ==
  ASSUME pc \in [Threads -> Positions], NEW w \in Threads, S!Dequeue(w)
  PROVE  A!Dequeue(w)
<1>1. "run" \in Positions /\ At("run") = "run"
  BY AtKeeps DEF Positions, S!PC, S!Holding
<1>2. AbsPc' = A!Goto(w, "run")
  BY <1>1, AbsMove DEF S!Dequeue
<1> QED
  BY <1>2 DEF S!Dequeue, A!Dequeue

LEMMA AbsShutdown ==
  ASSUME pc \in [Threads -> Positions], NEW w \in Threads, S!Shutdown(w)
  PROVE  A!Shutdown(w)
<1>1. "exit" \in Positions /\ At("exit") = "exit"
  BY AtKeeps DEF Positions, S!PC
<1>2. /\ S!Goto(w, "exit") \in [Threads -> Positions]
      /\ Abs(S!Goto(w, "exit")) = A!Goto(w, "exit")
  <2>1. S!Goto(w, "exit") = [pc EXCEPT ![w] = "exit"]
    BY DEF S!Goto
  <2> QED
    BY <1>1, <2>1, AbsGoto DEF A!Goto, AbsPc
<1>3. AbsPc' = A!NotifyAll(A!Goto(w, "exit"))
  BY <1>2, AbsNext, AbsNotifyAll DEF S!Shutdown
<1> QED
  BY <1>3 DEF S!Shutdown, A!Shutdown

LEMMA AbsReady ==
  ASSUME NEW p \in [Threads -> Positions], NEW t, S!ReadyTask(t, p)
  PROVE  A!ReadyTask(t, Abs(p))
BY AbsNext, AbsWakeIdle
   DEF S!ReadyTask, A!ReadyTask, S!Enqueue, A!Enqueue

-----------------------------------------------------------------------------
(* The scheduler's own actions                                             *)

(* A worker that registers, and what a task that runs, parks or blocks     *)
(* does.                                                                   *)
LEMMA AbsHolder ==
  ASSUME pc \in [Threads -> Positions], NEW w \in Threads
  PROVE  /\ S!Register(w)       => A!Register(w)
         /\ S!Gopark(w)         => A!Gopark(w)
         /\ S!LeaveBlocking(w)  => A!LeaveBlocking(w)
         /\ S!Gosched(w)        => A!Gosched(w)
         /\ S!Finish(w)         => A!Finish(w)
         /\ S!SpuriousWakeup(w) => A!SpuriousWakeup(w)
<1>1. ASSUME NEW at \in S!PC, pc' = S!Goto(w, at)
      PROVE  AbsPc' = A!Goto(w, at)
  BY <1>1, AbsMove, AtKeeps DEF Positions
<1>2. /\ {"pop", "switched", "run", "woken"} \subseteq S!PC
      /\ pc[w] \in S!PC => AbsPc[w] = pc[w]
      /\ {"start", "parking", "blocking", "run", "asleep"} \subseteq S!PC
  BY AbsAt, AtKeeps DEF S!PC, S!Holding, S!Dozing
<1> QED
  BY <1>1, <1>2
     DEF S!Register, A!Register, S!Gopark, A!Gopark, S!LeaveBlocking, A!LeaveBlocking,
         S!Gosched, A!Gosched, S!Finish, A!Finish, S!SpuriousWakeup, A!SpuriousWakeup,
         S!queue, A!queue

LEMMA AbsPop ==
  ASSUME pc \in [Threads -> Positions], NEW w \in Threads
  PROVE  S!Pop(w) => A!Pop(w)
<1>1. pc[w] = "pop" => AbsPc[w] = "pop"
  BY AbsAt, AtKeeps DEF S!PC
<1> QED
  BY <1>1, AbsDequeue DEF S!Pop, A!Pop

LEMMA AbsGoIdle ==
  ASSUME pc \in [Threads -> Positions], NEW w \in Threads, NEW outside,
         S!GoIdle(w, outside)
  PROVE  A!GoIdle(w, outside)
<1>1. AbsPc[w] = "idling"
  BY AbsAt, AtKeeps DEF S!GoIdle, S!PC
<1>2. pc' = S!Goto(w, "asleep") => AbsPc' = A!Goto(w, "asleep")
  BY AbsMove, AtKeeps DEF Positions, S!PC, S!Dozing
<1> QED
  BY <1>1, <1>2, AbsShutdown
     DEF S!GoIdle, A!GoIdle, S!ShouldTerminate, A!ShouldTerminate

LEMMA AbsWakeUp ==
  ASSUME pc \in [Threads -> Positions], NEW w \in Threads, NEW outside,
         S!WakeUp(w, outside)
  PROVE  A!WakeUp(w, outside)
<1>1. AbsPc[w] = "woken"
  BY AbsAt, AtKeeps DEF S!WakeUp, S!PC, S!Dozing
<1>2. pc' = S!Goto(w, "pop") => AbsPc' = A!Goto(w, "pop")
  BY AbsMove, AtKeeps DEF Positions, S!PC
<1> QED
  BY <1>1, <1>2, AbsShutdown, AbsDequeue
     DEF S!WakeUp, A!WakeUp, S!ShouldTerminate, A!ShouldTerminate

LEMMA AbsSettle ==
  ASSUME pc \in [Threads -> Positions], NEW w \in Threads, S!Settle(w)
  PROVE  A!Settle(w)
<1>1. AbsPc[w] = "switched"
  BY AbsAt, AtKeeps DEF S!Settle, S!PC, S!Holding
<1>2. pc' = S!Goto(w, "pop") => AbsPc' = A!Goto(w, "pop")
  BY AbsMove, AtKeeps DEF Positions, S!PC
<1>3. pc' \in S!WakeIdle(S!Goto(w, "pop")) => AbsPc' \in A!WakeIdle(A!Goto(w, "pop"))
  <2>1. /\ S!Goto(w, "pop") \in [Threads -> Positions]
        /\ Abs(S!Goto(w, "pop")) = [Abs(pc) EXCEPT ![w] = At("pop")]
    <3>1. PICK at \in Positions : at = "pop"
      BY DEF Positions, S!PC
    <3>2. S!Goto(w, "pop") = [pc EXCEPT ![w] = at]
      BY <3>1 DEF S!Goto
    <3> QED
      BY <3>1, <3>2, AbsGoto
  <2>2. Abs(S!Goto(w, "pop")) = A!Goto(w, "pop")
    BY <2>1, AtKeeps DEF A!Goto, AbsPc, S!PC
  <2> QED
    BY <2>1, <2>2, AbsWakeIdle, AbsNext
<1>4. S!SettleDead(w) => A!SettleDead(w)
  BY <1>2 DEF S!SettleDead, A!SettleDead
<1>5. S!SettleParked(w) => A!SettleParked(w)
  BY <1>2, <1>3 DEF S!SettleParked, A!SettleParked, S!Enqueue, A!Enqueue
<1>6. S!SettleYielded(w) => A!SettleYielded(w)
  BY <1>2 DEF S!SettleYielded, A!SettleYielded, S!Enqueue, A!Enqueue
<1> QED
  BY <1>1, <1>4, <1>5, <1>6 DEF S!Settle, A!Settle

LEMMA AbsSpawnWorker ==
  ASSUME pc \in [Threads -> Positions], NEW w \in Threads, S!SpawnWorker(w)
  PROVE  A!SpawnWorker(w)
<1>1. PICK s \in Spares : pc[s] = "none" /\ pc' = [pc EXCEPT ![s] = "start", ![w] = "blocking"]
  BY DEF S!SpawnWorker
<1>2. s \in Threads /\ AbsPc[w] = "spawning" /\ AbsPc[s] = "none"
  BY <1>1, AbsAt, AtKeeps DEF S!SpawnWorker, S!PC, S!Holding, Threads
<1>3. AbsPc' = [AbsPc EXCEPT ![s] = "start", ![w] = "blocking"]
  <2>1. At("start") = "start" /\ At("blocking") = "blocking"
    BY AtKeeps DEF S!PC, S!Holding
  <2> QED
    BY <1>1, <1>2, <2>1, AbsNext DEF AbsPc, Abs
<1> QED
  BY <1>1, <1>2, <1>3 DEF S!SpawnWorker, A!SpawnWorker, S!queue, A!queue

LEMMA AbsCreateTask ==
  ASSUME pc \in [Threads -> Positions], NEW t, S!CreateTask(t)
  PROVE  A!CreateTask(t)
<1>1. AbsPc' \in A!WakeIdle(AbsPc)
  BY AbsWakeIdle, AbsNext DEF S!CreateTask, AbsPc
<1> QED
  BY <1>1 DEF S!CreateTask, A!CreateTask, S!Enqueue, A!Enqueue

LEMMA AbsGo ==
  ASSUME pc \in [Threads -> Positions], NEW w \in Threads, NEW t, S!Go(w, t)
  PROVE  A!Go(w, t)
<1>1. AbsPc[w] = "run"
  BY AbsAt, AtKeeps DEF S!Go, S!PC, S!Holding
<1> QED
  BY <1>1, AbsCreateTask DEF S!Go, A!Go, S!Submitted, A!Submitted

LEMMA AbsEnterBlocking ==
  ASSUME pc \in [Threads -> Positions], NEW w \in Threads, S!EnterBlocking(w)
  PROVE  A!EnterBlocking(w)
<1>1. AbsPc[w] = "run"
  BY AbsAt, AtKeeps DEF S!EnterBlocking, S!PC, S!Holding
<1>2. /\ A!In({"spawning"}) = S!In({"spawning"})
      /\ A!In({"none"}) = S!In({"none"})
  BY AbsAt, AtKeeps
     DEF A!In, S!In, A!Threads, S!Threads, Threads, S!PC, S!Holding
<1>3. ASSUME NEW at \in {"spawning", "blocking"}, pc' = S!Goto(w, at)
      PROVE  AbsPc' = A!Goto(w, at)
  BY <1>3, AbsMove, AtKeeps DEF Positions, S!PC, S!Holding
<1> QED
  BY <1>1, <1>2, <1>3, SameCardinality DEF S!EnterBlocking, A!EnterBlocking, S!queue, A!queue

LEMMA AbsMainStep ==
  ASSUME pc \in [Threads -> Positions], S!MainStep
  PROVE  A!MainStep
<1>1. ASSUME NEW t \in Tasks, S!Submit(t) PROVE A!Submit(t)
  BY <1>1, AbsCreateTask DEF S!Submit, A!Submit
<1>2. S!StartRuntime => A!StartRuntime
  <2>1. At("start") = "start"
    BY AtKeeps DEF S!PC
  <2>2. ASSUME S!StartRuntime
        PROVE  AbsPc' = [w \in A!Threads |-> IF w \in Workers THEN "start" ELSE AbsPc[w]]
    BY <2>1, <2>2, AbsNext DEF S!StartRuntime, AbsPc, Abs, A!Threads, S!Threads, Threads
  <2> QED
    BY <2>2 DEF S!StartRuntime, A!StartRuntime, S!queue, A!queue
<1>3. S!Join => A!Join
  <2>1. \A w \in Workers : pc[w] = "exit" => AbsPc[w] = "exit"
    BY AbsAt, AtKeeps DEF S!PC, Threads
  <2>2. UNCHANGED pc => UNCHANGED AbsPc
    BY DEF AbsPc, Abs
  <2> QED
    BY <2>1, <2>2 DEF S!Join, A!Join, S!queue, A!queue
<1> QED
  BY <1>1, <1>2, <1>3 DEF S!MainStep, A!MainStep

-----------------------------------------------------------------------------
(* How threads move.                                                       *)

LocalState == [net : BOOLEAN, timer : BOOLEAN, now : SUBSET Tasks,
               popped : Tasks \cup {NoTask}, events : SUBSET Readers,
               ready : SUBSET Readers]

Types ==
  /\ pc \in [Threads -> Positions]
  /\ polling \in BOOLEAN
  /\ timers \in SUBSET Sleepers
  /\ due \in SUBSET Tasks
  /\ watched \in SUBSET Readers
  /\ fds \in SUBSET Readers
  /\ readable \in SUBSET Readers
  /\ local \in [Threads -> LocalState]
  /\ \A w \in Threads : pc[w] = "registering" => current_task[w] \in Readers

(* The thread w moves, and may notify another.                             *)
Moves(w, to) ==
  /\ pc' \in [Threads -> Positions]
  /\ pc'[w] = to
  /\ \A v \in Threads \ {w} : pc'[v] = pc[v] \/ {pc[v], pc'[v]} \subseteq S!Dozing

Drowsy == {"idling", "asleep", "woken", "exit"}

(* No thread enters or leaves the poller, nor net_poll_read; none is about *)
(* to park, or about to sleep on the condition variable, that was not.     *)
PollersStay ==
  /\ pc' \in [Threads -> Positions]
  /\ \A v \in Threads : pc'[v] = pc[v] \/ {pc[v], pc'[v]} \subseteq S!PC
  /\ \A v \in Threads : pc[v] = "registering" => current_task'[v] = current_task[v]
  /\ \A v \in Threads :
       pc'[v] = "parking" => pc[v] = "parking" /\ current_task'[v] = current_task[v]
  /\ \A v \in Threads : pc'[v] \in Drowsy => pc[v] \in Drowsy

(* The steps that TimerRuntime takes over from Scheduler.                  *)
SchedulerStep ==
  \/ \E w \in Threads :
       \/ S!Register(w) \/ S!Pop(w) \/ S!Settle(w) \/ S!Gopark(w)
       \/ S!SpawnWorker(w) \/ S!LeaveBlocking(w) \/ S!Gosched(w) \/ S!Finish(w)
       \/ S!EnterBlocking(w) \/ S!SpuriousWakeup(w)
       \/ \E outside \in BOOLEAN : S!GoIdle(w, outside) \/ S!WakeUp(w, outside)
       \/ \E t \in Tasks : S!Go(w, t)
  \/ S!MainStep

LEMMA WakeIdleMoves ==
  ASSUME NEW p \in [Threads -> Positions], NEW q \in S!WakeIdle(p)
  PROVE  /\ q \in [Threads -> Positions]
         /\ \A v \in Threads : q[v] = p[v] \/ (p[v] = "asleep" /\ q[v] = "woken")
<1>1. q \in [Threads -> Positions]
  BY AbsWakeIdle
<1>2. q = p \/ \E w \in Threads : p[w] = "asleep" /\ q = [p EXCEPT ![w] = "woken"]
  BY DEF S!WakeIdle, S!NotifyOne, Threads, S!Threads
<1> QED
  BY <1>1, <1>2

LEMMA StepMoves ==
  ASSUME Types, NEW w \in Threads, NEW from, NEW to \in Positions, Step(w, from, to)
  PROVE  pc[w] = from /\ Moves(w, to) /\ UNCHANGED sched
BY DEF Step, Types, Moves, S!Goto

LEMMA ReadyMoves ==
  ASSUME Types, NEW w \in Threads, NEW to \in Positions \ S!Dozing, NEW t,
         S!ReadyTask(t, S!Goto(w, to))
  PROVE  Moves(w, to)
<1>1. /\ S!Goto(w, to) \in [Threads -> Positions]
      /\ S!Goto(w, to)[w] = to
      /\ \A v \in Threads \ {w} : S!Goto(w, to)[v] = pc[v]
  BY DEF Types, S!Goto
<1>2. pc' = S!Goto(w, to) \/ pc' \in S!WakeIdle(S!Goto(w, to))
  BY DEF S!ReadyTask
<1> HIDE DEF S!Goto
<1>3. /\ pc' \in [Threads -> Positions]
      /\ \A v \in Threads : \/ pc'[v] = S!Goto(w, to)[v]
                            \/ S!Goto(w, to)[v] = "asleep" /\ pc'[v] = "woken"
  BY <1>1, <1>2, WakeIdleMoves
<1> QED
  BY <1>1, <1>3 DEF Moves, S!Dozing

LEMMA SchedulerPollersStay ==
  ASSUME Types, A!IInv, SchedulerStep
  PROVE  PollersStay
<1>a. /\ current_task \in [Threads -> Tasks \cup {NoTask}]
      /\ main # "join" => \A w \in Workers : AbsPc[w] \in {"none", "exit"}
  BY DEF A!IInv, A!Shape, A!WorkersOutside, A!Threads, Threads
<1>p. /\ S!PC \subseteq Positions /\ "registering" \notin S!PC
      /\ pc \in [Threads -> Positions]
      /\ {"asleep", "woken"} \subseteq S!PC
  BY DEF Types, Positions, S!PC, S!Holding, S!Dozing
<1>1. ASSUME NEW w \in Threads, NEW at \in S!PC \ {"parking"}, pc[w] \in S!PC,
             \/ pc' = S!Goto(w, at)
             \/ pc' = S!NotifyAll(S!Goto(w, at))
             \/ pc' \in S!WakeIdle(S!Goto(w, at)),
             \A v \in Threads \ {w} : current_task'[v] = current_task[v],
             at \in Drowsy => pc[w] \in Drowsy
      PROVE  PollersStay
  <2>1. /\ S!Goto(w, at) \in [Threads -> Positions]
        /\ S!Goto(w, at)[w] = at
        /\ \A v \in Threads \ {w} : S!Goto(w, at)[v] = pc[v]
    BY <1>p DEF S!Goto
  <2>2. /\ pc' \in [Threads -> Positions]
        /\ \A v \in Threads : \/ pc'[v] = S!Goto(w, at)[v]
                              \/ S!Goto(w, at)[v] = "asleep" /\ pc'[v] = "woken"
    <3>1. CASE pc' = S!Goto(w, at)
      BY <2>1, <3>1
    <3>2. CASE pc' = S!NotifyAll(S!Goto(w, at))
      BY <2>1, <3>2, AbsNotifyAll DEF S!NotifyAll, S!Threads, Threads
    <3>3. CASE pc' \in S!WakeIdle(S!Goto(w, at))
      BY <2>1, <3>3, WakeIdleMoves
    <3> QED
      BY <1>1, <3>1, <3>2, <3>3
  <2> QED
    BY <1>1, <1>p, <2>1, <2>2 DEF PollersStay, Drowsy
<1>2. ASSUME NEW w \in Threads,
             S!Register(w) \/ S!Gopark(w) \/ S!LeaveBlocking(w) \/ S!Gosched(w)
               \/ S!Finish(w) \/ S!EnterBlocking(w) \/ S!SpuriousWakeup(w)
      PROVE  PollersStay
  <2>1. /\ pc[w] \in S!PC /\ UNCHANGED current_task
        /\ \E at \in S!PC \ {"parking"} :
             pc' = S!Goto(w, at) /\ (at \in Drowsy => pc[w] \in Drowsy)
    BY <1>2 DEF Drowsy, S!Register, S!Gopark, S!LeaveBlocking, S!Gosched, S!Finish,
                S!EnterBlocking, S!SpuriousWakeup, S!PC, S!Holding, S!Dozing
  <2> QED
    BY <1>1, <2>1
<1>3. ASSUME NEW w \in Threads, NEW outside,
             S!Pop(w) \/ S!GoIdle(w, outside) \/ S!WakeUp(w, outside) \/ S!Settle(w)
      PROVE  PollersStay
  <2>1. pc[w] \in S!PC
    BY <1>3 DEF S!Pop, S!GoIdle, S!WakeUp, S!Settle, S!PC, S!Holding, S!Dozing
  <2>2. \A v \in Threads \ {w} : current_task'[v] = current_task[v]
    BY <1>3, <1>a DEF S!Pop, S!GoIdle, S!WakeUp, S!Settle, S!Dequeue, S!Shutdown
  <2>3. \E at \in S!PC \ {"parking"} :
          /\ \/ pc' = S!Goto(w, at)
             \/ pc' = S!NotifyAll(S!Goto(w, at))
             \/ pc' \in S!WakeIdle(S!Goto(w, at))
          /\ at \in Drowsy => pc[w] \in Drowsy
    BY <1>3 DEF Drowsy, S!Pop, S!GoIdle, S!WakeUp, S!Settle, S!Dequeue, S!Shutdown, S!SettleDead,
                S!SettleParked, S!SettleYielded, S!PC, S!Holding, S!Dozing
  <2> QED
    BY <1>1, <2>1, <2>2, <2>3
<1>4. ASSUME NEW t, S!CreateTask(t) PROVE PollersStay
  BY <1>4, <1>p, WakeIdleMoves DEF S!CreateTask, PollersStay, Drowsy
<1>5. ASSUME NEW w \in Threads, S!SpawnWorker(w) PROVE PollersStay
  <2>1. PICK s \in Spares : /\ pc[s] = "none" /\ pc[w] = "spawning"
                            /\ pc' = [pc EXCEPT ![s] = "start", ![w] = "blocking"]
                            /\ UNCHANGED current_task
    BY <1>5 DEF S!SpawnWorker
  <2>2. {"none", "spawning", "start", "blocking"} \subseteq S!PC
    BY DEF S!PC, S!Holding
  <2> QED
    BY <1>p, <2>1, <2>2 DEF PollersStay, Drowsy, Threads
<1>6. CASE S!MainStep
  <2>1. CASE S!StartRuntime
    <3>1. /\ pc' = [w \in Threads |-> IF w \in Workers THEN "start" ELSE pc[w]]
          /\ UNCHANGED current_task
          /\ \A w \in Workers : AbsPc[w] \in {"none", "exit"}
      BY <1>a, <2>1 DEF S!StartRuntime, S!Threads, Threads
    <3>2. \A w \in Workers : pc[w] \in {"none", "exit"}
      BY <1>p, <3>1, AbsAt, AtKeeps DEF S!PC, Threads
    <3>3. {"none", "exit", "start"} \subseteq S!PC
      BY DEF S!PC
    <3> QED
      BY <1>p, <3>1, <3>2, <3>3 DEF PollersStay, Drowsy
  <2>2. CASE S!Join
    BY <1>p, <2>2 DEF S!Join, PollersStay
  <2> QED
    BY <1>4, <1>6, <2>1, <2>2 DEF S!MainStep, S!Submit
<1> QED
  BY <1>2, <1>3, <1>4, <1>5, <1>6 DEF SchedulerStep, S!Go

-----------------------------------------------------------------------------
(* What a step of TimerRuntime is.                                         *)

Unpolled == UNCHANGED <<polling, timers, due, watched, fds, readable>>

(* A step of the scheduler.  The worker that goes idle forgets what it     *)
(* remembered while it polled.                                             *)
QuietStep ==
  /\ SchedulerStep
  /\ Unpolled
  /\ \/ UNCHANGED local
     \/ \E w \in Threads : /\ pc[w] = "idling"
                           /\ local' = [local EXCEPT ![w] = NoLocals]

(* A step of the poller, or of a task, that leaves the scheduler alone.    *)
LookStep(w) ==
  \/ PopNothing(w) \/ Claim(w) \/ LookForNet(w) \/ LookForTimers(w) \/ PopTimer(w)
  \/ FirstCheckDone(w) \/ WaitOver(w) \/ MapEvents(w) \/ SecondCheckDone(w)
  \/ Release(w) \/ ObserveNet(w) \/ ObserveTimers(w)

LEMMA StepKinds ==
  ASSUME Types, [Next]_vars
  PROVE  \/ QuietStep
         \/ \E w \in Threads :
              \/ LookStep(w) \/ FireTimer(w) \/ Deliver(w) \/ Sleep(w)
              \/ RegisterRead(w) \/ FileRead(w) \/ Unregister(w) \/ Unfile(w)
         \/ \E t \in Tasks : Expire(t) \/ DataArrives(t)
         \/ UNCHANGED vars
<1>1. ASSUME NEW w \in Threads, GoIdle(w) PROVE QuietStep
  <2>1. /\ S!GoIdle(w, local[w].net \/ local[w].timer)
        /\ (local[w].net \/ local[w].timer) \in BOOLEAN
    BY <1>1 DEF GoIdle
  <2>2. pc[w] = "idling" /\ Unpolled /\ local' = [local EXCEPT ![w] = NoLocals]
    BY <1>1 DEF GoIdle, S!GoIdle, Unpolled
  <2> QED
    BY <2>1, <2>2 DEF QuietStep, SchedulerStep
<1>2. ASSUME NEW w \in Threads, WakeUp(w) PROVE QuietStep
  <2>1. /\ S!WakeUp(w, fds # {} \/ timers # {})
        /\ (fds # {} \/ timers # {}) \in BOOLEAN
    BY <1>2 DEF WakeUp
  <2> QED
    BY <1>2, <2>1 DEF WakeUp, poller, QuietStep, SchedulerStep, Unpolled
<1>3. ASSUME NEW w \in Threads,
             \/ /\ UNCHANGED poller
                /\ \/ S!Register(w) \/ S!Pop(w) \/ S!Settle(w) \/ S!Gopark(w)
                   \/ S!SpawnWorker(w) \/ S!LeaveBlocking(w) \/ S!SpuriousWakeup(w)
             \/ Gosched(w) \/ Finish(w) \/ EnterBlocking(w)
             \/ \E t \in Tasks : Go(w, t)
      PROVE  QuietStep
  BY <1>3 DEF Gosched, Finish, EnterBlocking, Go, poller, QuietStep, SchedulerStep, Unpolled
<1>4. CASE MainStep
  BY <1>4 DEF MainStep, poller, QuietStep, SchedulerStep, Unpolled
<1> QED
  BY <1>1, <1>2, <1>3, <1>4 DEF Next, WorkerStep, LeaveStep, PollStep, LookStep

-----------------------------------------------------------------------------
(* The types.                                                              *)

LEMMA SetTypes ==
  ASSUME local \in [Threads -> LocalState], NEW w \in Threads, NEW x
  PROVE  /\ Set(w, "net", x) /\ x \in BOOLEAN => local' \in [Threads -> LocalState]
         /\ Set(w, "timer", x) /\ x \in BOOLEAN => local' \in [Threads -> LocalState]
         /\ Set(w, "ready", x) /\ x \in SUBSET Readers => local' \in [Threads -> LocalState]
BY DEF Set, LocalState

LEMMA MapLocal ==
  ASSUME Types, NEW w \in Threads, MapEvents(w)
  PROVE  /\ local' \in [Threads -> LocalState]
         /\ local'[w].ready = local[w].events \cap fds
         /\ local'[w].events = {}
         /\ local'[w].now = due
         /\ local'[w].popped = local[w].popped
         /\ \A v \in Threads \ {w} : local'[v] = local[v]
<1>1. PICK l : l = [local[w] EXCEPT !.ready = local[w].events \cap fds, !.events = {},
                                    !.now = due]
  OBVIOUS
<1>2. local[w] \in LocalState /\ due \in SUBSET Tasks /\ fds \in SUBSET Readers
  BY DEF Types
<1>3. /\ l \in LocalState
      /\ l.ready = local[w].events \cap fds /\ l.events = {} /\ l.now = due
      /\ l.popped = local[w].popped
  BY <1>1, <1>2 DEF LocalState
<1>4. local' = [local EXCEPT ![w] = l]
  BY <1>1, <1>2 DEF MapEvents, Types, LocalState
<1> QED
  BY <1>3, <1>4 DEF Types

LEMMA TypesNext ==
  ASSUME Types, A!IInv, [Next]_vars
  PROVE  Types'
<1>a. current_task \in [Threads -> Tasks \cup {NoTask}]
  BY DEF A!IInv, A!Shape, A!Threads, Threads
<1>p. Away \cup {"pop", "run", "parking", "idling", "registering"} \subseteq Positions
  BY DEF Positions, S!PC, S!Holding
<1>1. CASE QuietStep
  <2>1. PollersStay
    BY <1>1, SchedulerPollersStay DEF QuietStep
  <2>2. "registering" \notin S!PC
    BY DEF S!PC, S!Holding, S!Dozing
  <2>3. local' \in [Threads -> LocalState]
    <3>1. NoLocals \in LocalState
      BY DEF NoLocals, LocalState
    <3> QED
      BY <1>1, <3>1 DEF QuietStep, Types
  <2> QED
    BY <1>1, <2>1, <2>2, <2>3 DEF QuietStep, Unpolled, PollersStay, Types
<1>2. ASSUME NEW w \in Threads, LookStep(w) PROVE Types'
  <2>1. \E from, to \in Away \cup {"pop", "idling"} : Step(w, from, to)
    BY <1>2 DEF LookStep, PopNothing, Claim, LookForNet, LookForTimers, PopTimer,
               FirstCheckDone, WaitOver, MapEvents, SecondCheckDone, Release, ObserveNet,
               ObserveTimers, Away, Polling
  <2>2. PICK to \in Away \cup {"pop", "idling"} : Moves(w, to) /\ UNCHANGED sched
    BY <1>p, <2>1, StepMoves
  <2>3. /\ pc' \in [Threads -> Positions]
        /\ \A v \in Threads : pc'[v] = "registering" => current_task'[v] \in Readers
    BY <2>2 DEF Moves, Types, sched, S!Dozing, Away, Polling
  <2>4. /\ polling' \in BOOLEAN /\ timers' \in SUBSET Sleepers /\ watched' \in SUBSET Readers
        /\ UNCHANGED <<due, fds, readable>>
    BY <1>2 DEF LookStep, PopNothing, Claim, LookForNet, LookForTimers, PopTimer,
               FirstCheckDone, WaitOver, MapEvents, SecondCheckDone, Release, ObserveNet,
               ObserveTimers, Types, poller
  <2>5. local' \in [Threads -> LocalState]
    <3>1. ASSUME LookForNet(w) \/ ObserveNet(w) \/ ObserveTimers(w)
          PROVE  local' \in [Threads -> LocalState]
      <4>1. \E b \in BOOLEAN : Set(w, "net", b) \/ Set(w, "timer", b)
        <5>1. (fds # {}) \in BOOLEAN /\ (timers # {}) \in BOOLEAN
          OBVIOUS
        <5> QED
          BY <3>1, <5>1 DEF LookForNet, ObserveNet, ObserveTimers
      <4> QED
        BY <4>1, SetTypes DEF Types
    <3>2. ASSUME LookForTimers(w) PROVE local' \in [Threads -> LocalState]
      BY <3>2 DEF LookForTimers, Types, Set, LocalState
    <3>3. ASSUME PopTimer(w) PROVE local' \in [Threads -> LocalState]
      BY <3>3, TimerAssumption DEF PopTimer, Types, Set, LocalState
    <3>4. ASSUME WaitOver(w) PROVE local' \in [Threads -> LocalState]
      BY <3>4 DEF WaitOver, Types, Set, LocalState
    <3>5. ASSUME MapEvents(w) PROVE local' \in [Threads -> LocalState]
      BY <3>5, MapLocal DEF Types
    <3> QED
      BY <1>2, <3>1, <3>2, <3>3, <3>4, <3>5
         DEF LookStep, PopNothing, Claim, FirstCheckDone, SecondCheckDone, Release,
             Types, poller
  <2> QED
    BY <2>3, <2>4, <2>5 DEF Types
<1>3. ASSUME NEW w \in Threads, FireTimer(w) PROVE Types'
  <2>1. PICK to \in {"check1", "check2"} : S!ReadyTask(local[w].popped, S!Goto(w, to))
    BY <1>3 DEF FireTimer
  <2>2. Moves(w, to) /\ UNCHANGED current_task
    BY <1>3, <1>p, <2>1, ReadyMoves DEF FireTimer, Away, Polling, S!Dozing
  <2>3. /\ pc' \in [Threads -> Positions]
        /\ \A v \in Threads : pc'[v] = "registering" => current_task'[v] \in Readers
    BY <2>2 DEF Moves, Types, S!Dozing
  <2> QED
    BY <1>3, <2>3 DEF FireTimer, Types, Set, LocalState
<1>4. ASSUME NEW w \in Threads, Deliver(w) PROVE Types'
  <2>1. CASE Step(w, "deliver", "pop") /\ local' = [local EXCEPT ![w] = NoLocals]
    <3>1. Moves(w, "pop") /\ UNCHANGED sched
      BY <1>p, <2>1, StepMoves
    <3>2. NoLocals \in LocalState
      BY DEF NoLocals, LocalState
    <3> QED
      BY <1>4, <2>1, <3>1, <3>2 DEF Deliver, Moves, Types, sched, S!Dozing
  <2>2. ASSUME NEW t \in local[w].ready, S!ReadyTask(t, pc), UNCHANGED current_task,
               Set(w, "ready", local[w].ready \ {t})
        PROVE  Types'
    <3>1. /\ pc' \in [Threads -> Positions]
          /\ \A v \in Threads : pc'[v] = pc[v] \/ pc'[v] = "woken"
      BY <2>2, WakeIdleMoves DEF S!ReadyTask, Types
    <3>2. local[w].ready \ {t} \in SUBSET Readers
      BY DEF Types, LocalState
    <3>3. local' \in [Threads -> LocalState]
      BY <2>2, <3>2, SetTypes DEF Types
    <3> QED
      BY <1>4, <2>2, <3>1, <3>3 DEF Deliver, Types
  <2> QED
    BY <1>4, <2>1, <2>2 DEF Deliver
<1>5. ASSUME NEW w \in Threads, Sleep(w) PROVE Types'
  <2>1. Moves(w, "parking") /\ UNCHANGED sched /\ current_task[w] \in Sleepers
    BY <1>5, <1>p, StepMoves DEF Sleep
  <2>2. local' \in [Threads -> LocalState]
    BY <1>5 DEF Sleep, Types, LocalState
  <2> QED
    BY <1>5, <2>1, <2>2 DEF Sleep, Moves, Types, sched, S!Dozing
<1>6. ASSUME NEW w \in Threads, RegisterRead(w) PROVE Types'
  <2>1. Moves(w, "registering") /\ UNCHANGED sched /\ current_task[w] \in Readers
    BY <1>6, <1>p, StepMoves DEF RegisterRead
  <2> QED
    BY <1>6, <2>1 DEF RegisterRead, Moves, Types, sched, S!Dozing
<1>7. ASSUME NEW w \in Threads, FileRead(w) PROVE Types'
  <2>1. Moves(w, "parking") /\ UNCHANGED sched /\ current_task[w] \in Readers
    BY <1>7, <1>p, StepMoves DEF FileRead, Types
  <2> QED
    BY <1>7, <2>1 DEF FileRead, Moves, Types, sched, S!Dozing
<1>8. ASSUME NEW w \in Threads, Unregister(w) \/ Unfile(w) PROVE Types'
  BY <1>8 DEF Unregister, Unfile, Types, sched
<1>9. ASSUME NEW t \in Tasks, Expire(t) \/ DataArrives(t) PROVE Types'
  BY <1>9 DEF Expire, DataArrives, Types, sched
<1>10. CASE UNCHANGED vars
  BY <1>10 DEF vars, sched, poller, Types
<1> QED
  BY <1>1, <1>2, <1>3, <1>4, <1>5, <1>6, <1>7, <1>8, <1>9, <1>10, StepKinds

-----------------------------------------------------------------------------
(* What a thread remembers, and when.                                      *)

Remembers(w) ==
  /\ local[w].popped # NoTask <=> pc[w] \in {"fire1", "fire2"}
  /\ local[w].events # {} => pc[w] = "map"
  /\ local[w].ready # {} => pc[w] \in {"check2", "fire2", "release", "deliver"}

Memory == \A w \in Threads : Remembers(w)

LEMMA OthersRemember ==
  ASSUME Types, Memory, NEW w \in Threads, NEW to, Moves(w, to), Remembers(w)',
         \A v \in Threads \ {w} : local'[v] = local[v]
  PROVE  Memory'
BY DEF Memory, Remembers, Moves, S!Dozing

(* Where the steps of the poller lead ...                                  *)
LEMMA LookMoves ==
  ASSUME Types, NEW w \in Threads, LookStep(w)
  PROVE  /\ Moves(w, pc'[w]) /\ UNCHANGED sched
         /\ {pc[w], pc'[w]} \subseteq Away \cup {"pop", "idling"}
         /\ PopNothing(w)      => pc[w] = "pop" /\ pc'[w] = "poll"
         /\ Claim(w)           => pc[w] = "poll" /\ pc'[w] = IF polling THEN "observe" ELSE "look"
         /\ LookForNet(w)      => pc[w] = "look" /\ pc'[w] = "look2"
         /\ LookForTimers(w)   => pc[w] = "look2" /\ pc'[w] \in {"unclaim", "check1"}
         /\ PopTimer(w)        => \/ pc[w] = "check1" /\ pc'[w] = "fire1"
                                  \/ pc[w] = "check2" /\ pc'[w] = "fire2"
         /\ FirstCheckDone(w)  => pc[w] = "check1" /\ pc'[w] \in {"giveup", "wait"}
         /\ WaitOver(w)        => pc[w] = "wait" /\ pc'[w] = IF local[w].net THEN "map" ELSE "check2"
         /\ MapEvents(w)       => pc[w] = "map" /\ pc'[w] = "check2"
         /\ SecondCheckDone(w) => pc[w] = "check2" /\ pc'[w] = "release"
         /\ Release(w)         => \/ pc[w] = "unclaim" /\ pc'[w] = "observe"
                                  \/ pc[w] = "giveup"  /\ pc'[w] = "pop"
                                  \/ pc[w] = "release" /\ pc'[w] = "deliver"
         /\ ObserveNet(w)      => pc[w] = "observe" /\ pc'[w] = "observe2"
         /\ ObserveTimers(w)   => pc[w] = "observe2" /\ pc'[w] = "idling"
<1>p. Away \cup {"pop", "idling"} \subseteq Positions
  BY DEF Positions, S!PC
<1>1. ASSUME NEW from, NEW to \in Positions, Step(w, from, to)
      PROVE  pc[w] = from /\ pc'[w] = to /\ Moves(w, pc'[w]) /\ UNCHANGED sched
  BY <1>1, StepMoves DEF Moves
<1>2. PopNothing(w) => pc[w] = "pop" /\ pc'[w] = "poll"
  BY <1>p, <1>1 DEF PopNothing, Away
<1>3. Claim(w) => pc[w] = "poll" /\ pc'[w] = IF polling THEN "observe" ELSE "look"
  BY <1>p, <1>1 DEF Claim, Away, Polling
<1>4. LookForNet(w) => pc[w] = "look" /\ pc'[w] = "look2"
  BY <1>p, <1>1 DEF LookForNet, Away, Polling
<1>5. LookForTimers(w) => pc[w] = "look2" /\ pc'[w] \in {"unclaim", "check1"}
  BY <1>p, <1>1 DEF LookForTimers, Away, Polling
<1>6. PopTimer(w) => \/ pc[w] = "check1" /\ pc'[w] = "fire1"
                     \/ pc[w] = "check2" /\ pc'[w] = "fire2"
  BY <1>p, <1>1 DEF PopTimer, Away, Polling
<1>7. FirstCheckDone(w) => pc[w] = "check1" /\ pc'[w] \in {"giveup", "wait"}
  BY <1>p, <1>1 DEF FirstCheckDone, Away, Polling
<1>8. WaitOver(w) => pc[w] = "wait" /\ pc'[w] = IF local[w].net THEN "map" ELSE "check2"
  BY <1>p, <1>1 DEF WaitOver, Away, Polling
<1>9. MapEvents(w) => pc[w] = "map" /\ pc'[w] = "check2"
  BY <1>p, <1>1 DEF MapEvents, Away, Polling
<1>10. SecondCheckDone(w) => pc[w] = "check2" /\ pc'[w] = "release"
  BY <1>p, <1>1 DEF SecondCheckDone, Away, Polling
<1>11. Release(w) => \/ pc[w] = "unclaim" /\ pc'[w] = "observe"
                     \/ pc[w] = "giveup"  /\ pc'[w] = "pop"
                     \/ pc[w] = "release" /\ pc'[w] = "deliver"
  BY <1>p, <1>1 DEF Release, Away, Polling
<1>12. /\ ObserveNet(w) => pc[w] = "observe" /\ pc'[w] = "observe2"
       /\ ObserveTimers(w) => pc[w] = "observe2" /\ pc'[w] = "idling"
  BY <1>p, <1>1 DEF ObserveNet, ObserveTimers, Away
<1>13. Moves(w, pc'[w]) /\ UNCHANGED sched
  BY <1>p, <1>1
     DEF LookStep, PopNothing, Claim, LookForNet, LookForTimers, PopTimer, FirstCheckDone,
         WaitOver, MapEvents, SecondCheckDone, Release, ObserveNet, ObserveTimers, Away,
         Polling
<1>14. {pc[w], pc'[w]} \subseteq Away \cup {"pop", "idling"}
  BY <1>2, <1>3, <1>4, <1>5, <1>6, <1>7, <1>8, <1>9, <1>10, <1>11, <1>12
     DEF LookStep, Away, Polling
<1> QED
  BY <1>2, <1>3, <1>4, <1>5, <1>6, <1>7, <1>8, <1>9, <1>10, <1>11, <1>12, <1>13, <1>14

(* ... and what the thread remembers after them.                           *)
LookLocals(w) ==
  /\ \A v \in Threads \ {w} : local'[v] = local[v]
  /\ local'[w].now \in {local[w].now, due}
  /\ IF PopTimer(w) THEN local'[w].popped \in timers \cap local[w].now
                    ELSE local'[w].popped = local[w].popped
  /\ IF WaitOver(w) /\ local[w].net
     THEN local'[w].events \in {{}, watched \cap readable}
     ELSE local'[w].events = IF MapEvents(w) THEN {} ELSE local[w].events
  /\ local'[w].ready = IF MapEvents(w) THEN local[w].events \cap fds ELSE local[w].ready

LEMMA LookRemembers ==
  ASSUME Types, NEW w \in Threads, LookStep(w)
  PROVE  LookLocals(w)
<1>p. /\ PopTimer(w)  => pc'[w] \in {"fire1", "fire2"}
      /\ WaitOver(w)  => pc[w] = "wait"
      /\ MapEvents(w) => pc[w] = "map"
  BY LookMoves
<1>1. ASSUME UNCHANGED local, ~PopTimer(w), ~WaitOver(w), ~MapEvents(w) PROVE LookLocals(w)
  BY <1>1 DEF LookLocals
<1>2. ASSUME PopNothing(w) \/ Claim(w) \/ FirstCheckDone(w) \/ SecondCheckDone(w) \/ Release(w)
      PROVE  LookLocals(w)
  <2>1. pc[w] \notin {"wait", "map"} /\ pc'[w] \notin {"fire1", "fire2"}
    BY <1>2, LookMoves
  <2>2. UNCHANGED local
    BY <1>2 DEF PopNothing, Claim, FirstCheckDone, SecondCheckDone, Release, poller
  <2> QED
    BY <1>p, <1>1, <2>1, <2>2
<1>3. ASSUME LookForNet(w) \/ ObserveNet(w) \/ ObserveTimers(w) \/ LookForTimers(w)
      PROVE  LookLocals(w)
  <2>1. pc[w] \notin {"wait", "map"} /\ pc'[w] \notin {"fire1", "fire2"}
    BY <1>3, LookMoves
  <2>2. ASSUME NEW x, Set(w, "net", x) \/ Set(w, "timer", x)
        PROVE  LookLocals(w)
    BY <1>p, <2>1, <2>2 DEF LookLocals, Set, Types, LocalState
  <2>3. ASSUME Set(w, "now", due) PROVE LookLocals(w)
    BY <1>p, <2>1, <2>3 DEF LookLocals, Set, Types, LocalState
  <2> QED
    BY <1>3, <1>p, <1>1, <2>1, <2>2, <2>3
       DEF LookForNet, ObserveNet, ObserveTimers, LookForTimers
<1>4. ASSUME PopTimer(w) PROVE LookLocals(w)
  <2>1. PICK t \in timers \cap local[w].now : Set(w, "popped", t)
    BY <1>4 DEF PopTimer
  <2>2. pc[w] \notin {"wait", "map"}
    BY <1>4, LookMoves
  <2> QED
    BY <1>p, <1>4, <2>1, <2>2 DEF LookLocals, Set, Types, LocalState
<1>5. ASSUME WaitOver(w) PROVE LookLocals(w)
  <2>1. pc'[w] \notin {"fire1", "fire2"} /\ pc[w] # "map"
    BY <1>5, LookMoves
  <2>2. ASSUME Set(w, "now", due), ~local[w].net PROVE LookLocals(w)
    BY <1>p, <2>1, <2>2 DEF LookLocals, Set, Types, LocalState
  <2>3. ASSUME local[w].net, NEW r \in {{}, watched \cap readable}, Set(w, "events", r)
        PROVE  LookLocals(w)
    BY <1>5, <1>p, <2>1, <2>3 DEF LookLocals, Set, Types, LocalState
  <2> QED
    BY <1>5, <2>2, <2>3 DEF WaitOver
<1>6. ASSUME MapEvents(w) PROVE LookLocals(w)
  <2>1. pc'[w] \notin {"fire1", "fire2"} /\ pc[w] # "wait"
    BY <1>6, LookMoves
  <2> QED
    BY <1>6, <1>p, <2>1, MapLocal DEF LookLocals
<1> QED
  BY <1>2, <1>3, <1>4, <1>5, <1>6 DEF LookStep

LEMMA MemoryNext ==
  ASSUME Types, A!IInv, Memory, [Next]_vars
  PROVE  Memory'
<1>p. Away \cup {"pop", "run", "parking", "idling", "registering"} \subseteq Positions
  BY DEF Positions, S!PC, S!Holding
<1>n. /\ NoLocals.popped = NoTask /\ NoLocals.events = {} /\ NoLocals.ready = {}
      /\ NoLocals \in LocalState
  BY DEF NoLocals, LocalState
<1>1. CASE QuietStep
  <2>1. PollersStay
    BY <1>1, SchedulerPollersStay DEF QuietStep
  <2>2. S!PC \cap Away = {}
    BY DEF S!PC, S!Holding, S!Dozing, Away, Polling
  <2>3. ASSUME NEW v \in Threads PROVE Remembers(v)'
    <3>1. \/ local'[v] = local[v]
          \/ pc[v] = "idling" /\ local'[v] = NoLocals
      BY <1>1 DEF QuietStep, Types
    <3>2. CASE pc'[v] = pc[v]
      BY <1>n, <3>1, <3>2 DEF Memory, Remembers
    <3>3. CASE {pc[v], pc'[v]} \subseteq S!PC
      BY <1>n, <2>2, <3>1, <3>3 DEF Memory, Remembers, Away, Polling
    <3> QED
      BY <2>1, <3>2, <3>3 DEF PollersStay
  <2> QED
    BY <2>3 DEF Memory
<1>2. ASSUME NEW w \in Threads, LookStep(w) PROVE Memory'
  <2>1. Moves(w, pc'[w]) /\ LookLocals(w)
    BY <1>2, LookMoves, LookRemembers
  <2>2. /\ PopTimer(w)  => pc'[w] \in {"fire1", "fire2"}
        /\ ~PopTimer(w) => pc'[w] \notin {"fire1", "fire2"} /\ pc[w] \notin {"fire1", "fire2"}
    BY <1>2, LookMoves DEF LookStep
  <2>3. /\ WaitOver(w) => pc[w] = "wait" /\ pc'[w] = IF local[w].net THEN "map" ELSE "check2"
        /\ ~WaitOver(w) => pc'[w] # "map" /\ (pc[w] = "map" => MapEvents(w))
        /\ MapEvents(w) => pc'[w] = "check2"
    BY <1>2, LookMoves DEF LookStep
  <2>4. \/ pc[w] \notin {"check2", "fire2", "release", "deliver"}
        \/ pc'[w] \in {"fire2", "release", "deliver"}
    BY <1>2, LookMoves DEF LookStep
  <2>5. \/ local'[w].ready = local[w].ready
        \/ pc'[w] = "check2"
    BY <1>2, <2>1, <2>3 DEF LookLocals
  <2>6. local'[w].events # {} => pc'[w] = "map"
    BY <2>1, <2>3 DEF LookLocals, Memory, Remembers
  <2>7. local'[w].popped # NoTask <=> pc'[w] \in {"fire1", "fire2"}
    BY <2>1, <2>2, TimerAssumption DEF LookLocals, Memory, Remembers, Types
  <2>8. Remembers(w)'
    BY <2>4, <2>5, <2>6, <2>7 DEF Memory, Remembers
  <2> QED
    BY <2>1, <2>8, OthersRemember DEF LookLocals
<1>3. ASSUME NEW w \in Threads, FireTimer(w) PROVE Memory'
  <2>1. PICK to \in {"check1", "check2"} :
          /\ S!ReadyTask(local[w].popped, S!Goto(w, to))
          /\ pc[w] = IF to = "check1" THEN "fire1" ELSE "fire2"
    BY <1>3 DEF FireTimer
  <2>2. Moves(w, to)
    BY <1>p, <2>1, ReadyMoves DEF Away, Polling, S!Dozing
  <2>3. /\ local'[w].popped = NoTask
        /\ local'[w].events = local[w].events /\ local'[w].ready = local[w].ready
        /\ \A v \in Threads \ {w} : local'[v] = local[v]
    BY <1>3 DEF FireTimer, Set, Types, LocalState
  <2>4. Remembers(w)'
    BY <2>1, <2>2, <2>3 DEF Memory, Remembers, Moves
  <2> QED
    BY <2>2, <2>3, <2>4, OthersRemember
<1>4. ASSUME NEW w \in Threads, Deliver(w) PROVE Memory'
  <2>1. CASE Step(w, "deliver", "pop") /\ local' = [local EXCEPT ![w] = NoLocals]
    <3>1. Moves(w, "pop")
      BY <1>p, <2>1, StepMoves
    <3>2. Remembers(w)' /\ \A v \in Threads \ {w} : local'[v] = local[v]
      BY <1>n, <2>1, <3>1 DEF Types, Moves, Remembers
    <3> QED
      BY <3>1, <3>2, OthersRemember
  <2>2. ASSUME NEW t \in local[w].ready, S!ReadyTask(t, pc), pc[w] = "deliver",
               Set(w, "ready", local[w].ready \ {t})
        PROVE  Memory'
    <3>1. \A v \in Threads : pc'[v] = pc[v] \/ (pc[v] = "asleep" /\ pc'[v] = "woken")
      BY <2>2, WakeIdleMoves DEF S!ReadyTask, Types
    <3>2. \A v \in Threads : /\ local'[v].popped = local[v].popped
                            /\ local'[v].events = local[v].events
                            /\ local'[v].ready \subseteq local[v].ready
      BY <2>2 DEF Set, Types, LocalState
    <3> QED
      BY <3>1, <3>2 DEF Memory, Remembers
  <2> QED
    BY <1>4, <2>1, <2>2 DEF Deliver
<1>5. ASSUME NEW w \in Threads, Sleep(w) \/ RegisterRead(w) \/ FileRead(w) PROVE Memory'
  <2>1. PICK to \in {"parking", "registering"} :
          /\ pc[w] \in {"run", "registering"}
          /\ Moves(w, to)
    BY <1>5, <1>p, StepMoves DEF Sleep, RegisterRead, FileRead
  <2>2. \A v \in Threads : /\ local'[v].popped = local[v].popped
                          /\ local'[v].events = local[v].events
                          /\ local'[v].ready = local[v].ready
    BY <1>5 DEF Sleep, RegisterRead, FileRead, Types, LocalState
  <2> QED
    BY <2>1, <2>2 DEF Memory, Remembers, Moves, S!Dozing
<1>6. CASE UNCHANGED <<pc, local>>
  BY <1>6 DEF Memory, Remembers
<1> QED
  BY <1>1, <1>2, <1>3, <1>4, <1>5, <1>6, StepKinds
     DEF Unregister, Unfile, Expire, DataArrives, vars, sched, poller

-----------------------------------------------------------------------------
(* POLLING.                                                                *)

LEMMA SamePollers ==
  ASSUME OnePoller, UNCHANGED polling,
         \A v \in Threads : pc'[v] \in Polling <=> pc[v] \in Polling
  PROVE  OnePoller'
BY DEF OnePoller, S!In, S!Threads, Threads

LEMMA OnePollerNext ==
  ASSUME Types, A!IInv, OnePoller, [Next]_vars
  PROVE  OnePoller'
<1>p. /\ S!Dozing \cap Polling = {} /\ S!PC \cap Polling = {}
      /\ Away \cup {"pop", "run", "parking", "idling", "registering"} \subseteq Positions
  BY DEF Positions, S!PC, S!Holding, S!Dozing, Polling
<1>1. CASE QuietStep
  <2>1. PollersStay
    BY <1>1, SchedulerPollersStay DEF QuietStep
  <2> QED
    BY <1>1, <1>p, <2>1, SamePollers DEF QuietStep, Unpolled, PollersStay
<1>2. ASSUME NEW w \in Threads, NEW to, Moves(w, to), UNCHANGED polling,
             pc[w] \in Polling <=> to \in Polling
      PROVE  OnePoller'
  BY <1>2, <1>p, SamePollers DEF Moves
<1>3. ASSUME NEW w \in Threads, LookStep(w) PROVE OnePoller'
  <2>1. Moves(w, pc'[w])
    BY <1>3, LookMoves
  <2>2. CASE Claim(w) /\ ~polling
    <3>1. pc'[w] = "look" /\ polling' = TRUE
      BY <1>3, <2>2, LookMoves DEF Claim
    <3>2. \A v \in Threads \ {w} : pc'[v] \notin Polling
      BY <1>p, <2>1, <2>2 DEF Moves, OnePoller, S!In, S!Threads, Threads
    <3> QED
      BY <3>1, <3>2 DEF OnePoller, S!In, S!Threads, Threads, Polling
  <2>3. CASE Release(w)
    <3>1. pc[w] \in Polling /\ pc'[w] \notin Polling /\ polling' = FALSE
      BY <1>3, <2>3, LookMoves DEF Release, Polling
    <3>2. \A v \in Threads : pc'[v] \notin Polling
      BY <1>p, <2>1, <3>1 DEF Moves, OnePoller, S!In, S!Threads, Threads
    <3> QED
      BY <3>1, <3>2 DEF OnePoller, S!In, S!Threads, Threads
  <2>4. CASE ~Release(w) /\ ~(Claim(w) /\ ~polling)
    <3>1. UNCHANGED polling
      BY <1>3, <2>4
         DEF LookStep, PopNothing, Claim, LookForNet, LookForTimers, PopTimer,
             FirstCheckDone, WaitOver, MapEvents, SecondCheckDone, ObserveNet,
             ObserveTimers, poller
    <3>2. pc[w] \in Polling <=> pc'[w] \in Polling
      BY <1>3, <2>4, LookMoves DEF LookStep, Polling
    <3> QED
      BY <1>2, <2>1, <3>1, <3>2
  <2> QED
    BY <2>2, <2>3, <2>4
<1>4. ASSUME NEW w \in Threads, FireTimer(w) PROVE OnePoller'
  <2>1. PICK to \in {"check1", "check2"} :
          S!ReadyTask(local[w].popped, S!Goto(w, to)) /\ pc[w] \in Polling
    BY <1>4 DEF FireTimer, Polling
  <2>2. Moves(w, to) /\ to \in Polling
    BY <1>p, <2>1, ReadyMoves DEF Away, Polling, S!Dozing
  <2> QED
    BY <1>2, <1>4, <2>1, <2>2 DEF FireTimer
<1>5. ASSUME NEW w \in Threads, Deliver(w) PROVE OnePoller'
  <2>1. CASE Step(w, "deliver", "pop")
    <3>1. pc[w] = "deliver" /\ Moves(w, "pop")
      BY <1>p, <2>1, StepMoves
    <3> QED
      BY <1>2, <1>5, <3>1 DEF Deliver, Polling
  <2>2. ASSUME NEW t, S!ReadyTask(t, pc) PROVE OnePoller'
    <3>1. \A v \in Threads : pc'[v] = pc[v] \/ (pc[v] = "asleep" /\ pc'[v] = "woken")
      BY <2>2, WakeIdleMoves DEF S!ReadyTask, Types
    <3> QED
      BY <1>5, <3>1, SamePollers DEF Deliver, Polling
  <2> QED
    BY <1>5, <2>1, <2>2 DEF Deliver
<1>6. ASSUME NEW w \in Threads, Sleep(w) \/ RegisterRead(w) \/ FileRead(w) PROVE OnePoller'
  <2>1. PICK to \in {"parking", "registering"} :
          /\ pc[w] \in {"run", "registering"}
          /\ Moves(w, to)
    BY <1>6, <1>p, StepMoves DEF Sleep, RegisterRead, FileRead
  <2> QED
    BY <1>2, <1>6, <2>1 DEF Sleep, RegisterRead, FileRead, Polling
<1>7. CASE UNCHANGED <<pc, polling>>
  BY <1>7, SamePollers
<1> QED
  BY <1>1, <1>3, <1>4, <1>5, <1>6, <1>7, StepKinds
     DEF Unregister, Unfile, Expire, DataArrives, vars, sched, poller

-----------------------------------------------------------------------------
(* The clock and the heap.                                                 *)

(* A thread never takes a timer for expired whose wake_time has not come,  *)
(* although it goes on with the clock reading it took before: the entries  *)
(* of a later sleep are later than every reading taken so far.  A task     *)
(* whose wake_time has not come has its entry in the heap, and an entry    *)
(* that has been popped is not there any more.                             *)
Clock ==
  /\ \A w \in Threads : local[w].now \subseteq due
  /\ Popped \subseteq due
  /\ Tasks \ due \subseteq timers
  /\ timers \cap Popped = {}

LEMMA SameClock ==
  ASSUME Types, Clock, UNCHANGED timers, due \subseteq due',
         \A v \in Threads : /\ local'[v].now \in {{}, local[v].now, due}
                           /\ local'[v].popped \in {NoTask, local[v].popped}
  PROVE  Clock'
BY DEF Types, Clock, Popped

LEMMA ClockNext ==
  ASSUME Types, Memory, OnePoller, Clock, [Next]_vars
  PROVE  Clock'
<1>n. NoLocals.popped = NoTask /\ NoLocals.now = {}
  BY DEF NoLocals
<1>1. CASE QuietStep
  <2>1. UNCHANGED <<timers, due>>
    BY <1>1 DEF QuietStep, Unpolled
  <2>2. \A v \in Threads : /\ local'[v].now \in {{}, local[v].now, due}
                          /\ local'[v].popped \in {NoTask, local[v].popped}
    BY <1>1, <1>n DEF QuietStep, Types
  <2> QED
    BY <2>1, <2>2, SameClock
<1>2. ASSUME NEW w \in Threads, LookStep(w) PROVE Clock'
  <2>1. LookLocals(w)
    BY <1>2, LookRemembers
  <2>2. CASE PopTimer(w)
    <3>1. PICK t \in timers \cap local[w].now : timers' = timers \ {t} /\ Set(w, "popped", t)
      BY <2>2 DEF PopTimer
    <3>2. /\ local'[w].popped = t
          /\ UNCHANGED due
          /\ \A v \in Threads : local'[v].now = local[v].now
          /\ \A v \in Threads \ {w} : local'[v].popped = local[v].popped
      BY <2>2, <3>1 DEF PopTimer, Set, Types, LocalState
    <3>3. Popped' \subseteq Popped \cup {t}
      BY <3>2 DEF Popped
    <3> QED
      BY <3>1, <3>2, <3>3 DEF Clock
  <2>3. CASE ~PopTimer(w)
    <3>1. UNCHANGED <<timers, due>>
      BY <1>2, <2>3
         DEF LookStep, PopNothing, Claim, LookForNet, LookForTimers, Release,
             FirstCheckDone, WaitOver, MapEvents, SecondCheckDone, ObserveNet,
             ObserveTimers, poller
    <3>2. \A v \in Threads : /\ local'[v].now \in {{}, local[v].now, due}
                            /\ local'[v].popped \in {NoTask, local[v].popped}
      BY <2>1, <2>3 DEF LookLocals
    <3> QED
      BY <3>1, <3>2, SameClock
  <2> QED
    BY <2>2, <2>3
<1>3. ASSUME NEW w \in Threads, FireTimer(w) \/ Deliver(w) PROVE Clock'
  <2>1. UNCHANGED <<timers, due>>
    BY <1>3 DEF FireTimer, Deliver
  <2>2. \A v \in Threads : /\ local'[v].now \in {{}, local[v].now, due}
                          /\ local'[v].popped \in {NoTask, local[v].popped}
    <3>1. CASE local' = [local EXCEPT ![w] = NoLocals]
      BY <1>n, <3>1 DEF Types
    <3>2. ASSUME NEW r, Set(w, "ready", r)
          PROVE  \A v \in Threads : /\ local'[v].now = local[v].now
                                   /\ local'[v].popped = local[v].popped
      BY <3>2 DEF Set, Types, LocalState
    <3>3. ASSUME Set(w, "popped", NoTask)
          PROVE  \A v \in Threads : /\ local'[v].now = local[v].now
                                   /\ local'[v].popped \in {NoTask, local[v].popped}
      BY <3>3 DEF Set, Types, LocalState
    <3> QED
      BY <1>3, <3>1, <3>2, <3>3 DEF FireTimer, Deliver
  <2> QED
    BY <2>1, <2>2, SameClock
<1>4. ASSUME NEW w \in Threads, Sleep(w) PROVE Clock'
  <2>1. PICK t : /\ t = current_task[w]
                 /\ t \in Sleepers \ (timers \cup Popped)
                 /\ timers' = timers \cup {t}
                 /\ due' = due \ {t}
                 /\ local' = [v \in Threads |-> [local[v] EXCEPT !.now = @ \ {t}]]
    BY <1>4 DEF Sleep
  <2>2. \A v \in Threads : /\ local'[v].now = local[v].now \ {t}
                          /\ local'[v].popped = local[v].popped
    BY <2>1 DEF Types, LocalState
  <2>3. Popped' = Popped
    BY <2>2 DEF Popped
  <2> QED
    BY <2>1, <2>2, <2>3 DEF Clock
<1>5. ASSUME NEW w \in Threads, RegisterRead(w) \/ FileRead(w) \/ Unregister(w) \/ Unfile(w)
      PROVE  Clock'
  BY <1>5, SameClock DEF RegisterRead, FileRead, Unregister, Unfile
<1>6. ASSUME NEW t \in Tasks, Expire(t) \/ DataArrives(t) PROVE Clock'
  BY <1>6, SameClock DEF Expire, DataArrives
<1>7. CASE UNCHANGED vars
  BY <1>7, SameClock DEF vars, poller
<1> QED
  BY <1>1, <1>2, <1>3, <1>4, <1>5, <1>6, <1>7, StepKinds

-----------------------------------------------------------------------------
(* What a step is for the scheduler.                                       *)

LEMMA ArmedTypes == Types => Armed \in SUBSET Tasks
BY TimerAssumption DEF Types, Armed, Popped, LocalState

LEMMA ArmedTypesNext == Types' => (Armed \in SUBSET Tasks)'
BY ArmedTypes, PTL

LEMMA SamePopped ==
  ASSUME Types, \A v \in Threads : local'[v].popped = local[v].popped
  PROVE  Popped' = Popped
BY DEF Popped

(* A step that Scheduler has as well is that step.                         *)
LEMMA QuietSimulated ==
  ASSUME Types, QuietStep
  PROVE  A!LoopStep
<1>p. pc \in [Threads -> Positions] /\ A!Threads = Threads
  BY DEF Types, A!Threads, Threads
<1>1. ASSUME NEW w \in Threads,
             \/ S!Register(w) \/ S!Gopark(w) \/ S!LeaveBlocking(w) \/ S!Gosched(w)
             \/ S!Finish(w) \/ S!SpuriousWakeup(w)
      PROVE  A!Next
  BY <1>1, <1>p, AbsHolder DEF A!Next, A!WorkerStep, A!TaskStep, A!LeaveStep
<1>2. ASSUME NEW w \in Threads, S!Pop(w) \/ S!Settle(w) \/ S!SpawnWorker(w)
      PROVE  A!Next
  BY <1>2, <1>p, AbsPop, AbsSettle, AbsSpawnWorker DEF A!Next, A!WorkerStep
<1>3. ASSUME NEW w \in Threads, S!EnterBlocking(w) \/ \E t \in Tasks : S!Go(w, t)
      PROVE  A!Next
  BY <1>3, <1>p, AbsEnterBlocking, AbsGo DEF A!Next, A!TaskStep
<1>4. ASSUME NEW w \in Threads, NEW outside \in BOOLEAN,
             S!GoIdle(w, outside) \/ S!WakeUp(w, outside)
      PROVE  A!LoopStep
  <2>1. A!GoIdle(w, outside) \/ A!WakeUp(w, outside)
    BY <1>4, <1>p, AbsGoIdle, AbsWakeUp
  <2>2. outside = TRUE \/ outside = FALSE
    OBVIOUS
  <2> QED
    BY <1>p, <2>1, <2>2 DEF A!LoopStep, A!Next, A!WorkerStep
<1>5. CASE S!MainStep
  BY <1>5, <1>p, AbsMainStep DEF A!Next, A!LoopStep
<1> QED
  BY <1>1, <1>2, <1>3, <1>4, <1>5 DEF QuietStep, SchedulerStep, A!LoopStep

(* A step of the poller is no step for the scheduler, or takes the         *)
(* thread from "pop" to "idling" or back.                                  *)
LEMMA LookSimulated ==
  ASSUME Types, Memory, NEW w \in Threads, LookStep(w)
  PROVE  [A!LoopStep]_(A!vars) /\ UNCHANGED Armed
<1>p. /\ pc \in [Threads -> Positions] /\ A!Threads = Threads
      /\ Away \cup {"pop", "idling"} \subseteq Positions
      /\ At("idling") = "idling" /\ At("pop") = "pop"
  BY AtKeeps DEF Types, A!Threads, Threads, Positions, S!PC
<1>1. PICK to \in Away \cup {"pop", "idling"} : pc' = S!Goto(w, to) /\ pc'[w] = to
  <2>1. \E from, to \in Away \cup {"pop", "idling"} : Step(w, from, to)
    BY DEF LookStep, PopNothing, Claim, LookForNet, LookForTimers, PopTimer,
           FirstCheckDone, WaitOver, MapEvents, SecondCheckDone, Release, ObserveNet,
           ObserveTimers, Away, Polling
  <2> QED
    BY <1>p, <2>1 DEF Step, S!Goto
<1>2. AbsPc[w] = At(pc[w]) /\ AbsPc' = A!Goto(w, At(pc'[w])) /\ UNCHANGED sched
  BY <1>p, <1>1, AbsMove, AbsAt, LookMoves
<1>5. UNCHANGED Armed
  <2>1. LookLocals(w)
    BY LookRemembers
  <2>2. CASE PopTimer(w)
    <3>1. pc[w] \in {"check1", "check2"} /\ local[w].popped = NoTask
      BY <2>2, LookMoves DEF Memory, Remembers
    <3>2. PICK t \in timers : timers' = timers \ {t} /\ Set(w, "popped", t) /\ UNCHANGED fds
      BY <2>2 DEF PopTimer
    <3>3. /\ local'[w].popped = t
          /\ \A v \in Threads \ {w} : local'[v].popped = local[v].popped
      BY <3>2 DEF Set, Types, LocalState
    <3>4. t # NoTask
      BY TimerAssumption DEF Types
    <3>5. Popped' = Popped \cup {t}
      BY <3>1, <3>3, <3>4 DEF Popped
    <3> QED
      BY <3>2, <3>5 DEF Armed
  <2>3. CASE ~PopTimer(w)
    <3>1. UNCHANGED <<timers, fds>>
      BY <2>3
         DEF LookStep, PopNothing, Claim, LookForNet, LookForTimers, Release,
             FirstCheckDone, WaitOver, MapEvents, SecondCheckDone, ObserveNet,
             ObserveTimers, poller
    <3>2. \A v \in Threads : local'[v].popped = local[v].popped
      BY <2>1, <2>3 DEF LookLocals
    <3> QED
      BY <3>1, <3>2, SamePopped DEF Armed
  <2> QED
    BY <2>2, <2>3
<1>6. UNCHANGED <<A!queue, current_task, state, Armed, main, session>>
  BY <1>2, <1>5 DEF sched, A!queue
<1>7. CASE PopNothing(w)
  <2>1. pc[w] = "pop" /\ At(pc'[w]) = "idling" /\ runnable = <<>>
    BY <1>7, AtKeeps, LookMoves DEF PopNothing, Looking
  <2>2. A!PopNothing(w)
    BY <1>2, <1>6, <1>p, <2>1 DEF A!PopNothing
  <2> QED
    BY <1>5, <1>p, <2>2 DEF A!LoopStep, A!Next, A!WorkerStep
<1>8. CASE LookForTimers(w) /\ pc'[w] = "check1"
  <2>1. At(pc[w]) = "idling" /\ At(pc'[w]) = "pop"
    BY <1>8, AtKeeps, LookMoves DEF Looking, Away, Polling
  <2>2. A!LookBack(w)
    BY <1>2, <1>6, <2>1 DEF A!LookBack
  <2> QED
    BY <1>5, <1>p, <2>2 DEF A!LoopStep
<1>9. CASE ~PopNothing(w) /\ ~(LookForTimers(w) /\ pc'[w] = "check1")
  <2>1. \/ {pc[w], pc'[w]} \subseteq Looking \cup {"idling"}
        \/ {pc[w], pc'[w]} \subseteq (Away \ Looking) \cup {"pop"}
    BY <1>9, LookMoves DEF LookStep, Looking, Away, Polling
  <2>2. At(pc'[w]) = At(pc[w])
    BY <1>p, <2>1, AtKeeps
  <2>3. AbsPc' = AbsPc
    BY <1>2, <1>p, <2>2, AbsAt DEF A!Goto
  <2> QED
    BY <1>5, <1>6, <2>3 DEF A!vars
<1> QED
  BY <1>7, <1>8, <1>9

(* check_timers calls goready for the entry it has popped                  *)
(* (timer.rs:495-513): PollerReady.                                        *)
LEMMA FireSimulated ==
  ASSUME Types, Types', Memory, NEW w \in Threads, FireTimer(w)
  PROVE  /\ local[w].popped \in Popped
         /\ A!ReadyTask(local[w].popped, AbsPc)
         /\ A!PollerReady(w, local[w].popped)
         /\ Popped \ {local[w].popped} \subseteq Popped'
         /\ Popped' \subseteq Popped
         /\ UNCHANGED <<timers, fds, current_task>>
<1>1. PICK to \in {"check1", "check2"} : /\ S!ReadyTask(local[w].popped, S!Goto(w, to))
                                         /\ pc[w] \in {"fire1", "fire2"}
  BY DEF FireTimer
<1>2. S!Goto(w, to) \in [Threads -> Positions] /\ Abs(S!Goto(w, to)) = AbsPc
  <2>1. PICK at \in Positions : at = to /\ At(at) = "pop"
    BY AtKeeps DEF Positions, Looking, Away, Polling
  <2>2. S!Goto(w, to) = [pc EXCEPT ![w] = at]
    BY <2>1 DEF S!Goto
  <2>3. /\ S!Goto(w, to) \in [Threads -> Positions]
        /\ Abs(S!Goto(w, to)) = [Abs(pc) EXCEPT ![w] = At(at)]
    <3>1. pc \in [Threads -> Positions]
      BY DEF Types
    <3> QED
      BY <2>2, <3>1 DEF Abs
  <2>4. AbsPc[w] = "pop" /\ AbsPc \in [Threads -> A!PC]
    BY <1>1, AbsAt, AtKeeps DEF Types, Looking, Away, Polling, Threads, A!Threads
  <2> QED
    BY <2>1, <2>3, <2>4 DEF AbsPc
<1>3. A!ReadyTask(local[w].popped, AbsPc)
  <2>1. A!ReadyTask(local[w].popped, Abs(S!Goto(w, to)))
    BY <1>1, <1>2, AbsReady
  <2> QED
    BY <1>2, <2>1
<1>4. /\ local[w].popped \in Popped
      /\ local'[w].popped = NoTask
      /\ \A v \in Threads \ {w} : local'[v].popped = local[v].popped
  BY <1>1 DEF FireTimer, Memory, Remembers, Popped, Set, Types, LocalState
<1>5. A!PollerReady(w, local[w].popped)
  <2>1. AbsPc[w] = "pop"
    BY <1>1, AbsAt, AtKeeps DEF Types, Looking, Away, Polling
  <2> QED
    BY <1>3, <2>1, ArmedTypesNext DEF FireTimer, A!PollerReady
<1> QED
  BY <1>3, <1>4, <1>5 DEF FireTimer, Popped

(* goready for a reported socket (timer.rs:601-603): PollerReady, which    *)
(* leaves the id with the poller, for it lies in waiting_fds until the     *)
(* task removes it.                                                        *)
LEMMA DeliverSimulated ==
  ASSUME Types, Types', Memory, NEW w \in Threads, Deliver(w)
  PROVE  /\ UNCHANGED <<Armed, current_task>>
         /\ \/ \E t \in Readers : A!ReadyTask(t, AbsPc) /\ A!PollerReady(w, t)
            \/ UNCHANGED A!vars
<1>1. CASE local[w].ready = {} /\ Step(w, "deliver", "pop") /\ local' = [local EXCEPT ![w] = NoLocals]
  <2>1. /\ pc[w] = "deliver" /\ "deliver" \in Away \ Looking /\ local[w].popped = NoTask
        /\ NoLocals.popped = NoTask
    BY <1>1 DEF Step, Memory, Remembers, NoLocals, Away, Looking
  <2>2. \A v \in Threads : local'[v].popped = local[v].popped
    BY <1>1, <2>1 DEF Types
  <2>3. UNCHANGED Armed
    BY <2>2, SamePopped DEF Deliver, Armed
  <2>4. UNCHANGED AbsPc
    <3>1. "pop" \in Positions /\ At("pop") = "pop" /\ At(pc[w]) = "pop"
      BY <2>1, AtKeeps DEF Positions, S!PC
    <3>2. AbsPc' = A!Goto(w, At("pop"))
      BY <1>1, <3>1, AbsMove DEF Step, Types
    <3>3. AbsPc[w] = "pop" /\ AbsPc \in [Threads -> A!PC]
      BY <3>1, AbsAt DEF Types, A!Threads, Threads
    <3> QED
      BY <3>1, <3>2, <3>3 DEF A!Goto
  <2> QED
    BY <1>1, <2>3, <2>4 DEF Step, sched, A!vars, A!queue
<1>2. ASSUME NEW t \in local[w].ready, S!ReadyTask(t, pc),
             pc[w] = "deliver", Set(w, "ready", local[w].ready \ {t}),
             UNCHANGED <<idle_workers, all_workers, current_task, main, session>>
      PROVE  UNCHANGED Armed /\ t \in Readers /\ A!ReadyTask(t, AbsPc) /\ A!PollerReady(w, t)
  <2>1. t \in Readers /\ pc \in [Threads -> Positions]
    BY DEF Types, LocalState
  <2>2. A!ReadyTask(t, AbsPc)
    BY <1>2, <2>1, AbsReady DEF AbsPc
  <2>3. \A v \in Threads : local'[v].popped = local[v].popped
    BY <1>2 DEF Set, Types, LocalState
  <2>4. UNCHANGED Armed
    BY <2>3, SamePopped DEF Deliver, Armed
  <2>5. A!PollerReady(w, t)
    <3>1. AbsPc[w] = "pop"
      BY <1>2, <2>1, AbsAt, AtKeeps DEF Looking, Away, Polling
    <3> QED
      BY <1>2, <2>2, <3>1, ArmedTypesNext DEF A!PollerReady
  <2> QED
    BY <2>1, <2>2, <2>4, <2>5
<1> QED
  BY <1>1, <1>2 DEF Deliver, Step, sched

(* sleep and net_poll_read publish the id before they park: Publish.       *)
LEMMA ParkSimulated ==
  ASSUME Types, NEW w \in Threads, Sleep(w) \/ FileRead(w)
  PROVE  A!Publish(w)
<1>p. /\ pc \in [Threads -> Positions]
      /\ "parking" \in Positions /\ At("parking") = "parking"
      /\ At("registering") = "run" /\ At("run") = "run"
  BY AtKeeps DEF Types, Positions, S!PC, S!Holding
<1>1. \E from \in {"run", "registering"} : Step(w, from, "parking")
  BY DEF Sleep, FileRead
<1>2. AbsPc[w] = "run" /\ AbsPc' = A!Goto(w, "parking") /\ UNCHANGED sched
  BY <1>p, <1>1, AbsAt, AbsMove DEF Step
<1>3. \A v \in Threads : local'[v].popped = local[v].popped
  BY DEF Sleep, FileRead, Types, LocalState
<1>4. Popped' = Popped
  BY <1>3, SamePopped
<1>5. Armed' = Armed \cup {current_task[w]}
  BY <1>4 DEF Sleep, FileRead, Armed
<1> QED
  BY <1>2, <1>5 DEF A!Publish, sched, A!queue

(* The end of net_poll_read, the clock and the data.                       *)
LEMMA RestSimulated ==
  ASSUME Types,
         \/ \E w \in Threads : RegisterRead(w) \/ Unregister(w) \/ Unfile(w)
         \/ \E t \in Tasks : Expire(t) \/ DataArrives(t)
         \/ UNCHANGED vars
  PROVE  /\ UNCHANGED <<AbsPc, sched, timers, local>>
         /\ fds' = fds \/ \E w \in Threads : fds' = fds \ {current_task[w]}
<1>1. ASSUME NEW w \in Threads, RegisterRead(w) PROVE UNCHANGED AbsPc
  <2>1. /\ pc \in [Threads -> Positions]
        /\ "registering" \in Positions /\ At("registering") = "run" /\ At("run") = "run"
    BY AtKeeps DEF Types, Positions, S!PC, S!Holding
  <2>2. AbsPc[w] = "run" /\ AbsPc' = A!Goto(w, "run")
    BY <1>1, <2>1, AbsAt, AbsMove DEF RegisterRead, Step
  <2> QED
    BY <2>1, <2>2, AbsAt DEF A!Goto, Threads, A!Threads
<1>2. UNCHANGED pc => UNCHANGED AbsPc
  BY DEF AbsPc, Abs
<1> QED
  BY <1>1, <1>2 DEF RegisterRead, Step, Unregister, Unfile, Expire, DataArrives, vars, poller

(* Every step of TimerRuntime is a step of Scheduler, one of the steps     *)
(* PolledNext adds, or none.                                               *)
LEMMA NextSimulated ==
  ASSUME Types, Types', Memory, [Next]_vars
  PROVE  [A!PolledNext]_(A!vars)
<1>t. A!Threads = Threads /\ Armed' \in SUBSET Tasks
  BY ArmedTypesNext DEF A!Threads, Threads
<1>1. CASE QuietStep
  BY <1>1, QuietSimulated DEF A!LoopStep, A!PolledNext, A!PollerStep
<1>2. ASSUME NEW w \in Threads, LookStep(w) PROVE [A!PolledNext]_(A!vars)
  BY <1>2, LookSimulated DEF A!LoopStep, A!PolledNext, A!PollerStep
<1>3. ASSUME NEW w \in Threads, FireTimer(w) PROVE A!PolledNext
  <2>1. local[w].popped \in Tasks /\ A!PollerReady(w, local[w].popped)
    BY <1>3, FireSimulated DEF Types, LocalState, Popped
  <2> QED
    BY <1>t, <2>1 DEF A!PolledNext, A!PollerStep
<1>4. ASSUME NEW w \in Threads, Deliver(w) PROVE [A!PolledNext]_(A!vars)
  BY <1>4, <1>t, DeliverSimulated, TimerAssumption DEF A!PolledNext, A!PollerStep
<1>5. ASSUME NEW w \in Threads, Sleep(w) \/ FileRead(w) PROVE A!PolledNext
  BY <1>5, <1>t, ParkSimulated DEF A!PolledNext, A!Next, A!TaskStep, A!LeaveStep
<1>6. CASE \/ \E w \in Threads : RegisterRead(w) \/ Unregister(w) \/ Unfile(w)
           \/ \E t \in Tasks : Expire(t) \/ DataArrives(t)
           \/ UNCHANGED vars
  <2>1. UNCHANGED <<AbsPc, sched>>
    BY <1>6, RestSimulated
  <2> QED
    BY <1>t, <2>1 DEF A!PolledNext, A!PollerStep, A!Rearm, A!queue, sched
<1> QED
  BY <1>1, <1>2, <1>3, <1>4, <1>5, <1>6, StepKinds

-----------------------------------------------------------------------------
(* The joint invariant.                                                    *)

(* All of it together, and the invariants of the scheduler as it sees      *)
(* the threads.  Types are needed to read the positions, Memory to know    *)
(* that the popped entry and the reports are with one thread only,         *)
(* OnePoller that no two threads pop the same entry.                       *)
TimerInv ==
  /\ Types
  /\ Memory
  /\ OnePoller
  /\ Clock
  /\ A!IInv
  /\ A!CInv
  /\ A!QInv
  /\ A!NoStrandedWork

LEMMA TimerInvInit == Init => TimerInv
<1> SUFFICES ASSUME Init PROVE TimerInv
  OBVIOUS
<1>1. /\ pc = [w \in Threads |-> "none"]
      /\ current_task = [w \in Threads |-> NoTask]
      /\ local = [w \in Threads |-> NoLocals]
  BY DEF Init, S!Init, Threads, S!Threads
<1>2. Types
  <2>1. NoLocals \in LocalState /\ "none" \in Positions
    BY DEF NoLocals, LocalState, Positions, S!PC
  <2> QED
    BY <1>1, <2>1 DEF Init, Types
<1>3. Memory
  BY <1>1 DEF Memory, Remembers, NoLocals
<1>4. Popped = {}
  BY <1>1 DEF Popped, NoLocals
<1>5. OnePoller /\ Clock
  BY <1>1, <1>4 DEF Init, OnePoller, Clock, S!In, Polling, S!Threads, Threads, NoLocals
<1>6. A!Init
  <2>1. AbsPc = [w \in A!Threads |-> "none"]
    BY <1>1 DEF AbsPc, Abs, At, Looking, Away, Polling, A!Threads, Threads
  <2>2. Armed = {}
    BY <1>4 DEF Init, Armed
  <2> QED
    BY <2>1, <2>2 DEF Init, S!Init, A!Init, S!Threads, A!Threads
<1>7. A!IInv /\ A!CInv /\ A!QInv /\ A!NoStrandedWork
  BY <1>6, AbsAssumption, A!InitInv, A!CInvInit, A!QInvInit DEF A!Init, A!NoStrandedWork
<1> QED
  BY <1>2, <1>3, <1>5, <1>7 DEF TimerInv

LEMMA TimerInvNext == TimerInv /\ [Next]_vars => TimerInv'
<1> SUFFICES ASSUME TimerInv, [Next]_vars PROVE TimerInv'
  OBVIOUS
<1>1. Types' /\ Memory' /\ OnePoller' /\ Clock'
  BY TypesNext, MemoryNext, OnePollerNext, ClockNext DEF TimerInv
<1>2. [A!PolledNext]_(A!vars)
  BY <1>1, NextSimulated DEF TimerInv
<1>3. A!IInv' /\ A!CInv' /\ A!QInv' /\ A!NoStrandedWork'
  BY <1>2, AbsAssumption, A!NextInv, A!CInvNext, A!QInvNext, A!NoStrandedNext DEF TimerInv
<1> QED
  BY <1>1, <1>3 DEF TimerInv

(* Every reachable state satisfies the joint invariant.                    *)
THEOREM TimerInvariant == Spec => []TimerInv
BY TimerInvInit, TimerInvNext, PTL DEF Spec

(* The state keeps its shape: positions and current tasks agree, also      *)
(* through net_poll_read, and idle_workers and all_workers do not go below *)
(* zero (timer.rs:142-170) although the poller queues tasks and returns to *)
(* the queue in between.                                                   *)
THEOREM TypeCorrect == Spec => []TypeOK
<1>1. TimerInv => TypeOK
  <2> SUFFICES ASSUME TimerInv PROVE TypeOK
    OBVIOUS
  <2>1. Types /\ A!Shape /\ A!CInv
    BY DEF TimerInv, A!IInv
  <2>2. A!Threads = Threads /\ A!Holding = S!Holding
    BY DEF A!Threads, Threads, A!Holding, S!Holding
  <2>3. ASSUME NEW w \in Threads PROVE pc[w] \in Holding <=> current_task[w] # NoTask
    <3>1. \A x \in Positions : At(x) \in S!Holding <=> x \in Holding
      BY DEF At, Looking, Positions, Away, Polling, Holding, S!PC, S!Holding, S!Dozing
    <3>2. AbsPc[w] = At(pc[w]) /\ pc[w] \in Positions
      BY <2>1, AbsAt DEF Types
    <3> QED
      BY <2>1, <2>2, <3>1, <3>2 DEF A!Shape
  <2>4. /\ runnable \in Seq(Tasks) /\ waiting \in SUBSET Tasks /\ pending_ready \in SUBSET Tasks
        /\ current_task \in [Threads -> Tasks \cup {NoTask}]
        /\ state \in [Tasks -> {"New", "Runnable", "Running", "Waiting", "Dead"}]
        /\ idle_workers \in Nat /\ all_workers \in Nat
    BY <2>1, <2>2, AbsAssumption, A!CountersTyped DEF TimerInv, A!TypeOK, A!Shape
  <2>5. /\ local \in [Threads -> [net : BOOLEAN, timer : BOOLEAN, now : SUBSET Tasks,
                                  popped : Tasks \cup {NoTask}, events : SUBSET Tasks,
                                  ready : SUBSET Tasks]]
        /\ timers \in SUBSET Sleepers /\ due \in SUBSET Tasks /\ watched \in SUBSET Readers
        /\ fds \in SUBSET Readers /\ readable \in SUBSET Readers /\ polling \in BOOLEAN
    <3>1. Readers \subseteq Tasks
      BY TimerAssumption
    <3>2. LocalState \subseteq [net : BOOLEAN, timer : BOOLEAN, now : SUBSET Tasks,
                                popped : Tasks \cup {NoTask}, events : SUBSET Tasks,
                                ready : SUBSET Tasks]
      BY <3>1 DEF LocalState
    <3> QED
      BY <2>1, <3>2 DEF Types
  <2>6. pc \in [Threads -> S!PC \cup Polling
                           \cup {"poll", "deliver", "observe", "observe2", "registering"}]
    BY <2>1 DEF Types, Positions, Away
  <2> QED
    BY <2>3, <2>4, <2>5, <2>6 DEF TypeOK
<1> QED
  BY <1>1, TimerInvariant, PTL

(* "only one worker can poll at a time" (timer.rs:544): POLLING is on      *)
(* exactly while one thread is between its compare_exchange and its        *)
(* store (545-599), for any number of threads.                             *)
THEOREM OnePollerAlways == Spec => []OnePoller
<1>1. TimerInv => OnePoller
  BY DEF TimerInv
<1> QED
  BY <1>1, TimerInvariant, PTL

(* No worker leaves while a task sleeps, waits for a socket, or is in      *)
(* the hands of the poller, although timers and sockets are looked at      *)
(* outside the mutex of the queue (timer.rs:130-158), for any number of    *)
(* threads.                                                                *)
THEOREM NoEarlyShutdown == Spec => []ShutdownMeansDone
<1>1. TimerInv => ShutdownMeansDone
  <2>1. ASSUME TimerInv PROVE A!In({"exit"}) = S!In({"exit"})
    <3>1. pc \in [Threads -> Positions]
      BY <2>1 DEF TimerInv, Types
    <3> QED
      BY <3>1, AbsAt, AtKeeps DEF A!In, S!In, A!Threads, S!Threads, Threads, S!PC
  <2>2. A!QInv => A!ShutdownMeansDone
    BY DEF A!QInv, A!Quiet, A!Left, A!ShutdownMeansDone
  <2> QED
    BY <2>1, <2>2 DEF TimerInv, ShutdownMeansDone, S!ShutdownMeansDone, A!ShutdownMeansDone
<1> QED
  BY <1>1, TimerInvariant, PTL

(* A live task is queued once, or parked, or on one thread, also while     *)
(* the poller wakes it and a second report of its socket is under way      *)
(* (timer.rs:523-539, 601-603).                                            *)
THEOREM OnePlaceAlways == Spec => []S!OnePlace
<1>1. TimerInv => S!OnePlace
  BY DEF TimerInv, A!IInv, A!OnePlace, S!OnePlace, A!Queued, S!Queued, A!Held, S!Held,
         A!Threads, S!Threads
<1> QED
  BY <1>1, TimerInvariant, PTL

-----------------------------------------------------------------------------
(* The contract of gopark and goready, for the tasks that never read.      *)

LEMMA AbsStatus == Types => \A t \in Tasks : S!ContractStatus(t) = A!ContractStatus(t)
<1> SUFFICES ASSUME Types, NEW t \in Tasks PROVE S!ContractStatus(t) = A!ContractStatus(t)
  OBVIOUS
<1>1. \A w \in Threads : /\ AbsPc[w] = "parking" <=> pc[w] = "parking"
                         /\ AbsPc[w] = "switched" <=> pc[w] = "switched"
  BY AbsAt, AtKeeps DEF Types, S!PC, S!Holding
<1>2. S!OnWayToSleep(t) <=> A!OnWayToSleep(t)
  BY <1>1 DEF S!OnWayToSleep, A!OnWayToSleep, S!Threads, A!Threads, Threads
<1> QED
  BY <1>2 DEF S!ContractStatus, A!ContractStatus

LEMMA AbsStatusNext ==
  Types' => \A t \in Tasks : S!ContractStatus(t)' = A!ContractStatus(t)'
<1>1. Types' => (\A t \in Tasks : S!ContractStatus(t) = A!ContractStatus(t))'
  BY AbsStatus, PTL
<1> QED
  BY <1>1

LEMMA SleepMove ==
  ASSUME Types, Types', NEW t \in Tasks, NEW from, NEW to, A!Contract!Move(t, from, to)
  PROVE  /\ t \in OnlySleep => SleepContract!Move(t, from, to)
         /\ t \notin OnlySleep => UNCHANGED [x \in OnlySleep |-> S!ContractStatus(x)]
<1>1. \A x \in Tasks : /\ S!ContractStatus(x) = A!ContractStatus(x)
                       /\ S!ContractStatus(x)' = A!ContractStatus(x)'
  BY AbsStatus, AbsStatusNext
<1>2. /\ A!ContractStatus(t) = from /\ A!ContractStatus(t)' = to
      /\ \A x \in Tasks \ {t} : A!ContractStatus(x)' = A!ContractStatus(x)
  BY DEF A!Contract!Move
<1> QED
  BY <1>1, <1>2 DEF SleepContract!Move, OnlySleep

LEMMA SleepSame ==
  ASSUME Types, Types', UNCHANGED [x \in Tasks |-> A!ContractStatus(x)]
  PROVE  UNCHANGED [x \in OnlySleep |-> S!ContractStatus(x)]
<1>1. \A x \in Tasks : /\ S!ContractStatus(x) = A!ContractStatus(x)
                       /\ S!ContractStatus(x)' = A!ContractStatus(x)'
  BY AbsStatus, AbsStatusNext
<1>2. \A x \in Tasks : A!ContractStatus(x)' = A!ContractStatus(x)
  OBVIOUS
<1> QED
  BY <1>1, <1>2 DEF OnlySleep

LEMMA SleepWake ==
  ASSUME Types, Types', NEW t \in Tasks, A!Contract!Wake(t)
  PROVE  /\ t \in OnlySleep => SleepContract!Wake(t)
         /\ t \notin OnlySleep => /\ UNCHANGED [x \in OnlySleep |-> S!ContractStatus(x)]
                                  /\ UNCHANGED (pending_ready \cap OnlySleep)
<1>1. CASE A!Contract!Move(t, "waiting", "runnable") /\ UNCHANGED pending_ready
  BY <1>1, SleepMove DEF SleepContract!Wake
<1>2. CASE /\ [x \in Tasks |-> A!ContractStatus(x)][t] # "waiting"
           /\ pending_ready' = pending_ready \cup {t}
           /\ UNCHANGED [x \in Tasks |-> A!ContractStatus(x)]
  BY <1>2, SleepSame, AbsStatus DEF SleepContract!Wake
<1> QED
  BY <1>1, <1>2 DEF A!Contract!Wake

LEMMA SleepRestricts ==
  ASSUME Types, Types', [A!Contract!Next]_(A!Contract!vars)
  PROVE  [SleepContract!Next]_(SleepContract!vars)
<1> USE DEF SleepContract!vars
<1>1. ASSUME NEW t \in Tasks, UNCHANGED <<Armed, pending_ready>>,
             A!Contract!Spawn(t) \/ A!Contract!Run(t) \/ A!Contract!Yield(t) \/ A!Contract!Finish(t)
      PROVE  [SleepContract!Next]_(SleepContract!vars)
  BY <1>1, SleepMove
     DEF A!Contract!Spawn, A!Contract!Run, A!Contract!Yield, A!Contract!Finish,
         SleepContract!Spawn, SleepContract!Run, SleepContract!Yield, SleepContract!Finish,
         SleepContract!Next
<1>2. ASSUME NEW t \in Tasks, A!Contract!Publish(t)
      PROVE  [SleepContract!Next]_(SleepContract!vars)
  BY <1>2, SleepMove
     DEF A!Contract!Publish, A!Contract!Suspend, SleepContract!Publish,
         SleepContract!Suspend, SleepContract!Next
<1>3. ASSUME NEW t \in Tasks, A!Contract!Settle(t)
      PROVE  [SleepContract!Next]_(SleepContract!vars)
  BY <1>3, SleepMove DEF A!Contract!Settle, SleepContract!Settle, SleepContract!Next
<1>4. ASSUME NEW t \in Tasks, A!Contract!Ready(t)
      PROVE  [SleepContract!Next]_(SleepContract!vars)
  BY <1>4, SleepWake DEF A!Contract!Ready, SleepContract!Ready, SleepContract!Next
<1>5. CASE UNCHANGED A!Contract!vars
  BY <1>5, SleepSame DEF A!Contract!vars
<1> QED
  BY <1>1, <1>2, <1>3, <1>4, <1>5
     DEF A!Contract!Next, A!Contract!Spawn, A!Contract!Run, A!Contract!Yield, A!Contract!Finish

LEMMA FirePopped ==
  ASSUME Types, Memory, OnePoller, NEW w \in Threads, FireTimer(w)
  PROVE  Popped = {local[w].popped} /\ Popped' = {}
<1>1. pc[w] \in {"fire1", "fire2"}
  BY DEF FireTimer
<1>2. /\ local[w].popped # NoTask
      /\ \A v \in Threads \ {w} : local[v].popped = NoTask
  BY <1>1 DEF Memory, Remembers, OnePoller, S!In, S!Threads, Threads, Polling
<1>3. \A v \in Threads : local'[v].popped = IF v = w THEN NoTask ELSE local[v].popped
  BY DEF FireTimer, Set, Types, LocalState
<1> QED
  BY <1>2, <1>3 DEF Popped

(* A step of the scheduler, or of the poller, as the contract of the       *)
(* tasks that only sleep sees it.  A task that reads may be made ready a   *)
(* second time for one gopark, which the contract forbids; that its        *)
(* wakes are never taken for those of another task is what is shown        *)
(* here.                                                                   *)
LEMMA ContractStep ==
  ASSUME TimerInv, TimerInv', [Next]_vars
  PROVE  [SleepContract!Next]_(SleepContract!vars)
<1>t. /\ Types /\ Types' /\ Memory /\ OnePoller /\ Clock /\ A!IInv /\ A!IInv'
      /\ A!StatusFacts /\ A!StatusFacts'
  BY AbsAssumption, A!StatusFactsHold, A!StatusFactsNext DEF TimerInv
<1>1. ASSUME [A!LoopStep]_(A!vars) PROVE [SleepContract!Next]_(SleepContract!vars)
  BY <1>1, <1>t, AbsAssumption, A!StepImplements, SleepRestricts
<1>2. ASSUME NEW w \in Threads, FireTimer(w) PROVE [SleepContract!Next]_(SleepContract!vars)
  <2>1. PICK t \in Tasks : t = local[w].popped
    BY <1>2, <1>t, FireSimulated DEF Types, LocalState, Popped
  <2>2. A!Contract!Wake(t)
    BY <1>2, <1>t, <2>1, AbsAssumption, FireSimulated, A!ReadyWakes
  <2>3. Armed' = Armed \ ({t} \ fds) /\ t \in Armed
    BY <1>2, <1>t, <2>1, FirePopped DEF Armed, Clock, FireTimer
  <2>4. CASE t \in OnlySleep
    <3>1. t \notin fds
      BY <1>t, <2>4 DEF OnlySleep, Types
    <3> QED
      BY <1>t, <2>2, <2>3, <2>4, <3>1, SleepWake DEF SleepContract!Ready, SleepContract!Next
  <2>5. CASE t \notin OnlySleep
    BY <1>t, <2>2, <2>3, <2>5, SleepWake DEF SleepContract!vars
  <2> QED
    BY <2>4, <2>5
<1>3. ASSUME NEW w \in Threads, Deliver(w) PROVE [SleepContract!Next]_(SleepContract!vars)
  <2>1. CASE UNCHANGED A!vars
    BY <1>1, <2>1
  <2>2. ASSUME NEW t \in Readers, A!ReadyTask(t, AbsPc)
        PROVE  UNCHANGED SleepContract!vars
    <3>1. t \in Tasks \ OnlySleep /\ UNCHANGED <<Armed, current_task>>
      BY <1>3, <1>t, DeliverSimulated, TimerAssumption DEF OnlySleep
    <3>2. A!Contract!Wake(t)
      BY <1>t, <2>2, <3>1, AbsAssumption, A!ReadyWakes
    <3> QED
      BY <1>t, <3>1, <3>2, SleepWake DEF SleepContract!vars
  <2> QED
    BY <1>3, <1>t, <2>1, <2>2, DeliverSimulated
<1>4. CASE \/ \E w \in Threads : RegisterRead(w) \/ Unregister(w) \/ Unfile(w)
           \/ \E t \in Tasks : Expire(t) \/ DataArrives(t)
           \/ UNCHANGED vars
  <2>1. UNCHANGED <<AbsPc, sched, timers, local>> /\ fds \cup fds' \subseteq Readers
    BY <1>4, <1>t, RestSimulated DEF Types
  <2>2. UNCHANGED (Armed \cap OnlySleep)
    BY <2>1 DEF Armed, Popped, OnlySleep
  <2>3. UNCHANGED [x \in Tasks |-> A!ContractStatus(x)]
    BY <2>1 DEF sched, A!ContractStatus, A!OnWayToSleep
  <2> QED
    BY <1>t, <2>1, <2>2, <2>3, SleepSame DEF SleepContract!vars, sched
<1>5. ASSUME NEW w \in Threads, LookStep(w) PROVE [SleepContract!Next]_(SleepContract!vars)
  BY <1>1, <1>5, <1>t, LookSimulated
<1>6. ASSUME NEW w \in Threads, Sleep(w) \/ FileRead(w)
      PROVE  [SleepContract!Next]_(SleepContract!vars)
  <2>1. A!LoopStep
    BY <1>6, <1>t, ParkSimulated
       DEF A!LoopStep, A!Next, A!TaskStep, A!LeaveStep, A!Threads, Threads
  <2> QED
    BY <1>1, <2>1
<1>7. CASE QuietStep
  BY <1>1, <1>7, <1>t, QuietSimulated
<1> QED
  BY <1>2, <1>3, <1>4, <1>5, <1>6, <1>7, <1>t, StepKinds

(* The tasks that never read keep the whole contract of gopark and         *)
(* goready (timer.rs:82-85, 253-263, 495-513): each sleep is woken once,   *)
(* by its own timer, whatever reports of sockets are delivered             *)
(* meanwhile.                                                              *)
THEOREM TimersImplementContract == Spec => TimersKeepContract
<1>1. Init => SleepContract!Init
  <2> SUFFICES ASSUME Init PROVE SleepContract!Init
    OBVIOUS
  <2>1. \A t \in Tasks : S!ContractStatus(t) = "new"
    BY TimerAssumption DEF Init, S!Init, S!ContractStatus, S!OnWayToSleep
  <2>2. Armed = {} /\ pending_ready = {}
    BY DEF Init, S!Init, Armed, Popped, NoLocals
  <2> QED
    BY <2>1, <2>2 DEF SleepContract!Init, OnlySleep
<1>2. TimerInv /\ TimerInv' /\ [Next]_vars => [SleepContract!Next]_(SleepContract!vars)
  BY ContractStep
<1> QED
  BY <1>1, <1>2, TimerInvariant, PTL DEF Spec, TimersKeepContract, SleepContract!Spec

(* A sleeping task has exactly one wake coming, and a task that does not   *)
(* sleep has none: the entry in the heap, the entry the poller has popped, *)
(* or pending_ready.                                                       *)
SleeperHasWake ==
  \A t \in OnlySleep :
    /\ t \in timers \cup Popped \cup pending_ready
         <=> S!ContractStatus(t) \in {"parking", "waiting"}
    /\ ~(t \in timers /\ t \in Popped)
    /\ t \in pending_ready => t \notin timers \cup Popped

(* No sleeping task is forgotten and none is woken twice                   *)
(* (timer.rs:253-263, 495-513): neither between the push on the heap and   *)
(* gopark, nor between the pop and goready, nor before the worker has      *)
(* filed the task.                                                         *)
THEOREM NoSleeperForgotten == Spec => []SleeperHasWake
<1>1. SleepContract!Spec => []SleepContract!OneWakeEach
  BY SleepContract!ContractKeepsWakes
<1>2. TimerInv /\ SleepContract!OneWakeEach => SleeperHasWake
  <2>1. TimerInv => fds \cap OnlySleep = {}
    BY DEF TimerInv, Types, OnlySleep
  <2> QED
    BY <2>1 DEF TimerInv, Clock, SleepContract!OneWakeEach, SleeperHasWake, Armed
<1> QED
  BY <1>1, <1>2, TimerInvariant, TimersImplementContract, PTL DEF TimersKeepContract

(* "wakes it up after the duration has elapsed" (timer.rs:251): a task     *)
(* that never reads does not run again before its wake_time, although      *)
(* check_timers keeps using a clock reading of earlier (495-513).          *)
THEOREM NoSleeperEarly == Spec => []SleepersNotEarly
<1>1. TimerInv /\ SleeperHasWake => SleepersNotEarly
  <2> SUFFICES ASSUME TimerInv, SleeperHasWake, NEW w \in Threads, pc[w] = "run",
                      current_task[w] \in OnlySleep, current_task[w] \notin due
               PROVE  FALSE
    BY DEF SleepersNotEarly
  <2>1. PICK t \in Tasks : t = current_task[w]
    BY DEF OnlySleep
  <2>2. t \in timers
    BY <2>1 DEF TimerInv, Clock
  <2>3. A!ContractStatus(t) = A!HeldStatus(w)
    BY <2>1, AbsAssumption, A!StatusFactsHold
       DEF TimerInv, A!StatusFacts, A!Threads, Threads
  <2>4. AbsPc[w] = "run"
    BY AbsAt, AtKeeps DEF TimerInv, Types, S!PC, S!Holding
  <2>5. S!ContractStatus(t) \notin {"parking", "waiting"}
    BY <2>3, <2>4, AbsStatus DEF TimerInv, A!HeldStatus
  <2> QED
    BY <2>1, <2>2, <2>5 DEF SleeperHasWake
<1> QED
  BY <1>1, TimerInvariant, NoSleeperForgotten, PTL

-----------------------------------------------------------------------------
(* The reports of the kernel.                                              *)

(* The task has called gopark, and nothing has queued it yet.              *)
Parked(t) ==
  state[t] = "Waiting" \/ \E w \in Threads : current_task[w] = t /\ pc[w] = "parking"

(* The kernel watches the socket of t, or its report is on the way.        *)
ReportComes(t) ==
  \/ t \in watched \cup pending_ready
  \/ \E w \in Threads : t \in local[w].events \cup local[w].ready

(* It is inductive once the tasks are counted that have called gopark      *)
(* and are not filed yet, and the registrations that net_poll_read has     *)
(* made with the kernel but not with the poller.                           *)
Reported ==
  /\ \A w \in Threads : pc[w] = "registering" => current_task[w] \in watched
  /\ \A t \in fds : Parked(t) => ReportComes(t)

(* Nothing that concerns the reports changes.                              *)
LEMMA SameReports ==
  ASSUME Reported,
         \A w \in Threads :
           pc'[w] = "registering" => pc[w] = "registering" /\ current_task'[w] = current_task[w],
         watched \subseteq watched', fds' \subseteq fds,
         \A t \in fds' : Parked(t)' => \/ t \in pending_ready'
                                      \/ /\ Parked(t)
                                         /\ t \in pending_ready => t \in pending_ready'
                                         /\ \A w \in Threads :
                                              t \in local[w].events \cup local[w].ready
                                                => t \in local'[w].events \cup local'[w].ready
  PROVE  Reported'
BY DEF Reported, ReportComes

(* A task that is parked after a step of the scheduler was parked before   *)
(* it, and its pending wake, if it had one, has not been spent.            *)
LEMMA SchedulerParks ==
  ASSUME Types, A!IInv, A!IInv', SchedulerStep, NEW t \in Tasks, Parked(t)'
  PROVE  Parked(t) /\ (t \in pending_ready => t \in pending_ready')
<1>1. PollersStay
  BY SchedulerPollersStay
<1>2. state'[t] = "Waiting" => Parked(t)
  <2>s. state \in [Tasks -> {"New", "Runnable", "Running", "Waiting", "Dead"}]
    BY DEF A!IInv, A!Shape
  <2>1. ASSUME NEW w \in Threads, S!Gopark(w), state'[t] = "Waiting" PROVE Parked(t)
    BY <2>1, <2>s DEF S!Gopark, Parked
  <2>2. ASSUME NEW x, S!CreateTask(x), state'[t] = "Waiting" PROVE state[t] = "Waiting"
    BY <2>2, <2>s DEF S!CreateTask, S!Enqueue
  <2>3. ASSUME NEW w \in Threads, S!Settle(w), state'[t] = "Waiting" PROVE state[t] = "Waiting"
    BY <2>3, <2>s DEF S!Settle, S!SettleDead, S!SettleParked, S!SettleYielded, S!Enqueue
  <2>4. ASSUME NEW w \in Threads, NEW outside, state'[t] = "Waiting",
               S!Pop(w) \/ S!GoIdle(w, outside) \/ S!WakeUp(w, outside) \/ S!Finish(w)
        PROVE  state[t] = "Waiting"
    BY <2>4, <2>s DEF S!Pop, S!GoIdle, S!WakeUp, S!Finish, S!Dequeue, S!Shutdown
  <2>5. ASSUME NEW w \in Threads,
               \/ S!Register(w) \/ S!SpawnWorker(w) \/ S!LeaveBlocking(w) \/ S!Gosched(w)
               \/ S!EnterBlocking(w) \/ S!SpuriousWakeup(w) \/ S!StartRuntime \/ S!Join
        PROVE  UNCHANGED state
    BY <2>5 DEF S!Register, S!SpawnWorker, S!LeaveBlocking, S!Gosched, S!EnterBlocking,
                S!SpuriousWakeup, S!StartRuntime, S!Join
  <2>6. CASE S!StartRuntime \/ S!Join
    BY <2>6 DEF S!StartRuntime, S!Join, Parked
  <2> QED
    BY <2>1, <2>2, <2>3, <2>4, <2>5, <2>6
       DEF SchedulerStep, S!MainStep, S!Submit, S!Go, Parked
<1>3. Parked(t)
  BY <1>1, <1>2 DEF Parked, PollersStay
<1>4. state'[t] \in {"Running", "Waiting"}
  <2>1. ASSUME NEW w \in Threads, current_task'[w] = t, pc'[w] = "parking"
        PROVE  state'[t] = "Running"
    <3>1. AbsPc'[w] = "parking"
      <4>1. (pc \in [Threads -> Positions])'
        BY <1>1 DEF PollersStay
      <4>2. AbsPc'[w] = At(pc'[w])
        BY <4>1, AbsNext DEF Abs
      <4> QED
        BY <2>1, <4>2, AtKeeps DEF S!PC, S!Holding
    <3> QED
      BY <2>1, <3>1 DEF A!IInv, A!Shape, A!Holding, A!Threads, Threads
  <2> QED
    BY <2>1 DEF Parked
<1>5. t \in pending_ready => t \in pending_ready'
  <2>1. ASSUME NEW w \in Threads, S!Settle(w), t \in pending_ready, t \notin pending_ready'
        PROVE  state'[t] = "Runnable"
    BY <2>1 DEF S!Settle, S!SettleDead, S!SettleParked, S!SettleYielded, S!Enqueue, A!IInv,
                A!Shape
  <2>2. ASSUME NEW w \in Threads, NEW outside,
               \/ S!Pop(w) \/ S!GoIdle(w, outside) \/ S!WakeUp(w, outside) \/ S!Finish(w)
               \/ S!Register(w) \/ S!SpawnWorker(w) \/ S!LeaveBlocking(w) \/ S!Gosched(w)
               \/ S!EnterBlocking(w) \/ S!SpuriousWakeup(w) \/ S!Gopark(w)
        PROVE  UNCHANGED pending_ready
    BY <2>2 DEF S!Register, S!SpawnWorker, S!LeaveBlocking, S!Gosched, S!EnterBlocking,
                S!SpuriousWakeup, S!Pop, S!GoIdle, S!WakeUp, S!Finish, S!Dequeue,
                S!Shutdown, S!Gopark, S!queue
  <2>3. ASSUME S!MainStep \/ \E w \in Threads, x \in Tasks : S!Go(w, x)
        PROVE  UNCHANGED pending_ready
    BY <2>3 DEF S!MainStep, S!Submit, S!Go, S!CreateTask, S!StartRuntime, S!Join, S!queue
  <2> QED
    BY <1>4, <2>1, <2>2, <2>3 DEF SchedulerStep
<1> QED
  BY <1>3, <1>5

(* goready parks nobody, spends no pending wake, and does not leave the    *)
(* task it is called for parked without one.                               *)
LEMMA ReadyParks ==
  ASSUME Types, Types', A!IInv, NEW x \in Tasks, A!ReadyTask(x, AbsPc), UNCHANGED current_task,
         NEW t \in Tasks, Parked(t)'
  PROVE  /\ Parked(t)
         /\ t \in pending_ready => t \in pending_ready'
         /\ t = x => t \in pending_ready'
<1>1. \A w \in Threads : pc'[w] = "parking" => pc[w] = "parking"
  <2>1. \A w \in Threads : AbsPc'[w] = AbsPc[w] \/ AbsPc'[w] = "woken"
    BY AbsAt DEF Types, A!ReadyTask, A!WakeIdle, A!NotifyOne, A!Threads, Threads
  <2>2. \A w \in Threads : AbsPc[w] = At(pc[w]) /\ AbsPc'[w] = At(pc'[w])
    BY AbsNext DEF AbsPc, Abs
  <2>3. \A w \in Threads : /\ At(pc[w]) = "parking" <=> pc[w] = "parking"
                           /\ At(pc'[w]) = "parking" <=> pc'[w] = "parking"
    BY AtKeeps DEF Types, S!PC, S!Holding
  <2> QED
    BY <2>1, <2>2, <2>3
<1>2. /\ state \in [Tasks -> {"New", "Runnable", "Running", "Waiting", "Dead"}]
      /\ x \in waiting => \A w \in Threads : current_task[w] # x
  BY TimerAssumption DEF A!IInv, A!Shape, A!OnePlace, A!Held, A!Threads, Threads
<1>3. CASE x \in waiting
  <2>1. /\ UNCHANGED pending_ready
        /\ state' = [state EXCEPT ![x] = "Runnable"]
    BY <1>3 DEF A!ReadyTask, A!Enqueue
  <2> QED
    BY <1>1, <1>2, <1>3, <2>1 DEF Parked
<1>4. CASE x \notin waiting
  <2>1. UNCHANGED state /\ pending_ready' = pending_ready \cup {x}
    BY <1>4 DEF A!ReadyTask
  <2> QED
    BY <1>1, <2>1 DEF Parked
<1> QED
  BY <1>3, <1>4

(* No step of the poller loses what it has collected: what the kernel      *)
(* reports is looked up in waiting_fds, and what is found there is kept    *)
(* for the delivery.                                                       *)
LEMMA LookReports ==
  ASSUME Types, Memory, Reported, OneShot => \A v, w \in Threads : v = w,
         NEW w \in Threads, LookStep(w)
  PROVE  Reported'
<1>1. Moves(w, pc'[w]) /\ UNCHANGED sched /\ LookLocals(w)
  BY LookMoves, LookRemembers
<1>2. pc'[w] \notin {"registering", "parking"} /\ pc[w] \notin {"registering", "parking"}
  BY LookMoves DEF Away, Polling
<1>3. \A v \in Threads : /\ pc'[v] = "registering" => pc[v] = "registering"
                         /\ pc'[v] = "parking" => pc[v] = "parking"
  BY <1>1, <1>2 DEF Moves, S!Dozing
<1>4. \A t : Parked(t)' => Parked(t)
  BY <1>1, <1>3 DEF Parked, sched
<1>5. UNCHANGED <<fds, current_task, pending_ready>>
  BY <1>1 DEF LookStep, PopNothing, Claim, LookForNet, LookForTimers, Release, PopTimer,
              FirstCheckDone, WaitOver, MapEvents, SecondCheckDone, ObserveNet,
              ObserveTimers, poller, sched
<1>6. /\ \A v \in Threads \ {w} : local'[v] = local[v]
      /\ WaitOver(w)  => pc[w] = "wait" /\ local[w].events = {} /\ local[w].ready = {}
      /\ MapEvents(w) => pc[w] = "map" /\ local[w].ready = {}
  BY <1>1, LookMoves DEF LookLocals, Memory, Remembers
<1>7. CASE WaitOver(w) /\ local[w].net
  <2>1. PICK r \in {{}, watched \cap readable} :
          local'[w].events = r /\ watched' = IF OneShot THEN watched \ r ELSE watched
    <3>1. PICK r \in {{}, watched \cap readable} :
            Set(w, "events", r) /\ watched' = IF OneShot THEN watched \ r ELSE watched
      BY <1>7 DEF WaitOver
    <3> QED
      BY <3>1 DEF Set, Types, LocalState
  <2>2. \A v \in Threads : pc'[v] = "registering" => current_task'[v] \in watched'
    <3>1. CASE OneShot
      BY <1>2, <3>1
    <3>2. CASE ~OneShot
      BY <1>3, <1>5, <2>1, <3>2 DEF Reported
    <3> QED
      BY <3>1, <3>2
  <2>3. ASSUME NEW t \in fds, ReportComes(t) PROVE ReportComes(t)'
    <3>1. CASE t \in watched \cup pending_ready
      BY <1>5, <2>1, <3>1 DEF ReportComes
    <3>2. CASE \E v \in Threads : t \in local[v].events \cup local[v].ready
      BY <1>6, <1>7, <3>2 DEF ReportComes
    <3> QED
      BY <2>3, <3>1, <3>2 DEF ReportComes
  <2> QED
    BY <1>4, <1>5, <2>2, <2>3 DEF Reported
<1>8. CASE ~(WaitOver(w) /\ local[w].net)
  <2>1. UNCHANGED watched
    BY <1>8 DEF LookStep, PopNothing, Claim, LookForNet, LookForTimers, Release, PopTimer,
                FirstCheckDone, WaitOver, MapEvents, SecondCheckDone, ObserveNet,
                ObserveTimers, poller
  <2>2. \A t \in fds, v \in Threads :
          t \in local[v].events \cup local[v].ready
            => t \in local'[v].events \cup local'[v].ready
    <3>1. CASE MapEvents(w)
      BY <1>1, <1>6, <1>8, <3>1 DEF LookLocals
    <3>2. CASE ~MapEvents(w)
      BY <1>1, <1>6, <1>8, <3>2 DEF LookLocals
    <3> QED
      BY <3>1, <3>2
  <2> QED
    BY <1>3, <1>4, <1>5, <2>1, <2>2, SameReports
<1> QED
  BY <1>7, <1>8

(* The case of kqueue is that of a single thread: a one-shot event that    *)
(* is collected between the registration with the kernel and the entry     *)
(* in waiting_fds (kqueue.rs:36-56) is dropped for good, and with a        *)
(* second thread that happens.                                             *)
LEMMA ReportedNext ==
  ASSUME OneShot => \A v, w \in Threads : v = w,
         TimerInv, TimerInv', Reported, [Next]_vars
  PROVE  Reported'
<1>t. /\ Types /\ Types' /\ Memory /\ A!IInv /\ A!IInv'
      /\ Readers \subseteq Tasks /\ fds' \subseteq Readers
  BY TimerAssumption DEF TimerInv, Types
<1>1. CASE QuietStep
  <2>1. /\ UNCHANGED <<watched, fds>> /\ PollersStay
        /\ \A w \in Threads : /\ local[w].events \subseteq local'[w].events
                              /\ local[w].ready \subseteq local'[w].ready
    <3>1. UNCHANGED <<watched, fds>> /\ PollersStay
      BY <1>1, <1>t, SchedulerPollersStay DEF QuietStep, Unpolled
    <3>2. \A w \in Threads :
            local'[w] = local[w] \/ (local[w].events = {} /\ local[w].ready = {})
      BY <1>1, <1>t DEF QuietStep, Memory, Remembers, Types
    <3> QED
      BY <3>1, <3>2
  <2>2. ASSUME NEW t \in fds', Parked(t)'
        PROVE  Parked(t) /\ (t \in pending_ready => t \in pending_ready')
    BY <1>1, <1>t, <2>2, SchedulerParks DEF QuietStep
  <2>3. \A w \in Threads :
          pc'[w] = "registering" => pc[w] = "registering" /\ current_task'[w] = current_task[w]
    BY <2>1 DEF PollersStay, S!PC, S!Holding, S!Dozing
  <2> QED
    BY <2>1, <2>2, <2>3, SameReports
<1>2. ASSUME NEW w \in Threads, LookStep(w) PROVE Reported'
  BY <1>2, <1>t, LookReports
<1>3. ASSUME NEW w \in Threads, FireTimer(w) PROVE Reported'
  <2>1. PICK x \in Tasks : x = local[w].popped
    BY <1>3, <1>t, FireSimulated DEF Types, LocalState, Popped
  <2>2. PICK to \in {"check1", "check2"} : S!ReadyTask(local[w].popped, S!Goto(w, to))
    BY <1>3 DEF FireTimer
  <2>3. Moves(w, to)
    <3>1. to \in Positions \ S!Dozing
      BY DEF Positions, Away, Polling, S!Dozing
    <3> QED
      BY <1>t, <2>2, <3>1, ReadyMoves
  <2>4. \A v \in Threads : pc'[v] = "registering" => pc[v] = "registering"
    BY <2>3 DEF Moves, S!Dozing
  <2>5. \A v \in Threads : local'[v].events = local[v].events /\ local'[v].ready = local[v].ready
    BY <1>3, <1>t DEF FireTimer, Set, Types, LocalState
  <2>6. ASSUME NEW t \in fds', Parked(t)'
        PROVE  Parked(t) /\ (t \in pending_ready => t \in pending_ready')
    BY <1>3, <1>t, <2>1, <2>6, FireSimulated, ReadyParks
  <2>7. UNCHANGED <<watched, fds, current_task>>
    BY <1>3 DEF FireTimer
  <2> QED
    BY <2>4, <2>5, <2>6, <2>7, SameReports
<1>4. ASSUME NEW w \in Threads, Deliver(w) PROVE Reported'
  <2>1. CASE local[w].ready = {} /\ Step(w, "deliver", "pop") /\ local' = [local EXCEPT ![w] = NoLocals]
    <3>1. /\ UNCHANGED <<watched, fds, current_task, pending_ready, state>>
          /\ Moves(w, "pop") /\ pc[w] = "deliver"
      <4>1. "pop" \in Positions
        BY DEF Positions, S!PC
      <4> QED
        BY <1>4, <1>t, <2>1, <4>1, StepMoves DEF Deliver, sched
    <3>2. \A v \in Threads : /\ pc'[v] = "registering" => pc[v] = "registering"
                             /\ pc'[v] = "parking" => pc[v] = "parking"
                             /\ local[v].events \subseteq local'[v].events
                             /\ local[v].ready \subseteq local'[v].ready
      BY <1>t, <2>1, <3>1 DEF Moves, S!Dozing, Memory, Remembers, Types
    <3>3. \A t : Parked(t)' => Parked(t)
      BY <3>1, <3>2 DEF Parked
    <3> QED
      BY <3>1, <3>2, <3>3, SameReports
  <2>2. ASSUME NEW x \in local[w].ready, S!ReadyTask(x, pc), UNCHANGED current_task,
               Set(w, "ready", local[w].ready \ {x})
        PROVE  Reported'
    <3>1. x \in Tasks /\ pc \in [Threads -> Positions]
      BY <1>t DEF Types, LocalState
    <3>2. A!ReadyTask(x, AbsPc)
      BY <2>2, <3>1, AbsReady DEF AbsPc
    <3>3. \A v \in Threads : pc'[v] = pc[v] \/ pc'[v] = "woken"
      BY <2>2, <3>1, WakeIdleMoves DEF S!ReadyTask
    <3>4. \A v \in Threads : /\ local'[v].events = local[v].events
                             /\ local[v].ready \ {x} \subseteq local'[v].ready
      BY <1>t, <2>2 DEF Set, Types, LocalState
    <3>5. ASSUME NEW t \in fds', Parked(t)'
          PROVE  /\ Parked(t) /\ (t \in pending_ready => t \in pending_ready')
                 /\ t = x => t \in pending_ready'
      BY <1>t, <2>2, <3>1, <3>2, <3>5, ReadyParks
    <3>6. UNCHANGED <<watched, fds>>
      BY <1>4 DEF Deliver
    <3> QED
      BY <2>2, <3>3, <3>4, <3>5, <3>6, SameReports
  <2> QED
    BY <1>4, <2>1, <2>2 DEF Deliver
<1>5. ASSUME NEW w \in Threads, Sleep(w) \/ FileRead(w) \/ RegisterRead(w) PROVE Reported'
  <2>1. PICK to \in {"parking", "registering"} :
          Moves(w, to) /\ UNCHANGED sched /\ (to = "registering" <=> RegisterRead(w))
    <3>1. {"parking", "registering"} \subseteq Positions
      BY DEF Positions, S!PC, S!Holding
    <3>2. Sleep(w) \/ FileRead(w) => Moves(w, "parking") /\ UNCHANGED sched
      BY <1>t, <3>1, StepMoves DEF Sleep, FileRead
    <3>3. RegisterRead(w) => Moves(w, "registering") /\ UNCHANGED sched
      BY <1>t, <3>1, StepMoves DEF RegisterRead
    <3> QED
      BY <1>5, <3>2, <3>3 DEF Moves
  <2>2. /\ watched \subseteq watched'
        /\ \A v \in Threads : /\ local'[v].events = local[v].events
                              /\ local'[v].ready = local[v].ready
    BY <1>5, <1>t DEF Sleep, FileRead, RegisterRead, Types, LocalState
  <2>3. \A v \in Threads \ {w} : /\ pc'[v] = "registering" => pc[v] = "registering"
                                 /\ pc'[v] = "parking" => pc[v] = "parking"
    BY <2>1 DEF Moves, S!Dozing
  <2>4. \A v \in Threads : pc'[v] = "registering" => current_task'[v] \in watched'
    <3>1. pc'[w] = "registering" => current_task[w] \in watched'
      BY <1>5, <2>1 DEF Moves, RegisterRead
    <3> QED
      BY <2>1, <2>2, <2>3, <3>1 DEF Reported, sched
  <2>5. ASSUME NEW t \in fds', Parked(t)' PROVE ReportComes(t)'
    <3>1. CASE t \in watched'
      BY <3>1 DEF ReportComes
    <3>2. CASE t \notin watched'
      <4>1. t \in fds /\ (Parked(t) \/ current_task[w] = t)
        <5>1. FileRead(w) => fds' = fds \cup {current_task[w]} /\ current_task[w] \in watched
          BY DEF FileRead, Step, Reported
        <5>2. Sleep(w) \/ RegisterRead(w) => UNCHANGED fds
          BY DEF Sleep, RegisterRead
        <5>3. t \in fds
          BY <1>5, <2>2, <3>2, <5>1, <5>2
        <5> QED
          BY <2>1, <2>3, <2>5, <5>3 DEF Parked, sched
      <4>2. current_task[w] # t
        BY <1>5, <2>2, <3>2, <4>1 DEF Sleep, RegisterRead, FileRead, InCode, Step, Reported
      <4> QED
        BY <2>1, <2>2, <4>1, <4>2 DEF Reported, ReportComes, sched
    <3> QED
      BY <3>1, <3>2
  <2> QED
    BY <2>4, <2>5 DEF Reported
<1>6. ASSUME NEW w \in Threads, Unregister(w) PROVE Reported'
  <2>1. PICK t : /\ t = current_task[w] /\ pc[w] = "run" /\ t \in watched
                 /\ watched' = watched \ {t}
                 /\ UNCHANGED <<sched, pc, fds, local>>
    BY <1>6 DEF Unregister
  <2>2. /\ state[t] = "Running"
        /\ \A v \in Threads : current_task[v] = t => v = w
    <3>1. AbsPc[w] = "run"
      BY <1>t, <2>1, AbsAt, AtKeeps DEF Types, S!PC, S!Holding
    <3>2. t \in Tasks
      BY <1>t, <2>1 DEF Types
    <3> QED
      BY <1>t, <2>1, <3>1, <3>2, TimerAssumption
         DEF A!IInv, A!Shape, A!OnePlace, A!Holding, A!Threads, Threads
  <2>3. ~Parked(t)
    BY <2>1, <2>2 DEF Parked
  <2> QED
    BY <2>1, <2>2, <2>3 DEF Reported, Parked, ReportComes, sched
<1>7. ASSUME NEW w \in Threads, Unfile(w) PROVE Reported'
  BY <1>7 DEF Unfile, Reported, Parked, ReportComes, sched
<1>8. CASE UNCHANGED vars \/ \E t \in Tasks : Expire(t) \/ DataArrives(t)
  BY <1>8 DEF Expire, DataArrives, vars, poller, sched, Reported, Parked, ReportComes
<1> QED
  BY <1>1, <1>2, <1>3, <1>4, <1>5, <1>6, <1>7, <1>8, <1>t, StepKinds

(* A task that is parked for its socket is watched by the kernel, or its   *)
(* report is on the way (timer.rs:523-539): with epoll for any number of   *)
(* threads; with kqueue, whose events are one-shot, for one thread, as a   *)
(* second one may collect the event before the task is filed.              *)
THEOREM ReportsKept ==
  ASSUME OneShot => \A v, w \in Threads : v = w
  PROVE  Spec => []NoLostReport
<1>1. Init => Reported
  BY DEF Init, Reported, S!Init, S!Threads, Threads
<1>2. TimerInv /\ TimerInv' /\ Reported /\ [Next]_vars => Reported'
  BY ReportedNext
<1>3. Reported => NoLostReport
  BY DEF Reported, Parked, ReportComes, NoLostReport
<1> QED
  BY <1>1, <1>2, <1>3, TimerInvariant, PTL DEF Spec

-----------------------------------------------------------------------------
(* Queued work, and threads that sleep.                                    *)

(* The threads that get back to the queue by themselves: a poller does as  *)
(* soon as it has found something to poll for.                             *)
OnTheWay == S!OnTheWay \cup {"registering"} \cup (Away \ Looking)

(* NoStrandedWork of Scheduler, with the poller's positions.               *)
NoStrandedWork ==
  runnable # <<>> =>
    \/ main = "submit"
    \/ S!In(OnTheWay) # {}
    \/ S!In({"blocking"}) # {} /\ idle_workers > 0

(* While a task is queued some thread is on its way to the queue, or all   *)
(* of those are in blocking calls and enter_blocking has counted an idle   *)
(* worker.  A thread that still looks for something to poll for is not     *)
(* taken to be on its way (timer.rs:120-144, 545-560): it may go to sleep. *)
(* The poller is, since nothing but its own wait keeps it from the queue   *)
(* (timer.rs:586-590).                                                     *)
THEOREM WorkNeverStranded == Spec => []NoStrandedWork
<1>1. TimerInv => NoStrandedWork
  <2> SUFFICES ASSUME TimerInv PROVE NoStrandedWork
    OBVIOUS
  <2>1. \A w \in Threads : AbsPc[w] = At(pc[w]) /\ pc[w] \in Positions
    BY AbsAt DEF TimerInv, Types
  <2>2. ASSUME NEW x \in Positions
        PROVE  /\ At(x) \in A!OnTheWay => x \in OnTheWay
               /\ At(x) = "blocking" => x = "blocking"
    BY DEF At, Looking, Away, Polling, Positions, OnTheWay, S!OnTheWay, A!OnTheWay,
           S!Holding, A!Holding, S!PC, S!Dozing
  <2>3. /\ A!In(A!OnTheWay) # {} => S!In(OnTheWay) # {}
        /\ A!In({"blocking"}) # {} => S!In({"blocking"}) # {}
    BY <2>1, <2>2 DEF A!In, S!In, A!Threads, S!Threads, Threads
  <2> QED
    BY <2>3 DEF TimerInv, A!NoStrandedWork, NoStrandedWork
<1> QED
  BY <1>1, TimerInvariant, PTL

(* The runtime does not go to sleep on the condition variable, and does    *)
(* not shut down, while a timer is set or a socket registered.             *)
Attentive == S!In({"asleep", "woken", "exit"}) # {} => timers = {} /\ fds = {}

(* What one thread has seen by the time it rests is still so.              *)
Seen ==
  \A w \in Threads :
    /\ pc[w] \in {"unclaim", "observe", "observe2"} \cup Drowsy => timers = {} /\ fds = {}
    /\ pc[w] = "look2" /\ ~local[w].net => fds = {}

(* Nobody else is there to register anything once the thread has seen      *)
(* that there is nothing to poll for.                                      *)
LEMMA SeenNext ==
  ASSUME \A v, w \in Threads : v = w, TimerInv, Seen, [Next]_vars
  PROVE  Seen'
<1>t. /\ Types /\ A!IInv /\ Memory /\ OnePoller
      /\ {"pop", "parking", "registering", "check1", "check2"} \subseteq Positions
  BY DEF TimerInv, Positions, Away, Polling, S!PC, S!Holding
<1>1. CASE QuietStep
  <2>1. PollersStay
    BY <1>1, <1>t, SchedulerPollersStay DEF QuietStep
  <2>2. \A w \in Threads :
          /\ pc'[w] \in Drowsy => pc[w] \in Drowsy
          /\ pc'[w] \in Looking => pc'[w] = pc[w]
    BY <2>1 DEF PollersStay, Looking, S!PC, S!Holding, S!Dozing
  <2>3. \A w \in Threads : pc[w] = "look2" => local'[w] = local[w]
    BY <1>1, <1>t DEF QuietStep, Types
  <2> QED
    BY <1>1, <2>2, <2>3 DEF QuietStep, Unpolled, Seen, Looking
<1>2. ASSUME NEW w \in Threads, pc'[w] \notin Looking \cup Drowsy
      PROVE  Seen'
  BY <1>2 DEF Seen, Looking
<1>3. ASSUME NEW w \in Threads, LookStep(w) PROVE Seen'
  <2>0. /\ PopNothing(w)      => pc'[w] = "poll"
        /\ Claim(w)           => pc[w] = "poll" /\ pc'[w] = IF polling THEN "observe" ELSE "look"
        /\ LookForNet(w)      => pc'[w] = "look2"
        /\ LookForTimers(w)   => pc[w] = "look2" /\ pc'[w] \in {"unclaim", "check1"}
        /\ PopTimer(w)        => pc'[w] \in {"fire1", "fire2"}
        /\ FirstCheckDone(w)  => pc'[w] \in {"giveup", "wait"}
        /\ WaitOver(w)        => pc'[w] \in {"map", "check2"}
        /\ MapEvents(w)       => pc'[w] = "check2"
        /\ SecondCheckDone(w) => pc'[w] = "release"
        /\ Release(w)         => \/ pc[w] = "unclaim" /\ pc'[w] = "observe"
                                 \/ pc'[w] \in {"pop", "deliver"}
        /\ ObserveNet(w)      => pc[w] = "observe" /\ pc'[w] = "observe2"
        /\ ObserveTimers(w)   => pc[w] = "observe2" /\ pc'[w] = "idling"
    <3>1. Types /\ LookStep(w)
      BY <1>3, <1>t
    <3> QED
      BY <3>1, LookMoves
  <2>1. CASE pc'[w] \notin Looking \cup Drowsy
    BY <1>2, <2>1
  <2>2. CASE pc'[w] \in {"poll", "look"}
    BY <2>2 DEF Seen, Drowsy
  <2>3. PopNothing(w) \/ Claim(w) => pc'[w] \in {"poll", "look"}
    <3>1. pc[w] = "poll" => ~polling
      BY <1>t DEF OnePoller, S!In, S!Threads, Threads, Polling
    <3>2. CASE PopNothing(w)
      BY <2>0, <3>2
    <3>3. CASE Claim(w)
      <4>1. pc'[w] = IF polling THEN "observe" ELSE "look"
        BY <2>0, <3>3
      <4>2. ~polling
        BY <2>0, <3>1, <3>3
      <4> QED
        BY <4>1, <4>2
    <3> QED
      BY <3>2, <3>3
  <2>4. CASE LookForNet(w)
    <3>1. pc'[w] = "look2"
      BY <2>0, <2>4
    <3>2. UNCHANGED fds /\ local'[w].net = (fds # {})
      BY <1>t, <2>4 DEF LookForNet, Set, Types, LocalState
    <3> QED
      BY <3>1, <3>2 DEF Seen, Drowsy
  <2>5. CASE LookForTimers(w) /\ pc'[w] = "unclaim"
    <3>1. pc[w] = "look2" /\ ~local[w].net /\ timers = {} /\ UNCHANGED <<timers, fds>>
      BY <1>3, <1>t, <2>5, StepMoves DEF LookForTimers, Moves, Positions, Away, Polling
    <3> QED
      BY <2>5, <3>1 DEF Seen
  <2>6. ASSUME pc[w] \in {"unclaim", "observe", "observe2"},
               pc'[w] \in {"observe", "observe2", "idling"},
               Release(w) \/ ObserveNet(w) \/ ObserveTimers(w)
        PROVE  Seen'
    <3>1. UNCHANGED <<timers, fds>>
      BY <2>6 DEF Release, ObserveNet, ObserveTimers
    <3>2. timers = {} /\ fds = {}
      BY <2>6 DEF Seen
    <3> QED
      BY <2>6, <3>1, <3>2 DEF Seen
  <2>7. Release(w) \/ ObserveNet(w) \/ ObserveTimers(w) => Seen'
    <3>1. Release(w) \/ ObserveNet(w) \/ ObserveTimers(w) =>
            \/ pc'[w] \in {"pop", "deliver"}
            \/ /\ pc[w] \in {"unclaim", "observe", "observe2"}
               /\ pc'[w] \in {"observe", "observe2", "idling"}
      BY <2>0
    <3>2. pc'[w] \in {"pop", "deliver"} => Seen'
      BY <2>1 DEF Looking, Drowsy
    <3> QED
      BY <2>6, <3>1, <3>2
  <2>8. ASSUME \/ PopTimer(w) \/ FirstCheckDone(w) \/ WaitOver(w) \/ MapEvents(w)
               \/ SecondCheckDone(w)
               \/ LookForTimers(w) /\ pc'[w] # "unclaim"
        PROVE  pc'[w] \notin Looking \cup Drowsy
    <3>1. pc'[w] \in {"fire1", "fire2", "giveup", "wait", "map", "check2", "release", "check1"}
      BY <2>0, <2>8
    <3> QED
      BY <3>1 DEF Looking, Drowsy
  <2>9. \/ PopNothing(w) \/ Claim(w) \/ LookForNet(w) \/ LookForTimers(w) \/ PopTimer(w)
        \/ FirstCheckDone(w) \/ WaitOver(w) \/ MapEvents(w) \/ SecondCheckDone(w)
        \/ Release(w) \/ ObserveNet(w) \/ ObserveTimers(w)
    BY <1>3 DEF LookStep
  <2> QED
    BY <2>1, <2>2, <2>3, <2>4, <2>5, <2>7, <2>8, <2>9
<1>4. ASSUME NEW w \in Threads, FireTimer(w) PROVE Seen'
  <2>1. PICK to \in {"check1", "check2"} : S!ReadyTask(local[w].popped, S!Goto(w, to))
    BY <1>4 DEF FireTimer
  <2>2. pc'[w] = to
    BY <1>t, <2>1, ReadyMoves DEF Moves, S!Dozing
  <2> QED
    BY <1>2, <2>2 DEF Looking, Drowsy
<1>5. ASSUME NEW w \in Threads, Deliver(w) PROVE Seen'
  <2>1. CASE Step(w, "deliver", "pop")
    <3>1. pc'[w] = "pop"
      BY <1>t, <2>1, StepMoves DEF Moves
    <3> QED
      BY <1>2, <3>1 DEF Looking, Drowsy
  <2>2. ASSUME NEW x, S!ReadyTask(x, pc), pc[w] = "deliver" PROVE Seen'
    <3>1. pc'[w] = "deliver"
      BY <1>t, <2>2, WakeIdleMoves DEF S!ReadyTask, Types
    <3> QED
      BY <1>2, <3>1 DEF Looking, Drowsy
  <2> QED
    BY <1>5, <2>1, <2>2 DEF Deliver
<1>6. ASSUME NEW w \in Threads, Sleep(w) \/ RegisterRead(w) \/ FileRead(w) PROVE Seen'
  <2>1. pc'[w] \in {"parking", "registering"}
    BY <1>6, <1>t, StepMoves DEF Sleep, RegisterRead, FileRead, Moves
  <2> QED
    BY <1>2, <2>1 DEF Looking, Drowsy
<1>7. ASSUME NEW w \in Threads, Unregister(w) \/ Unfile(w) PROVE Seen'
  BY <1>7 DEF Unregister, Unfile, Seen
<1>8. CASE UNCHANGED vars \/ \E t \in Tasks : Expire(t) \/ DataArrives(t)
  BY <1>8 DEF Expire, DataArrives, vars, poller, Seen
<1> QED
  BY <1>1, <1>3, <1>4, <1>5, <1>6, <1>7, <1>8, <1>t, StepKinds

(* A single thread polls as long as there is a timer or a socket to wait   *)
(* for, rather than going idle (timer.rs:130-144, 545-563): there would    *)
(* be nobody to notify it.  With a second thread this is false: the        *)
(* thread that is turned away by POLLING may sleep with a timer set that   *)
(* the poller has not seen.                                                *)
THEOREM OneThreadIsAttentive ==
  ASSUME \A v, w \in Threads : v = w
  PROVE  Spec => []Attentive
<1>1. Init => Seen
  BY DEF Init, S!Init, Seen, Drowsy, S!Threads, Threads
<1>2. TimerInv /\ Seen /\ [Next]_vars => Seen'
  BY SeenNext
<1>3. Seen => Attentive
  BY DEF Seen, Attentive, Drowsy, S!In, S!Threads, Threads
<1> QED
  BY <1>1, <1>2, <1>3, TimerInvariant, PTL DEF Spec
=============================================================================
