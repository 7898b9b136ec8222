--------------------------- MODULE SchedulerProofs --------------------------
(***************************************************************************)
(* Scheduler, for any tasks, workers and batches: each task is in one      *)
(* place, gopark and goready keep ParkContract, and what the two counters  *)
(* guarantee: ShutdownMeansDone, TypeOK and NoStrandedWork.                *)
(*                                                                         *)
(* The invariants are shown to survive the steps of a poller as well       *)
(* (PollerStep), so that TimerProofs can build on them.                    *)
(***************************************************************************)
EXTENDS Scheduler, FiniteSetTheorems, TLAPS

Elems(s) == {s[i] : i \in DOMAIN s}

Distinct(s) == \A i, j \in DOMAIN s : s[i] = s[j] => i = j

(* Taking the head off a queue without repetitions removes exactly it.     *)
LEMMA TailElems ==
  ASSUME NEW T, NEW s \in Seq(T), s # <<>>, Distinct(s)
  PROVE  /\ Head(s) \in T /\ Tail(s) \in Seq(T)
         /\ Elems(Tail(s)) = Elems(s) \ {Head(s)}
         /\ Head(s) \in Elems(s)
         /\ Distinct(Tail(s))
<1>1. /\ Len(s) \in Nat \ {0}
      /\ DOMAIN s = 1 .. Len(s)
      /\ Head(s) = s[1]
      /\ \A i \in 1 .. Len(s) : s[i] \in T
  OBVIOUS
<1>2. /\ Tail(s) \in Seq(T)
      /\ DOMAIN Tail(s) = 1 .. Len(s) - 1
      /\ \A i \in 1 .. Len(s) - 1 : Tail(s)[i] = s[i + 1]
  OBVIOUS
<1>3. Distinct(Tail(s))
  BY <1>1, <1>2 DEF Distinct
<1>4. Elems(Tail(s)) \subseteq Elems(s) \ {Head(s)}
  BY <1>1, <1>2 DEF Elems, Distinct
<1>5. Elems(s) \ {Head(s)} \subseteq Elems(Tail(s))
  <2> SUFFICES ASSUME NEW i \in 1 .. Len(s), s[i] # Head(s)
               PROVE  s[i] \in Elems(Tail(s))
    BY <1>1 DEF Elems
  <2>1. i - 1 \in 1 .. Len(s) - 1 /\ Tail(s)[i - 1] = s[i]
    BY <1>1, <1>2
  <2> QED
    BY <1>2, <2>1 DEF Elems
<1>6. Head(s) \in T /\ Head(s) \in Elems(s)
  BY <1>1 DEF Elems
<1> QED
  BY <1>2, <1>3, <1>4, <1>5, <1>6

(* Appending an element that was not there adds exactly it.                *)
LEMMA AppendElems ==
  ASSUME NEW T, NEW s \in Seq(T), NEW x \in T, Distinct(s)
  PROVE  /\ Append(s, x) \in Seq(T)
         /\ Elems(Append(s, x)) = Elems(s) \cup {x}
         /\ x \notin Elems(s) => Distinct(Append(s, x))
<1>1. /\ Append(s, x) \in Seq(T)
      /\ DOMAIN s = 1 .. Len(s)
      /\ Len(s) \in Nat
      /\ DOMAIN Append(s, x) = 1 .. Len(s) + 1
      /\ \A i \in 1 .. Len(s) : Append(s, x)[i] = s[i]
      /\ Append(s, x)[Len(s) + 1] = x
  OBVIOUS
<1>2. Elems(Append(s, x)) \subseteq Elems(s) \cup {x}
  BY <1>1 DEF Elems
<1>3. Elems(s) \cup {x} \subseteq Elems(Append(s, x))
  BY <1>1 DEF Elems
<1>4. ASSUME x \notin Elems(s) PROVE Distinct(Append(s, x))
  BY <1>1, <1>4 DEF Elems, Distinct
<1> QED
  BY <1>1, <1>2, <1>3, <1>4

-----------------------------------------------------------------------------
(* The inductive invariant: shape, one place for each task, and no worker  *)
(* of start_runtime at work unless main is inside start_runtime.           *)

WorkersOutside == main # "join" => \A w \in Workers : pc[w] \in {"none", "exit"}

IInv == Shape /\ OnePlace /\ WorkersOutside

(* What a poller does to the scheduler: it keeps a worker from terminating *)
(* ("outside"), sends it back to the queue that it had found empty, passes *)
(* ids to goready from there, and files and takes out ids as it likes.     *)
LookBack(w) ==
  /\ pc[w] = "idling"
  /\ pc' = Goto(w, "pop")
  /\ UNCHANGED <<queue, current_task, state, armed, main, session>>

PollerReady(w, t) ==
  /\ pc[w] = "pop"
  /\ ReadyTask(t, pc)
  /\ armed' \in SUBSET Tasks
  /\ UNCHANGED <<idle_workers, all_workers, current_task, main, session>>

Rearm ==
  /\ armed' \in SUBSET Tasks
  /\ UNCHANGED <<queue, current_task, state, pc, main, session>>

PollerStep ==
  \/ \E w \in Threads : GoIdle(w, TRUE) \/ WakeUp(w, TRUE) \/ LookBack(w)
  \/ \E w \in Threads, t \in Tasks : PollerReady(w, t)
  \/ Rearm

PolledNext == Next \/ PollerStep

(* The part of it that touches no id.                                      *)
LoopStep == Next \/ \E w \in Threads : GoIdle(w, TRUE) \/ WakeUp(w, TRUE) \/ LookBack(w)

(* The variables that say nothing about where a task is.                   *)
RestOK ==
  /\ pending_ready \in SUBSET Tasks
  /\ idle_workers \in Int
  /\ all_workers \in Int
  /\ armed \in SUBSET Tasks
  /\ main \in {"submit", "join", "done"}
  /\ session \in DOMAIN Batches

(* What a notification may do to the thread v.                             *)
Nudged(p, q, v) == q[v] = p[v] \/ (p[v] = "asleep" /\ q[v] = "woken")

LEMMA WakeIdleNudges ==
  ASSUME NEW p \in [Threads -> PC], NEW q \in WakeIdle(p)
  PROVE  q \in [Threads -> PC] /\ \A v \in Threads : Nudged(p, q, v)
<1>1. q = p \/ \E w \in Threads : p[w] = "asleep" /\ q = [p EXCEPT ![w] = "woken"]
  BY DEF WakeIdle, NotifyOne
<1>2. CASE q = p
  BY <1>2 DEF Nudged
<1>3. CASE \E w \in Threads : p[w] = "asleep" /\ q = [p EXCEPT ![w] = "woken"]
  BY <1>3 DEF Nudged, PC, Dozing
<1> QED
  BY <1>1, <1>2, <1>3

(* A step that leaves every task where it is.                              *)
LEMMA StaysPut ==
  ASSUME IInv, RestOK', WorkersOutside',
         UNCHANGED <<runnable, waiting, current_task, state>>,
         pc' \in [Threads -> PC],
         \A v \in Threads : pc'[v] \in Holding <=> pc[v] \in Holding,
         \A v \in Threads : pc'[v] \in Holding \ {"switched"} =>
                              pc[v] \in Holding \ {"switched"}
  PROVE  IInv'
<1>1. Shape'
  BY DEF IInv, Shape, RestOK
<1>2. OnePlace'
  BY DEF IInv, OnePlace, Queued, Held
<1> QED
  BY <1>1, <1>2 DEF IInv

(* go and goready: a new or a waiting task is queued.                      *)
LEMMA EnqueueStep ==
  ASSUME IInv, RestOK', WorkersOutside',
         NEW t \in Tasks, state[t] \in {"New", "Waiting"}, t \notin Held,
         Enqueue(t),
         waiting' = waiting \ {t},
         UNCHANGED current_task,
         pc' \in [Threads -> PC],
         \A v \in Threads : Nudged(pc, pc', v)
  PROVE  IInv'
<1> USE DEF IInv
<1>1. /\ runnable' \in Seq(Tasks)
      /\ Elems(runnable') = Elems(runnable) \cup {t}
      /\ Distinct(runnable')
  <2>1. t \notin Elems(runnable) /\ Distinct(runnable) /\ runnable \in Seq(Tasks)
    BY DEF OnePlace, Shape, Queued, Elems, Distinct
  <2> QED
    BY <2>1, AppendElems DEF Enqueue
<1>2. Queued' = Queued \cup {t} /\ Held' = Held
  BY <1>1 DEF Queued, Elems, Held
<1>3. state' = [state EXCEPT ![t] = "Runnable"]
  BY DEF Enqueue
<1>4. \A v \in Threads : current_task[v] # t
  BY SchedulerAssumption DEF Held, Shape
<1>5. \A v \in Threads : /\ pc'[v] \in Holding <=> pc[v] \in Holding
                         /\ pc'[v] \in Holding => pc'[v] = pc[v]
  BY DEF Nudged, Holding
<1>6. Shape'
  BY <1>1, <1>3, <1>4, <1>5 DEF Shape, RestOK
<1>7. OnePlace'
  <2>1. \A x \in Tasks \ {t} : state'[x] = state[x]
    BY <1>3 DEF Shape
  <2>2. state'[t] = "Runnable"
    BY <1>3 DEF Shape
  <2> QED
    BY <1>1, <1>2, <2>1, <2>2 DEF OnePlace, Distinct
<1> QED
  BY <1>6, <1>7

(* A worker takes the oldest task off the queue and switches to it.        *)
LEMMA DequeueStep ==
  ASSUME IInv, RestOK', WorkersOutside',
         NEW w \in Threads, pc[w] \notin Holding,
         Dequeue(w),
         UNCHANGED waiting
  PROVE  IInv'
<1> USE DEF IInv
<1> DEFINE t == Head(runnable)
<1>1. /\ t \in Tasks
      /\ t \in Elems(runnable)
      /\ runnable' \in Seq(Tasks)
      /\ Elems(runnable') = Elems(runnable) \ {t}
      /\ Distinct(runnable')
  <2>1. Distinct(runnable) /\ runnable \in Seq(Tasks) /\ runnable # <<>>
    BY DEF OnePlace, Shape, Distinct, Dequeue
  <2> QED
    BY <2>1, TailElems DEF Dequeue
<1>2. /\ state' = [state EXCEPT ![t] = "Running"]
      /\ current_task' = [current_task EXCEPT ![w] = t]
      /\ pc' = [pc EXCEPT ![w] = "run"]
  BY DEF Dequeue, Goto
<1> HIDE DEF t
<1>3. t \in Queued /\ state[t] = "Runnable"
  BY <1>1 DEF Queued, Elems, OnePlace
<1>4. Queued' = Queued \ {t}
  BY <1>1 DEF Queued, Elems
<1>5. t \notin Held /\ t \notin waiting
  BY <1>1, <1>3 DEF OnePlace
<1>6. current_task[w] = NoTask
  BY DEF Shape
<1>7. t # NoTask /\ \A v \in Threads : current_task[v] # t
  BY <1>1, <1>5, SchedulerAssumption DEF Held, Shape
<1>8. Held' = Held \cup {t}
  BY <1>2, <1>6, <1>7 DEF Held, Shape
<1>9. Shape'
  <2>1. pc' \in [Threads -> PC] /\ current_task' \in [Threads -> Tasks \cup {NoTask}]
    BY <1>1, <1>2 DEF Shape, PC, Holding
  <2>2. \A v \in Threads :
          /\ pc'[v] \in Holding <=> current_task'[v] # NoTask
          /\ pc'[v] \in Holding \ {"switched"} => state'[current_task'[v]] = "Running"
    <3> TAKE v \in Threads
    <3>1. CASE v = w
      BY <1>1, <1>2, <1>7, <3>1 DEF Shape, Holding
    <3>2. CASE v # w
      BY <1>1, <1>2, <1>7, <3>2 DEF Shape, Holding
    <3> QED
      BY <3>1, <3>2
  <2> QED
    BY <1>1, <1>2, <2>1, <2>2 DEF Shape, RestOK
<1>10. OnePlace'
  <2>1. \A x \in Tasks \ {t} : state'[x] = state[x]
    BY <1>2 DEF Shape
  <2>2. state'[t] = "Running"
    BY <1>1, <1>2 DEF Shape
  <2>3. \A u, v \in Threads :
          current_task'[u] = current_task'[v] /\ current_task'[u] # NoTask => u = v
    BY <1>2, <1>7 DEF OnePlace, Shape
  <2> QED
    BY <1>1, <1>4, <1>5, <1>8, <2>1, <2>2, <2>3 DEF OnePlace, Distinct
<1> QED
  BY <1>9, <1>10

(* A running task dies, or begins to wait, and switches out.               *)
LEMMA SwitchOutStep ==
  ASSUME IInv, RestOK', WorkersOutside',
         NEW w \in Threads, pc[w] \in Holding \ {"switched"},
         NEW st \in {"Dead", "Waiting"},
         state' = [state EXCEPT ![current_task[w]] = st],
         pc' = Goto(w, "switched"),
         UNCHANGED <<runnable, waiting, current_task>>
  PROVE  IInv'
<1> USE DEF IInv
<1> DEFINE t == current_task[w]
<1>1. t \in Tasks /\ state[t] = "Running" /\ t \in Held
  BY DEF Shape, Held
<1>2. \A v \in Threads \ {w} : current_task[v] # t
  BY <1>1, SchedulerAssumption DEF OnePlace
<1>3. state'[t] = st /\ \A x \in Tasks \ {t} : state'[x] = state[x]
  BY <1>1 DEF Shape
<1> HIDE DEF t
<1>4. Shape'
  <2>1. /\ state' \in [Tasks -> {"New", "Runnable", "Running", "Waiting", "Dead"}]
        /\ pc' \in [Threads -> PC]
    BY DEF Shape, Goto, PC, Holding
  <2>2. \A v \in Threads :
          /\ pc'[v] \in Holding <=> current_task'[v] # NoTask
          /\ pc'[v] \in Holding \ {"switched"} => state'[current_task'[v]] = "Running"
    <3> TAKE v \in Threads
    <3>1. CASE v = w
      BY <3>1 DEF Shape, Goto, Holding
    <3>2. CASE v # w
      BY <1>2, <1>3, <3>2 DEF Shape, Goto
    <3> QED
      BY <3>1, <3>2
  <2> QED
    BY <2>1, <2>2 DEF Shape, RestOK
<1>5. OnePlace'
  <2>1. Queued' = Queued /\ Held' = Held
    BY DEF Queued, Held
  <2> QED
    BY <1>1, <1>3, <2>1 DEF OnePlace
<1> QED
  BY <1>4, <1>5

(* The worker loop takes back a task that has switched out: it is dead, or *)
(* it is filed as waiting, or it is queued again.                          *)
LEMMA SettleStep ==
  ASSUME IInv, RestOK', WorkersOutside',
         NEW w \in Threads, pc[w] = "switched",
         NEW t, t = current_task[w],
         \/ state[t] = "Dead" /\ UNCHANGED <<runnable, waiting, state>>
         \/ /\ state[t] = "Waiting"
            /\ waiting' = waiting \cup {t}
            /\ UNCHANGED <<runnable, state>>
         \/ /\ state[t] \in {"Running", "Waiting"}
            /\ Enqueue(t)
            /\ UNCHANGED waiting,
         current_task' = [current_task EXCEPT ![w] = NoTask],
         pc' \in [Threads -> PC],
         \A v \in Threads : Nudged(Goto(w, "pop"), pc', v)
  PROVE  IInv'
<1> USE DEF IInv
<1>1. t \in Tasks /\ t \in Held /\ t # NoTask
  BY SchedulerAssumption DEF Shape, Held, Holding
<1>2. \A v \in Threads \ {w} : current_task[v] # t
  BY <1>1, SchedulerAssumption DEF OnePlace
<1>3. Held' = Held \ {t}
  BY <1>1, <1>2 DEF Held, Shape
<1>4. t \notin waiting /\ t \notin Queued
  BY <1>1 DEF OnePlace
<1>5. /\ runnable' \in Seq(Tasks)
      /\ Distinct(runnable')
      /\ runnable' = runnable => Queued' = Queued
      /\ Enqueue(t) => Queued' = Queued \cup {t}
  <2>1. t \notin Elems(runnable) /\ Distinct(runnable) /\ runnable \in Seq(Tasks)
    BY <1>4 DEF OnePlace, Shape, Queued, Elems, Distinct
  <2>2. runnable' = runnable => Queued' = Queued
    BY DEF Queued
  <2>3. ASSUME Enqueue(t)
        PROVE  /\ runnable' \in Seq(Tasks)
               /\ Distinct(runnable')
               /\ Queued' = Queued \cup {t}
    <3>1. /\ Append(runnable, t) \in Seq(Tasks)
          /\ Elems(Append(runnable, t)) = Elems(runnable) \cup {t}
          /\ Distinct(Append(runnable, t))
      BY <1>1, <2>1, AppendElems
    <3>2. runnable' = Append(runnable, t)
      BY <2>3 DEF Enqueue
    <3> QED
      BY <3>1, <3>2 DEF Queued, Elems
  <2>4. runnable' = runnable \/ Enqueue(t)
    OBVIOUS
  <2>5. runnable' = runnable => runnable' \in Seq(Tasks) /\ Distinct(runnable')
    BY <2>1 DEF Distinct
  <2> QED
    BY <2>2, <2>3, <2>4, <2>5
<1>6. /\ state' \in [Tasks -> {"New", "Runnable", "Running", "Waiting", "Dead"}]
      /\ waiting' \in SUBSET Tasks
      /\ \A x \in Tasks \ {t} : state'[x] = state[x]
  BY <1>1 DEF Shape, Enqueue
<1>7. /\ current_task' \in [Threads -> Tasks \cup {NoTask}]
      /\ current_task'[w] = NoTask
      /\ \A v \in Threads \ {w} : current_task'[v] = current_task[v]
  BY DEF Shape
<1>8. /\ pc'[w] = "pop"
      /\ \A v \in Threads \ {w} :
           /\ pc'[v] \in Holding <=> pc[v] \in Holding
           /\ pc'[v] \in Holding => pc'[v] = pc[v]
  BY DEF Nudged, Goto, Holding, Shape
<1>9. Shape'
  <2>1. \A v \in Threads :
          /\ pc'[v] \in Holding <=> current_task'[v] # NoTask
          /\ pc'[v] \in Holding \ {"switched"} => state'[current_task'[v]] = "Running"
    <3> TAKE v \in Threads
    <3>1. CASE v = w
      BY <1>7, <1>8, <3>1 DEF Holding
    <3>2. CASE v # w
      BY <1>2, <1>6, <1>7, <1>8, <3>2 DEF Shape
    <3> QED
      BY <3>1, <3>2
  <2> QED
    BY <1>5, <1>6, <1>7, <2>1 DEF Shape, RestOK
<1>10. OnePlace'
  <2>1. \A u, v \in Threads :
          current_task'[u] = current_task'[v] /\ current_task'[u] # NoTask => u = v
    BY <1>7 DEF OnePlace
  <2>2. CASE UNCHANGED <<runnable, state>>
    BY <1>1, <1>3, <1>4, <1>5, <2>1, <2>2 DEF OnePlace, Distinct, Queued, Enqueue
  <2>3. CASE Enqueue(t) /\ UNCHANGED waiting
    <3>1. state'[t] = "Runnable"
      BY <1>1, <2>3 DEF Enqueue, Shape
    <3>2. Queued' = Queued \cup {t}
      BY <1>5, <2>3
    <3> QED
      BY <1>1, <1>3, <1>4, <1>5, <1>6, <2>1, <2>3, <3>1, <3>2 DEF OnePlace, Distinct
  <2> QED
    BY <2>2, <2>3
<1> QED
  BY <1>9, <1>10

-----------------------------------------------------------------------------

(* A started worker is never taken back to "none" or "exit" by others, and *)
(* a worker that is out stays out unless main starts it.                   *)
LEMMA OutsideStays ==
  ASSUME IInv, UNCHANGED main,
         \A v \in Workers : pc[v] \in {"none", "exit"} => pc'[v] = pc[v]
  PROVE  WorkersOutside'
BY DEF IInv, WorkersOutside

LEMMA InitInv == Init => IInv
<1> SUFFICES ASSUME Init PROVE IInv
  OBVIOUS
<1>1. Shape
  <2>1. 1 \in DOMAIN Batches
    BY SchedulerAssumption
  <2> QED
    BY <2>1 DEF Init, Shape, PC, Holding
<1>2. OnePlace
  BY SchedulerAssumption DEF Init, OnePlace, Queued, Held
<1>3. WorkersOutside
  BY DEF Init, WorkersOutside, Threads
<1> QED
  BY <1>1, <1>2, <1>3 DEF IInv

LEMMA NextInv == IInv /\ [PolledNext]_vars => IInv'
<1> SUFFICES ASSUME IInv, [PolledNext]_vars PROVE IInv'
  OBVIOUS
<1>t. Shape /\ OnePlace /\ WorkersOutside
  BY DEF IInv
<1> USE DEF Threads
<1>1. ASSUME NEW w \in Threads, Register(w) PROVE IInv'
  BY <1>1, <1>t, StaysPut, OutsideStays
     DEF Register, Shape, RestOK, Goto, PC, Holding
<1>2. ASSUME NEW w \in Threads, Pop(w) PROVE IInv'
  <2>1. RestOK' /\ WorkersOutside'
    BY <1>2, <1>t, OutsideStays DEF Pop, Dequeue, Shape, RestOK, Goto
  <2> QED
    BY <1>2, <2>1, DequeueStep DEF Pop, Holding
<1>3. ASSUME NEW w \in Threads, PopNothing(w) PROVE IInv'
  BY <1>3, <1>t, StaysPut, OutsideStays
     DEF PopNothing, queue, Shape, RestOK, Goto, PC, Holding
<1>4. ASSUME NEW w \in Threads, NEW outside, GoIdle(w, outside) PROVE IInv'
  <2>1. CASE Shutdown(w)
    BY <1>4, <2>1, <1>t, StaysPut, OutsideStays
       DEF GoIdle, Shutdown, NotifyAll, Shape, RestOK, Goto, PC, Holding, Dozing
  <2>2. CASE pc' = Goto(w, "asleep") /\ UNCHANGED <<runnable, waiting,
               pending_ready, all_workers, current_task, state>>
    BY <1>4, <2>2, <1>t, StaysPut, OutsideStays
       DEF GoIdle, Shape, RestOK, Goto, PC, Holding, Dozing
  <2> QED
    BY <1>4, <2>1, <2>2 DEF GoIdle
<1>5. ASSUME NEW w \in Threads, NEW outside, WakeUp(w, outside) PROVE IInv'
  <2>1. CASE Shutdown(w)
    BY <1>5, <2>1, <1>t, StaysPut, OutsideStays
       DEF WakeUp, Shutdown, NotifyAll, Shape, RestOK, Goto, PC, Holding, Dozing
  <2>2. CASE Dequeue(w) /\ UNCHANGED <<waiting, pending_ready, all_workers>>
    <3>1. RestOK' /\ WorkersOutside'
      BY <1>5, <2>2, <1>t, OutsideStays DEF WakeUp, Dequeue, Shape, RestOK, Goto
    <3> QED
      BY <1>5, <2>2, <3>1, DequeueStep DEF WakeUp, Holding
  <2>3. CASE pc' = Goto(w, "pop") /\ UNCHANGED <<runnable, current_task, state,
               waiting, pending_ready, all_workers>>
    BY <1>5, <2>3, <1>t, StaysPut, OutsideStays
       DEF WakeUp, Shape, RestOK, Goto, PC, Holding
  <2> QED
    BY <1>5, <2>1, <2>2, <2>3 DEF WakeUp
<1>6. ASSUME NEW w \in Threads, SpuriousWakeup(w) PROVE IInv'
  BY <1>6, <1>t, StaysPut, OutsideStays
     DEF SpuriousWakeup, queue, Shape, RestOK, Goto, PC, Holding, Dozing
<1>7. ASSUME NEW w \in Threads, Settle(w) PROVE IInv'
  <2> DEFINE t == current_task[w]
  <2>1. Goto(w, "pop") \in [Threads -> PC]
    BY <1>t DEF Shape, Goto, PC
  <2>2. /\ pc' \in [Threads -> PC]
        /\ \A v \in Threads : Nudged(Goto(w, "pop"), pc', v)
    BY <1>7, <2>1, WakeIdleNudges
       DEF Settle, SettleDead, SettleParked, SettleYielded, Nudged
  <2>3. WorkersOutside'
    BY <1>7, <2>2, <1>t, OutsideStays DEF Settle, Nudged, Goto, Shape
  <2>4. RestOK'
    BY <1>7, <1>t
       DEF Settle, SettleDead, SettleParked, SettleYielded, Shape, RestOK
  <2>5. \/ state[t] = "Dead" /\ UNCHANGED <<runnable, waiting, state>>
        \/ /\ state[t] = "Waiting"
           /\ waiting' = waiting \cup {t}
           /\ UNCHANGED <<runnable, state>>
        \/ /\ state[t] \in {"Running", "Waiting"}
           /\ Enqueue(t)
           /\ UNCHANGED waiting
    BY <1>7 DEF Settle, SettleDead, SettleParked, SettleYielded
  <2> QED
    BY <1>7, <2>2, <2>3, <2>4, <2>5, SettleStep DEF Settle
<1>8. ASSUME NEW w \in Threads, Gosched(w) \/ Publish(w) PROVE IInv'
  BY <1>8, <1>t, StaysPut, OutsideStays
     DEF Gosched, Publish, queue, Shape, RestOK, Goto, PC, Holding
<1>9. ASSUME NEW w \in Threads, Finish(w) \/ Gopark(w) PROVE IInv'
  <2>1. RestOK' /\ WorkersOutside'
    BY <1>9, <1>t, OutsideStays DEF Finish, Gopark, queue, Shape, RestOK, Goto
  <2> QED
    BY <1>9, <2>1, SwitchOutStep DEF Finish, Gopark, queue, Holding
<1>10. ASSUME NEW w \in Threads, EnterBlocking(w) PROVE IInv'
  BY <1>10, <1>t, StaysPut, OutsideStays
     DEF EnterBlocking, queue, Shape, RestOK, Goto, PC, Holding
<1>11. ASSUME NEW w \in Threads, SpawnWorker(w) PROVE IInv'
  <2>1. PICK s \in Spares : /\ pc[s] = "none"
                            /\ pc' = [pc EXCEPT ![s] = "start", ![w] = "blocking"]
    BY <1>11 DEF SpawnWorker
  <2>2. /\ pc[w] = "spawning" /\ s \notin Workers
        /\ UNCHANGED <<queue, current_task, state, armed, main, session>>
    BY <1>11, SchedulerAssumption DEF SpawnWorker
  <2>3. /\ pc' \in [Threads -> PC]
        /\ pc'[w] = "blocking" /\ pc'[s] = "start"
        /\ \A v \in Threads \ {w, s} : pc'[v] = pc[v]
    BY <1>t, <2>1, <2>2 DEF Shape, PC, Holding
  <2>4. RestOK' /\ WorkersOutside'
    BY <1>t, <2>2, <2>3, OutsideStays DEF queue, Shape, RestOK
  <2> QED
    BY <1>t, <2>1, <2>2, <2>3, <2>4, StaysPut DEF queue, Holding
<1>12. ASSUME NEW w \in Threads, LeaveBlocking(w) PROVE IInv'
  BY <1>12, <1>t, StaysPut, OutsideStays
     DEF LeaveBlocking, queue, Shape, RestOK, Goto, PC, Holding
<1>13. ASSUME NEW t \in Tasks, state[t] \in {"New", "Waiting"}, t \notin Held,
              Enqueue(t), waiting' = waiting \ {t}, RestOK', UNCHANGED main,
              UNCHANGED current_task, pc' \in WakeIdle(pc)
       PROVE  IInv'
  <2>1. pc' \in [Threads -> PC] /\ \A v \in Threads : Nudged(pc, pc', v)
    BY <1>13, <1>t, WakeIdleNudges DEF Shape
  <2>2. WorkersOutside'
    BY <1>13, <2>1, OutsideStays DEF Nudged
  <2> QED
    BY <1>13, <2>1, <2>2, EnqueueStep
<1>14. ASSUME NEW t \in Tasks, ReadyTask(t, pc), armed' \in SUBSET Tasks,
              UNCHANGED <<idle_workers, all_workers, current_task, main, session>>
       PROVE  IInv'
  <2>0. RestOK'
    BY <1>14, <1>t DEF ReadyTask, Shape, RestOK
  <2>1. CASE t \in waiting
    <3>1. state[t] = "Waiting" /\ t \notin Held
      BY <1>t, <2>1 DEF OnePlace
    <3> QED
      BY <1>13, <1>14, <2>0, <2>1, <3>1 DEF ReadyTask
  <2>2. CASE t \notin waiting
    BY <1>14, <1>t, <2>0, <2>2, StaysPut, OutsideStays
       DEF ReadyTask, Shape
  <2> QED
    BY <2>1, <2>2
<1>15. ASSUME NEW t \in Tasks, CreateTask(t) PROVE IInv'
  <2>1. t \notin Held /\ t \notin waiting
    BY <1>15, <1>t DEF CreateTask, OnePlace
  <2>2. RestOK'
    BY <1>15, <1>t DEF CreateTask, Shape, RestOK
  <2> QED
    BY <1>13, <1>15, <2>1, <2>2 DEF CreateTask
<1>16. CASE StartRuntime
  <2>1. \A v \in Workers : pc[v] \in {"none", "exit"}
    BY <1>16, <1>t DEF StartRuntime, WorkersOutside
  <2>2. WorkersOutside'
    BY <1>16 DEF StartRuntime, WorkersOutside
  <2> QED
    BY <1>16, <1>t, <2>1, <2>2, StaysPut
       DEF StartRuntime, queue, Shape, RestOK, PC, Holding
<1>17. CASE Join
  <2>1. WorkersOutside'
    BY <1>17 DEF Join, WorkersOutside
  <2>2. session' \in DOMAIN Batches
    BY <1>17, <1>t, SchedulerAssumption DEF Join, Shape
  <2> QED
    BY <1>17, <1>t, <2>1, <2>2, StaysPut DEF Join, queue, Shape, RestOK
<1>18. CASE UNCHANGED vars
  BY <1>18, <1>t, StaysPut, OutsideStays DEF vars, queue, Shape, RestOK
<1>19. ASSUME NEW w \in Threads, NEW t \in Tasks, Goready(w, t) PROVE IInv'
  BY <1>14, <1>19, <1>t DEF Goready, Shape
<1>20. CASE Next
  BY <1>1, <1>2, <1>3, <1>4, <1>5, <1>6, <1>7, <1>8, <1>9, <1>10, <1>11, <1>12,
     <1>15, <1>16, <1>17, <1>19, <1>20
     DEF Next, WorkerStep, TaskStep, LeaveStep, MainStep, Go, Submit
<1>21. ASSUME NEW w \in Threads, LookBack(w) PROVE IInv'
  BY <1>21, <1>t, StaysPut, OutsideStays
     DEF LookBack, queue, Shape, RestOK, Goto, PC, Holding
<1>22. CASE Rearm
  BY <1>22, <1>t, StaysPut, OutsideStays DEF Rearm, queue, Shape, RestOK
<1>23. CASE PollerStep
  BY <1>4, <1>5, <1>14, <1>21, <1>22, <1>23 DEF PollerStep, PollerReady
<1> QED
  BY <1>18, <1>20, <1>23 DEF PolledNext

(* Every reachable state satisfies the inductive invariant.                *)
THEOREM Invariant == Spec => []IInv
<1>1. IInv /\ [Next]_vars => IInv'
  BY NextInv DEF PolledNext
<1> QED
  BY <1>1, InitInv, PTL DEF Spec

(* No task is ever in two places: a task is queued once, or waits, or is   *)
(* on one worker (channel.rs:188-230, 275-297, 341-342).                   *)
THEOREM OnePlaceAlways == Spec => []OnePlace
BY Invariant, PTL DEF IInv

-----------------------------------------------------------------------------
(* Scheduler implements ParkContract; with the contract's own theorem this *)
(* gives OneWakeEach.                                                      *)

(* The status of the task that the thread w holds.                         *)
HeldStatus(w) ==
  IF pc[w] = "parking" \/ (pc[w] = "switched" /\ state[current_task[w]] = "Waiting")
  THEN "parking"
  ELSE IF state[current_task[w]] = "Dead" THEN "dead" ELSE "running"

(* Every task is new, queued, dead, waiting or held, and the mapping says  *)
(* so.                                                                     *)
StatusFacts ==
  /\ \A t \in Tasks :
       /\ state[t] = "New"      => ContractStatus(t) = "new"
       /\ state[t] = "Runnable" => ContractStatus(t) = "runnable"
       /\ state[t] = "Dead"     => ContractStatus(t) = "dead"
       /\ t \in waiting         => ContractStatus(t) = "waiting"
       /\ t \notin waiting      => ContractStatus(t) # "waiting"
       /\ \/ state[t] \in {"New", "Runnable", "Dead"} \/ t \in waiting
          \/ \E w \in Threads : current_task[w] = t
  /\ \A w \in Threads :
       current_task[w] \in Tasks => ContractStatus(current_task[w]) = HeldStatus(w)

LEMMA StatusFactsHold == IInv => StatusFacts
<1> SUFFICES ASSUME IInv PROVE StatusFacts
  OBVIOUS
<1>t. Shape /\ OnePlace
  BY DEF IInv
<1>1. ASSUME NEW t \in Tasks
      PROVE  /\ state[t] = "New"      => ContractStatus(t) = "new"
             /\ state[t] = "Runnable" => ContractStatus(t) = "runnable"
             /\ state[t] = "Dead"     => ContractStatus(t) = "dead"
             /\ t \in waiting         => ContractStatus(t) = "waiting"
             /\ t \notin waiting      => ContractStatus(t) # "waiting"
             /\ \/ state[t] \in {"New", "Runnable", "Dead"} \/ t \in waiting
                \/ \E w \in Threads : current_task[w] = t
  <2>1. t \in waiting => state[t] = "Waiting"
    BY <1>t DEF OnePlace
  <2>2. \/ state[t] \in {"New", "Runnable", "Dead"} \/ t \in waiting
        \/ \E w \in Threads : current_task[w] = t
    BY <1>t DEF Shape, OnePlace, Held
  <2>3. OnWayToSleep(t) => state[t] \in {"Running", "Waiting"} /\ t \notin waiting
    <3>1. ASSUME NEW w \in Threads, current_task[w] = t, pc[w] \in {"parking", "switched"}
          PROVE  t \notin waiting /\ (pc[w] = "parking" => state[t] = "Running")
      BY <1>t, <3>1, SchedulerAssumption DEF OnePlace, Shape, Held, Holding
    <3> QED
      BY <3>1 DEF OnWayToSleep
  <2> QED
    BY <2>1, <2>2, <2>3 DEF ContractStatus
<1>2. ASSUME NEW w \in Threads, current_task[w] \in Tasks
      PROVE  ContractStatus(current_task[w]) = HeldStatus(w)
  <2> DEFINE t == current_task[w]
  <2>1. t # NoTask /\ t \in Held /\ t \notin waiting
    BY <1>t, <1>2, SchedulerAssumption DEF OnePlace, Held
  <2>2. \A v \in Threads : current_task[v] = t => v = w
    BY <1>t, <2>1 DEF OnePlace
  <2>3. OnWayToSleep(t) <=> pc[w] = "parking" \/ (pc[w] = "switched" /\ state[t] = "Waiting")
    BY <2>2 DEF OnWayToSleep
  <2>4. state[t] \in {"Running", "Waiting", "Dead"}
    BY <1>t, <1>2, <2>1 DEF OnePlace
  <2>5. pc[w] = "parking" => state[t] = "Running"
    BY <1>t DEF Shape, Holding
  <2> QED
    BY <2>1, <2>3, <2>4, <2>5 DEF ContractStatus, HeldStatus
<1> QED
  BY <1>1, <1>2 DEF StatusFacts

LEMMA StatusFactsNext == IInv' => StatusFacts'
BY StatusFactsHold, PTL

-----------------------------------------------------------------------------
(* Steps, as the contract sees them.                                       *)

(* A task whose state and whose thread stay the same keeps its status.     *)
LEMMA SameStatus ==
  ASSUME StatusFacts, StatusFacts',
         NEW x \in Tasks,
         state'[x] = state[x], x \in waiting' <=> x \in waiting,
         \A v \in Threads : current_task[v] = x => current_task'[v] = x /\ pc'[v] = pc[v]
  PROVE  ContractStatus(x)' = ContractStatus(x)
<1>1. CASE state[x] \in {"New", "Runnable", "Dead"} \/ x \in waiting
  BY <1>1 DEF StatusFacts
<1>2. CASE \E v \in Threads : current_task[v] = x
  <2>1. PICK v \in Threads : current_task[v] = x
    BY <1>2
  <2>2. HeldStatus(v)' = HeldStatus(v)
    BY <2>1 DEF HeldStatus
  <2> QED
    BY <2>1, <2>2 DEF StatusFacts
<1> QED
  BY <1>1, <1>2 DEF StatusFacts

(* The threads that may move are those that hold no task, and w.           *)
Bystanders(w) ==
  \A v \in Threads \ {w} :
    current_task[v] # NoTask => current_task'[v] = current_task[v] /\ pc'[v] = pc[v]

LEMMA NudgedBystanders ==
  ASSUME Shape, NEW w \in Threads, NEW at \in PC,
         \A v \in Threads : Nudged(Goto(w, at), pc', v),
         \A v \in Threads \ {w} : current_task'[v] = current_task[v]
  PROVE  Bystanders(w) /\ pc'[w] \in {at, "woken"} /\ (at # "asleep" => pc'[w] = at)
<1>1. \A v \in Threads \ {w} : pc'[v] = pc[v] \/ pc[v] = "asleep"
  BY DEF Nudged, Goto, Shape
<1>2. Goto(w, at)[w] = at
  BY DEF Goto, Shape
<1> QED
  BY <1>1, <1>2 DEF Bystanders, Shape, Holding, Nudged

(* All tasks but t keep their status.                                      *)
LEMMA OthersKeep ==
  ASSUME IInv, StatusFacts, StatusFacts',
         NEW t, NEW w \in Threads, current_task[w] \in {t, NoTask},
         Bystanders(w),
         \A x \in Tasks \ {t} : state'[x] = state[x] /\ (x \in waiting' <=> x \in waiting)
  PROVE  \A x \in Tasks \ {t} : ContractStatus(x)' = ContractStatus(x)
<1> TAKE x \in Tasks \ {t}
<1>1. x # NoTask
  BY SchedulerAssumption
<1>2. \A v \in Threads : current_task[v] = x => current_task'[v] = x /\ pc'[v] = pc[v]
  BY <1>1 DEF Bystanders
<1> QED
  BY <1>2, SameStatus

(* So a step that changes the status of t alone is a move of t, and one    *)
(* that changes none is a stutter.                                         *)
LEMMA OneMove ==
  ASSUME NEW t \in Tasks, NEW from, NEW to,
         ContractStatus(t) = from, ContractStatus(t)' = to,
         \A x \in Tasks \ {t} : ContractStatus(x)' = ContractStatus(x)
  PROVE  Contract!Move(t, from, to)
BY DEF Contract!Move

LEMMA NoMove ==
  ASSUME \A x \in Tasks : ContractStatus(x)' = ContractStatus(x)
  PROVE  UNCHANGED [t \in Tasks |-> ContractStatus(t)]
OBVIOUS

(* No task changes hands.                                                  *)
LEMMA Stutter ==
  ASSUME IInv, StatusFacts, StatusFacts',
         UNCHANGED <<state, waiting, pending_ready, armed>>,
         \A v \in Threads :
           pc[v] \in Holding => current_task'[v] = current_task[v] /\ pc'[v] = pc[v]
  PROVE  UNCHANGED Contract!vars
<1>1. \A x \in Tasks : ContractStatus(x)' = ContractStatus(x)
  <2> TAKE x \in Tasks
  <2>1. \A v \in Threads : current_task[v] = x => current_task'[v] = x /\ pc'[v] = pc[v]
    BY SchedulerAssumption DEF IInv, Shape
  <2> QED
    BY <2>1, SameStatus
<1> QED
  BY <1>1, NoMove DEF Contract!vars

(* The thread that holds t moves on; nobody else does.                     *)
LEMMA HolderMoves ==
  ASSUME IInv, StatusFacts, StatusFacts',
         NEW w \in Threads, NEW t \in Tasks, t = current_task[w],
         NEW at \in PC, pc' = Goto(w, at),
         UNCHANGED <<current_task, waiting>>,
         \A x \in Tasks \ {t} : state'[x] = state[x]
  PROVE  /\ \A x \in Tasks \ {t} : ContractStatus(x)' = ContractStatus(x)
         /\ ContractStatus(t) = HeldStatus(w)
         /\ ContractStatus(t)' = HeldStatus(w)'
         /\ pc'[w] = at
<1>1. Bystanders(w)
  BY DEF Bystanders, Goto, IInv, Shape
<1>2. \A x \in Tasks \ {t} : ContractStatus(x)' = ContractStatus(x)
  BY <1>1, OthersKeep
<1>3. pc'[w] = at
  BY DEF Goto, IInv, Shape
<1> QED
  BY <1>2, <1>3 DEF StatusFacts

(* A worker takes a task off the queue.                                    *)
LEMMA DequeueRuns ==
  ASSUME IInv, StatusFacts, StatusFacts',
         NEW w \in Threads, pc[w] \notin Holding,
         Dequeue(w), UNCHANGED <<waiting, pending_ready, armed>>
  PROVE  Contract!Next
<1>0. PICK t : t = Head(runnable)
  OBVIOUS
<1>1. t \in Tasks /\ state[t] = "Runnable" /\ current_task[w] = NoTask
  <2>1. runnable # <<>> /\ runnable \in Seq(Tasks)
    BY DEF Dequeue, IInv, Shape
  <2>2. t \in Queued /\ t \in Tasks
    BY <1>0, <2>1 DEF Queued
  <2> QED
    BY <2>2 DEF IInv, OnePlace, Shape
<1>2. /\ state' = [state EXCEPT ![t] = "Running"]
      /\ current_task' = [current_task EXCEPT ![w] = t]
      /\ pc' = Goto(w, "run")
  BY <1>0 DEF Dequeue
<1>3. /\ current_task'[w] = t /\ pc'[w] = "run" /\ state'[t] = "Running"
      /\ \A x \in Tasks \ {t} : state'[x] = state[x]
      /\ Bystanders(w)
  BY <1>1, <1>2 DEF IInv, Shape, Goto, Bystanders
<1>4. \A x \in Tasks \ {t} : ContractStatus(x)' = ContractStatus(x)
  BY <1>1, <1>3, OthersKeep
<1>5. ContractStatus(t) = "runnable"
  BY <1>1 DEF StatusFacts
<1>6. ContractStatus(t)' = "running"
  BY <1>1, <1>3 DEF StatusFacts, HeldStatus
<1>7. Contract!Move(t, "runnable", "running")
  BY <1>1, <1>4, <1>5, <1>6, OneMove
<1> QED
  BY <1>1, <1>7 DEF Contract!Next, Contract!Run

(* go: a new task is queued.                                               *)
LEMMA CreateSpawns ==
  ASSUME IInv, StatusFacts, StatusFacts', NEW t \in Tasks, CreateTask(t)
  PROVE  Contract!Next
<1>1. /\ state[t] = "New" /\ state'[t] = "Runnable"
      /\ \A x \in Tasks \ {t} : state'[x] = state[x]
      /\ UNCHANGED <<waiting, pending_ready, current_task, armed>>
  BY DEF CreateTask, Enqueue, IInv, Shape
<1>2. \A v \in Threads : Nudged(pc, pc', v)
  BY WakeIdleNudges DEF CreateTask, IInv, Shape
<1>3. \A x \in Tasks \ {t} : ContractStatus(x)' = ContractStatus(x)
  <2> TAKE x \in Tasks \ {t}
  <2>1. \A v \in Threads : current_task[v] = x => current_task'[v] = x /\ pc'[v] = pc[v]
    BY <1>1, <1>2, SchedulerAssumption DEF Nudged, IInv, Shape, Holding
  <2> QED
    BY <1>1, <2>1, SameStatus
<1>4. ContractStatus(t) = "new" /\ ContractStatus(t)' = "runnable"
  BY <1>1 DEF StatusFacts
<1>5. Contract!Move(t, "new", "runnable")
  BY <1>3, <1>4, OneMove
<1> QED
  BY <1>1, <1>5 DEF Contract!Next, Contract!Spawn

(* goready: a waiting task is queued, another one gets a token.            *)
LEMMA ReadyWakes ==
  ASSUME IInv, StatusFacts, StatusFacts',
         NEW t \in Tasks, ReadyTask(t, pc), UNCHANGED current_task
  PROVE  Contract!Wake(t)
<1>2. \A v \in Threads : Nudged(pc, pc', v)
  BY WakeIdleNudges DEF ReadyTask, IInv, Shape, Nudged
<1>3. ASSUME NEW x \in Tasks, state'[x] = state[x], x \in waiting' <=> x \in waiting
      PROVE  ContractStatus(x)' = ContractStatus(x)
  <2>1. \A v \in Threads : current_task[v] = x => current_task'[v] = x /\ pc'[v] = pc[v]
    BY <1>2, SchedulerAssumption DEF Nudged, IInv, Shape, Holding
  <2> QED
    BY <1>3, <2>1, SameStatus
<1>4. CASE t \in waiting
  <2>1. /\ state'[t] = "Runnable" /\ waiting' = waiting \ {t}
        /\ \A x \in Tasks \ {t} : state'[x] = state[x]
        /\ UNCHANGED pending_ready
    BY <1>4 DEF ReadyTask, Enqueue, IInv, Shape
  <2>2. \A x \in Tasks \ {t} : ContractStatus(x)' = ContractStatus(x)
    BY <1>3, <2>1
  <2>3. ContractStatus(t) = "waiting" /\ ContractStatus(t)' = "runnable"
    BY <1>4, <2>1 DEF StatusFacts
  <2>4. Contract!Move(t, "waiting", "runnable")
    BY <2>2, <2>3, OneMove
  <2> QED
    BY <2>1, <2>4 DEF Contract!Wake
<1>5. CASE t \notin waiting
  <2>1. UNCHANGED <<state, waiting>> /\ pending_ready' = pending_ready \cup {t}
    BY <1>5 DEF ReadyTask
  <2>2. UNCHANGED [x \in Tasks |-> ContractStatus(x)]
    BY <1>3, <2>1, NoMove
  <2>3. [x \in Tasks |-> ContractStatus(x)][t] # "waiting"
    BY <1>5 DEF StatusFacts
  <2> QED
    BY <2>1, <2>2, <2>3 DEF Contract!Wake
<1> QED
  BY <1>4, <1>5

LEMMA GoreadyWakes ==
  ASSUME IInv, StatusFacts, StatusFacts',
         NEW w \in Threads, NEW t \in Tasks, Goready(w, t)
  PROVE  Contract!Next
BY ReadyWakes DEF Goready, Contract!Next, Contract!Ready

(* The worker loop takes a task back.                                      *)
LEMMA SettleSettles ==
  ASSUME IInv, StatusFacts, StatusFacts', NEW w \in Threads, Settle(w)
  PROVE  Contract!Next \/ UNCHANGED Contract!vars
<1>0. PICK t : t = current_task[w]
  OBVIOUS
<1>1. /\ t \in Tasks /\ pc[w] = "switched" /\ t \notin waiting
      /\ ContractStatus(t) = HeldStatus(w)
  BY <1>0, SchedulerAssumption
     DEF Settle, IInv, Shape, OnePlace, Held, Holding, StatusFacts
<1>2. /\ \A v \in Threads \ {w} : current_task'[v] = current_task[v]
      /\ UNCHANGED armed
  BY DEF Settle, IInv, Shape
<1>3. Bystanders(w)
  <2>1. Goto(w, "pop") \in [Threads -> PC] /\ "pop" \in PC
    BY DEF Goto, PC, IInv, Shape
  <2>2. pc' = Goto(w, "pop") \/ pc' \in WakeIdle(Goto(w, "pop"))
    BY DEF Settle, SettleDead, SettleParked, SettleYielded
  <2>3. \A v \in Threads : Nudged(Goto(w, "pop"), pc', v)
    BY <2>1, <2>2, WakeIdleNudges DEF Nudged
  <2> QED
    BY <1>2, <2>1, <2>3, NudgedBystanders DEF IInv
<1>4. ASSUME \A x \in Tasks \ {t} : state'[x] = state[x] /\ (x \in waiting' <=> x \in waiting)
      PROVE  \A x \in Tasks \ {t} : ContractStatus(x)' = ContractStatus(x)
  BY <1>0, <1>3, <1>4, OthersKeep
<1>5. CASE SettleDead(w)
  <2>1. state[t] = "Dead" /\ UNCHANGED <<waiting, pending_ready, state>>
    BY <1>0, <1>5 DEF SettleDead
  <2>2. ContractStatus(t) = "dead" /\ ContractStatus(t)' = "dead"
    BY <1>1, <2>1 DEF StatusFacts
  <2> QED
    BY <1>2, <1>4, <2>1, <2>2, NoMove DEF Contract!vars
<1>6. CASE SettleParked(w)
  <2>1. state[t] = "Waiting" /\ ContractStatus(t) = "parking"
    BY <1>0, <1>1, <1>6 DEF SettleParked, HeldStatus
  <2>2. CASE t \in pending_ready
    <3>1. /\ state'[t] = "Runnable" /\ UNCHANGED waiting
          /\ pending_ready' = pending_ready \ {t}
          /\ \A x \in Tasks \ {t} : state'[x] = state[x]
      BY <1>0, <1>1, <1>6, <2>2 DEF SettleParked, Enqueue, IInv, Shape
    <3>2. ContractStatus(t)' = "runnable"
      BY <1>1, <3>1 DEF StatusFacts
    <3>3. Contract!Move(t, "parking", "runnable")
      BY <1>1, <1>4, <2>1, <3>1, <3>2, OneMove
    <3> QED
      BY <1>1, <1>2, <2>2, <3>1, <3>3 DEF Contract!Next, Contract!Settle
  <2>3. CASE t \notin pending_ready
    <3>1. waiting' = waiting \cup {t} /\ UNCHANGED <<pending_ready, state>>
      BY <1>0, <1>6, <2>3 DEF SettleParked
    <3>2. ContractStatus(t)' = "waiting"
      BY <1>1, <3>1 DEF StatusFacts
    <3>3. Contract!Move(t, "parking", "waiting")
      BY <1>1, <1>4, <2>1, <3>1, <3>2, OneMove
    <3> QED
      BY <1>1, <1>2, <2>3, <3>1, <3>3 DEF Contract!Next, Contract!Settle
  <2> QED
    BY <2>2, <2>3
<1>7. CASE SettleYielded(w)
  <2>1. /\ state[t] = "Running" /\ state'[t] = "Runnable"
        /\ UNCHANGED <<waiting, pending_ready>>
        /\ \A x \in Tasks \ {t} : state'[x] = state[x]
    BY <1>0, <1>1, <1>7 DEF SettleYielded, Enqueue, IInv, Shape
  <2>2. ContractStatus(t) = "running" /\ ContractStatus(t)' = "runnable"
    BY <1>0, <1>1, <2>1 DEF StatusFacts, HeldStatus
  <2>3. Contract!Move(t, "running", "runnable")
    BY <1>1, <1>4, <2>1, <2>2, OneMove
  <2> QED
    BY <1>1, <1>2, <2>1, <2>3 DEF Contract!Next, Contract!Yield
<1> QED
  BY <1>5, <1>6, <1>7 DEF Settle

(* A running task goes on, leaves its worker or parks.                     *)
LEMMA HolderSteps ==
  ASSUME IInv, StatusFacts, StatusFacts', NEW w \in Threads,
         LeaveStep(w) \/ Gopark(w) \/ EnterBlocking(w) \/ LeaveBlocking(w)
  PROVE  Contract!Next \/ UNCHANGED Contract!vars
<1>0. PICK t : t = current_task[w]
  OBVIOUS
<1>1. /\ pc[w] \in Holding \ {"switched"} /\ t \in Tasks /\ state[t] = "Running"
      /\ UNCHANGED <<current_task, waiting, pending_ready>>
      /\ \A x \in Tasks \ {t} : state'[x] = state[x]
      /\ \E at \in PC : pc' = Goto(w, at)
  BY <1>0 DEF LeaveStep, Gosched, Finish, Publish, Gopark, EnterBlocking, LeaveBlocking,
         queue, IInv, Shape, Holding, PC
<1>2. PICK at \in PC : pc' = Goto(w, at)
  BY <1>1
<1>3. /\ \A x \in Tasks \ {t} : ContractStatus(x)' = ContractStatus(x)
      /\ ContractStatus(t) = HeldStatus(w)
      /\ ContractStatus(t)' = HeldStatus(w)'
      /\ pc'[w] = at
  BY <1>0, <1>1, <1>2, HolderMoves
<1>4. ContractStatus(t) = IF pc[w] = "parking" THEN "parking" ELSE "running"
  BY <1>0, <1>1, <1>3 DEF HeldStatus
<1>5. ASSUME ContractStatus(t)' = ContractStatus(t), UNCHANGED armed
      PROVE  UNCHANGED Contract!vars
  BY <1>1, <1>3, <1>5, NoMove DEF Contract!vars
<1>6. CASE Gosched(w) \/ EnterBlocking(w) \/ LeaveBlocking(w)
  <2>1. /\ UNCHANGED <<state, armed>> /\ pc[w] \in {"run", "blocking"}
        /\ pc'[w] \in {"switched", "spawning", "blocking", "run"}
    BY <1>6, <1>3 DEF Gosched, EnterBlocking, LeaveBlocking, IInv, Shape, Goto
  <2>2. ContractStatus(t)' = "running"
    BY <1>0, <1>1, <1>3, <2>1 DEF HeldStatus
  <2> QED
    BY <1>4, <1>5, <2>1, <2>2
<1>7. CASE Gopark(w)
  <2>1. /\ pc[w] = "parking" /\ pc'[w] = "switched" /\ UNCHANGED armed
        /\ state'[t] = "Waiting"
    BY <1>0, <1>1, <1>7 DEF Gopark, Goto, IInv, Shape
  <2>2. ContractStatus(t)' = "parking"
    BY <1>0, <1>1, <1>3, <2>1 DEF HeldStatus
  <2> QED
    BY <1>4, <1>5, <2>1, <2>2
<1>8. CASE Finish(w)
  <2>1. pc[w] = "run" /\ UNCHANGED armed /\ state'[t] = "Dead"
    BY <1>0, <1>1, <1>8 DEF Finish, IInv, Shape
  <2>2. ContractStatus(t)' = "dead"
    BY <1>1, <2>1 DEF StatusFacts
  <2>3. Contract!Move(t, "running", "dead")
    BY <1>1, <1>3, <1>4, <2>1, <2>2, OneMove
  <2> QED
    BY <1>1, <2>1, <2>3 DEF Contract!Next, Contract!Finish
<1>9. CASE Publish(w)
  <2>1. pc[w] = "run" /\ pc'[w] = "parking" /\ armed' = armed \cup {t}
    BY <1>0, <1>9 DEF Publish, Goto, IInv, Shape
  <2>2. ContractStatus(t)' = "parking"
    BY <1>3, <2>1 DEF HeldStatus
  <2>3. Contract!Move(t, "running", "parking")
    BY <1>1, <1>3, <1>4, <2>1, <2>2, OneMove
  <2> QED
    BY <1>1, <2>1, <2>3 DEF Contract!Next, Contract!Publish, Contract!Suspend
<1> QED
  BY <1>6, <1>7, <1>8, <1>9 DEF LeaveStep

-----------------------------------------------------------------------------

LEMMA StepImplements ==
  ASSUME IInv, IInv', [LoopStep]_vars
  PROVE  [Contract!Next]_(Contract!vars)
<1>t. Shape /\ StatusFacts /\ StatusFacts'
  BY StatusFactsHold, StatusFactsNext DEF IInv
<1>1. ASSUME NEW w \in Threads, NEW outside \in BOOLEAN,
             \/ Register(w) \/ PopNothing(w) \/ LookBack(w) \/ SpuriousWakeup(w)
             \/ GoIdle(w, outside)
      PROVE  UNCHANGED Contract!vars
  <2>1. /\ UNCHANGED <<state, waiting, pending_ready, armed, current_task>>
        /\ pc[w] \notin Holding
        /\ \A v \in Threads \ {w} : pc'[v] = pc[v] \/ pc[v] = "asleep"
    BY <1>1, <1>t DEF Register, PopNothing, LookBack, GoIdle, Shutdown, SpuriousWakeup,
                      NotifyAll, Goto, queue, Shape, Holding
  <2>2. \A v \in Threads : pc[v] \in Holding => pc'[v] = pc[v]
    BY <2>1 DEF Holding
  <2> QED
    BY <1>t, <2>1, <2>2, Stutter
<1>2. ASSUME NEW w \in Threads, NEW outside \in BOOLEAN, WakeUp(w, outside)
      PROVE  Contract!Next \/ UNCHANGED Contract!vars
  <2>1. pc[w] = "woken" /\ UNCHANGED <<armed, waiting, pending_ready>>
    BY <1>2 DEF WakeUp, Shutdown
  <2>2. CASE Dequeue(w)
    BY <1>t, <2>1, <2>2, DequeueRuns DEF Holding
  <2>3. CASE Shutdown(w) \/ (pc' = Goto(w, "pop") /\ UNCHANGED <<current_task, state>>)
    <3>1. /\ UNCHANGED <<state, current_task>>
          /\ \A v \in Threads \ {w} : pc'[v] = pc[v] \/ pc[v] = "asleep"
      BY <1>t, <2>3 DEF Shutdown, NotifyAll, Goto, Shape
    <3>2. \A v \in Threads : pc[v] \in Holding => pc'[v] = pc[v]
      BY <2>1, <3>1 DEF Holding
    <3> QED
      BY <1>t, <2>1, <3>1, <3>2, Stutter
  <2> QED
    BY <1>2, <2>2, <2>3 DEF WakeUp
<1>3. ASSUME NEW w \in Threads, Pop(w) PROVE Contract!Next
  BY <1>3, <1>t, DequeueRuns DEF Pop, Holding
<1>4. ASSUME NEW w \in Threads, SpawnWorker(w) PROVE UNCHANGED Contract!vars
  <2>1. PICK s \in Spares : /\ pc[s] = "none" /\ pc[w] = "spawning"
                            /\ pc' = [pc EXCEPT ![s] = "start", ![w] = "blocking"]
    BY <1>4 DEF SpawnWorker
  <2>2. /\ UNCHANGED <<state, waiting, pending_ready, armed, current_task>>
        /\ pc'[w] = "blocking" /\ pc'[s] = "start"
        /\ \A v \in Threads \ {s, w} : pc'[v] = pc[v]
    BY <1>4, <1>t, <2>1 DEF SpawnWorker, queue, Shape, Threads
  <2>3. ASSUME NEW x \in Tasks PROVE ContractStatus(x)' = ContractStatus(x)
    <3>1. CASE current_task[w] = x
      BY <1>t, <2>1, <2>2, <3>1 DEF StatusFacts, HeldStatus
    <3>2. CASE current_task[w] # x
      <4>1. \A v \in Threads : current_task[v] = x => pc'[v] = pc[v]
        BY <1>t, <2>1, <2>2, <3>2, SchedulerAssumption DEF Shape, Holding
      <4> QED
        BY <1>t, <2>2, <4>1, SameStatus
    <3> QED
      BY <3>1, <3>2
  <2> QED
    BY <2>2, <2>3, NoMove DEF Contract!vars
<1>5. CASE StartRuntime
  <2>1. /\ UNCHANGED <<state, waiting, pending_ready, armed, current_task>>
        /\ \A v \in Threads : pc[v] \in Holding => pc'[v] = pc[v]
    BY <1>5 DEF StartRuntime, queue, IInv, WorkersOutside, Holding
  <2> QED
    BY <1>t, <2>1, Stutter
<1>6. CASE Join \/ UNCHANGED vars
  BY <1>6, <1>t, Stutter DEF Join, vars, queue
<1> QED
  BY <1>1, <1>2, <1>3, <1>4, <1>5, <1>6, <1>t, SettleSettles, HolderSteps, CreateSpawns,
     GoreadyWakes
     DEF LoopStep, Next, WorkerStep, TaskStep, MainStep, Go, Submit

LEMMA InitImplements == Init => Contract!Init
<1> SUFFICES ASSUME Init PROVE Contract!Init
  OBVIOUS
<1>1. \A t \in Tasks : ContractStatus(t) = "new"
  BY SchedulerAssumption DEF Init, ContractStatus, OnWayToSleep
<1> QED
  BY <1>1 DEF Init, Contract!Init

(* The scheduler implements the contract of gopark and goready, for any    *)
(* number of tasks and workers and through any number of start_runtime     *)
(* calls: a wake that overtakes the parking task is kept for it, and no    *)
(* wake is lost or counted twice (channel.rs:188-230, 272-296).            *)
THEOREM SchedulerImplementsContract == Spec => ImplementsContract
<1>1. IInv /\ IInv' /\ [Next]_vars => [Contract!Next]_(Contract!vars)
  BY StepImplements DEF LoopStep
<1> QED
  BY <1>1, InitImplements, Invariant, PTL DEF Spec, ImplementsContract, Contract!Spec

(* Therefore exactly one wake is outstanding for a task that waits or is   *)
(* about to, and none for any other (channel.rs:82-86).                    *)
THEOREM NoWakeLost == Spec => []OneWakeEach
<1>1. Contract!Spec => []Contract!OneWakeEach
  BY Contract!ContractKeepsWakes
<1>2. IInv /\ Contract!OneWakeEach => OneWakeEach
  <2> SUFFICES ASSUME IInv, Contract!OneWakeEach PROVE OneWakeEach
    OBVIOUS
  <2>1. StatusFacts
    BY StatusFactsHold
  <2>2. ASSUME NEW t \in Tasks
        PROVE  /\ ContractStatus(t) = "waiting" <=> t \in waiting
               /\ ContractStatus(t) = "parking" <=> OnWayToSleep(t)
    <3>1. ASSUME OnWayToSleep(t) PROVE ContractStatus(t) = "parking"
      BY <2>1, <3>1 DEF OnWayToSleep, StatusFacts, HeldStatus
    <3>2. ASSUME ContractStatus(t) = "parking" PROVE OnWayToSleep(t)
      BY <2>1, <3>2 DEF OnWayToSleep, StatusFacts, HeldStatus
    <3> QED
      BY <2>1, <3>1, <3>2 DEF StatusFacts
  <2> QED
    BY <2>2 DEF Contract!OneWakeEach, OneWakeEach, IInv, Shape
<1> QED
  BY <1>1, <1>2, Invariant, SchedulerImplementsContract, PTL DEF ImplementsContract
-----------------------------------------------------------------------------
(* The counters.  Until a worker has left they are what their comments say *)
(* (channel.rs:87-90); the worker that finds them equal therefore knows    *)
(* that no other thread holds a task.  From then on nothing happens any    *)
(* more in that session.  In every session all_workers still counts the    *)
(* registered workers, and idle_workers can only be too high: a worker     *)
(* that leaves gives up its place in all_workers but not in idle_workers.  *)

Out    == {"none", "start", "exit"}
Dozers == In(Dozing)
Busy   == In(Holding)
Left   == In({"exit"})

(* The counters count, until the first worker leaves.                      *)
Counted ==
  session = 1 /\ Left = {} =>
    /\ idle_workers = Cardinality(Dozers)
    /\ all_workers = Cardinality(Registered)

(* Once a worker has left no thread has a task and no task is alive.       *)
Quiet ==
  session = 1 /\ Left # {} =>
    /\ Busy = {}
    /\ main # "submit"
    /\ \A t \in Tasks : state[t] \in {"New", "Dead"}

NotStarted == session = 1 /\ main = "submit" => \A w \in Threads : pc[w] = "none"

QInv == Counted /\ Quiet /\ NotStarted

-----------------------------------------------------------------------------

LEMMA ThreadsFinite ==
  /\ IsFiniteSet(Dozers) /\ Cardinality(Dozers) \in Nat
  /\ IsFiniteSet(Registered) /\ Cardinality(Registered) \in Nat
<1>1. Dozers \in SUBSET Threads /\ Registered \in SUBSET Threads
  BY DEF Dozers, Registered, In
<1> QED
  BY <1>1, SchedulerAssumption, FS_Subset, FS_CardinalityType

LEMMA DozersRegistered == Dozers \subseteq Registered
BY DEF Dozers, Registered, In, Dozing

(* Without a busy thread and with empty collections, every task is new or  *)
(* dead.                                                                   *)
LEMMA NothingAlive ==
  ASSUME IInv, Busy = {}, runnable = <<>>, waiting = {}
  PROVE  \A t \in Tasks : state[t] \in {"New", "Dead"}
<1>1. Held = {}
  BY DEF IInv, Shape, Busy, In, Held
<1>2. Queued = {}
  BY DEF Queued
<1> QED
  BY <1>1, <1>2 DEF IInv, Shape, OnePlace

(* A step after which as many threads are registered, and as many doze.    *)
LEMMA SameCounts ==
  ASSUME QInv, session = 1, Left = {},
         UNCHANGED <<session, idle_workers, all_workers>>,
         \A v \in Threads : pc'[v] \in Dozing <=> pc[v] \in Dozing,
         \A v \in Threads : pc'[v] \in Out <=> pc[v] \in Out,
         \A v \in Threads : pc'[v] # "exit",
         NotStarted'
  PROVE  QInv'
<1>1. Dozers' = Dozers /\ Registered' = Registered /\ Left' = {}
  BY DEF Dozers, Registered, Left, In, Out
<1> QED
  BY <1>1 DEF QInv, Counted, Quiet

(* One thread moves, among the registered ones that do not doze.           *)
LEMMA Moves ==
  ASSUME QInv, session = 1, Left = {}, pc \in [Threads -> PC],
         UNCHANGED <<session, main, idle_workers, all_workers>>,
         NEW w \in Threads, NEW at \in PC \ (Out \cup Dozing),
         pc[w] \notin Out \cup Dozing,
         \A v \in Threads : Nudged(Goto(w, at), pc', v)
  PROVE  QInv'
<1>1. /\ pc'[w] = at
      /\ \A v \in Threads \ {w} : pc'[v] = pc[v] \/ {pc[v], pc'[v]} \subseteq Dozing
  BY DEF Nudged, Goto, Dozing, Out
<1>2. \A v \in Threads : pc[v] # "exit"
  BY DEF Left, In
<1>3. \A v \in Threads :
        /\ pc'[v] \in Dozing <=> pc[v] \in Dozing
        /\ pc'[v] \in Out <=> pc[v] \in Out
        /\ pc'[v] # "exit"
  BY <1>1, <1>2 DEF Dozing, Out
<1>4. NotStarted'
  BY DEF QInv, NotStarted, Out
<1> QED
  BY <1>3, <1>4, SameCounts

-----------------------------------------------------------------------------

LEMMA SessionOne == Shape /\ [PolledNext]_vars /\ session' = 1 => session = 1
<1> SUFFICES ASSUME Shape, [PolledNext]_vars, session' = 1 PROVE session = 1
  OBVIOUS
<1>1. session \in Nat \ {0}
  BY SchedulerAssumption DEF Shape
<1>2. session' = session \/ session' = session + 1
  BY DEF PolledNext, PollerStep, LookBack, PollerReady, Rearm, Next, vars, WorkerStep,
     TaskStep, LeaveStep, MainStep, Register, Pop, PopNothing, GoIdle, WakeUp, Settle,
     Gopark, SpawnWorker, LeaveBlocking, Gosched, Publish, Finish, EnterBlocking, Go,
     Goready, CreateTask, Submit, StartRuntime, Join, SpuriousWakeup
<1> QED
  BY <1>1, <1>2

(* After a worker has left, the others only find out that nothing is left. *)
LEMMA QuietStays ==
  ASSUME IInv, QInv, session = 1, session' = 1, Left # {}, [PolledNext]_vars
  PROVE  QInv'
<1>t. Shape /\ pc \in [Threads -> PC]
  BY DEF IInv, Shape
<1>1. /\ \A v \in Threads : pc[v] \notin Holding
      /\ main # "submit"
      /\ \A t \in Tasks : state[t] \in {"New", "Dead"}
  BY DEF QInv, Quiet, Busy, In
<1>2. runnable = <<>>
  <2>1. SUFFICES ASSUME runnable # <<>> PROVE FALSE
    OBVIOUS
  <2>2. 1 \in DOMAIN runnable /\ runnable[1] \in Tasks
    BY <1>t, <2>1 DEF Shape
  <2>3. state[runnable[1]] = "Runnable"
    BY <2>2 DEF IInv, OnePlace, Queued
  <2> QED
    BY <1>1, <2>2, <2>3
<1> DEFINE Still ==
      /\ UNCHANGED state
      /\ main' # "submit"
      /\ \A v \in Threads :
           /\ pc'[v] \notin Holding
           /\ pc[v] = "exit" => pc'[v] = "exit"
<1>3. Still
  <2>1. ASSUME NEW w \in Threads, UNCHANGED <<state, main>>, pc[w] # "exit",
               NEW at \in PC \ Holding,
               pc' = Goto(w, at) \/ pc' = NotifyAll(Goto(w, at))
        PROVE  Still
    BY <1>t, <1>1, <2>1 DEF Goto, NotifyAll, Holding
  <2>2. ASSUME NEW w \in Threads,
               Register(w) \/ PopNothing(w) \/ LookBack(w) \/ SpuriousWakeup(w)
        PROVE  Still
    BY <2>1, <2>2 DEF Register, PopNothing, LookBack, SpuriousWakeup, PC, Dozing, Holding
  <2>3. ASSUME NEW w \in Threads, NEW outside, GoIdle(w, outside) PROVE Still
    BY <2>1, <2>3 DEF GoIdle, Shutdown, PC, Dozing, Holding
  <2>4. ASSUME NEW w \in Threads, NEW outside, WakeUp(w, outside) PROVE Still
    BY <1>2, <2>1, <2>4 DEF WakeUp, Shutdown, Dequeue, PC, Dozing, Holding
  <2>5. ASSUME NEW w \in Threads,
               Pop(w) \/ Settle(w) \/ Gopark(w) \/ SpawnWorker(w) \/ LeaveBlocking(w)
                 \/ TaskStep(w)
        PROVE  FALSE
    BY <1>1, <1>2, <2>5
       DEF Pop, Dequeue, Settle, Gopark, SpawnWorker, LeaveBlocking, TaskStep, LeaveStep,
           Gosched, Publish, Finish, EnterBlocking, Go, Goready, Holding
  <2>6. CASE MainStep
    <3>1. ~StartRuntime /\ \A t \in Tasks : ~Submit(t)
      BY <1>1 DEF StartRuntime, Submit
    <3>2. Join
      BY <2>6, <3>1 DEF MainStep
    <3>3. main' # "submit"
      BY <1>t, <3>2, SchedulerAssumption DEF Join, Shape
    <3> QED
      BY <1>1, <3>2, <3>3 DEF Join
  <2>7. CASE Rearm \/ UNCHANGED vars
    BY <1>1, <2>7 DEF Rearm, vars
  <2>8. ASSUME NEW w \in Threads, NEW t \in Tasks, PollerReady(w, t) PROVE Still
    <3>1. t \notin waiting
      BY <1>1 DEF IInv, OnePlace
    <3> QED
      BY <1>1, <2>8, <3>1 DEF PollerReady, ReadyTask
  <2> QED
    BY <2>2, <2>3, <2>4, <2>5, <2>6, <2>7, <2>8
       DEF PolledNext, PollerStep, Next, WorkerStep
<1>4. Left' # {} /\ Busy' = {}
  BY <1>3 DEF Left, Busy, In
<1> QED
  BY <1>1, <1>3, <1>4 DEF QInv, Counted, Quiet, NotStarted

(* Until then every step keeps the counters right, and the first worker to *)
(* leave has seen that nothing is alive.                                   *)
LEMMA CountsStay ==
  ASSUME IInv, QInv, session = 1, session' = 1, Left = {}, [PolledNext]_vars
  PROVE  QInv'
<1>t. /\ Shape /\ pc \in [Threads -> PC]
      /\ idle_workers = Cardinality(Dozers)
      /\ all_workers = Cardinality(Registered)
      /\ \A v \in Threads : pc[v] # "exit"
  BY DEF IInv, Shape, QInv, Counted, Left, In
<1>1. ASSUME NEW w \in Threads, Register(w) PROVE QInv'
  <2>1. /\ pc'[w] = "pop" /\ pc[w] = "start"
        /\ \A v \in Threads \ {w} : pc'[v] = pc[v]
    BY <1>1, <1>t DEF Register, Goto
  <2>2. Registered' = Registered \cup {w} /\ w \notin Registered
    BY <2>1 DEF Registered, In
  <2>3. Dozers' = Dozers /\ Left' = {}
    BY <1>t, <2>1 DEF Dozers, Dozing, Left, In
  <2>4. Cardinality(Registered') = all_workers + 1
    BY <1>t, <2>2, ThreadsFinite, FS_AddElement
  <2>5. NotStarted'
    BY <1>1, <2>1 DEF Register, QInv, NotStarted
  <2> QED
    BY <1>1, <1>t, <2>3, <2>4, <2>5 DEF Register, QInv, Counted, Quiet
<1>2. ASSUME NEW w \in Threads, NEW outside, GoIdle(w, outside) PROVE QInv'
  <2>1. pc[w] = "idling" /\ idle_workers' = idle_workers + 1 /\ UNCHANGED <<main, session>>
    BY <1>2 DEF GoIdle
  <2>2. NotStarted'
    BY <2>1 DEF QInv, NotStarted
  <2>3. w \notin Dozers /\ w \in Registered
    BY <2>1 DEF Dozers, Dozing, Registered, In
  <2>4. Cardinality(Dozers \cup {w}) = idle_workers + 1
    BY <1>t, <2>3, ThreadsFinite, FS_AddElement
  <2>5. CASE Shutdown(w) /\ ShouldTerminate(idle_workers + 1)
    <3>1. Registered = Dozers \cup {w}
      <4>1. Dozers \cup {w} \in SUBSET Registered
        BY <2>3, DozersRegistered
      <4>2. Cardinality(Registered) = Cardinality(Dozers \cup {w})
        BY <1>t, <2>4, <2>5 DEF ShouldTerminate
      <4> QED
        BY <4>1, <4>2, ThreadsFinite, FS_Subset
    <3>2. \A v \in Threads : pc[v] \notin Holding
      BY <2>1, <3>1 DEF Registered, Dozers, Dozing, In, Holding
    <3>3. \A t \in Tasks : state[t] \in {"New", "Dead"}
      BY <2>5, <3>2, NothingAlive DEF ShouldTerminate, Busy, In
    <3>4. \A v \in Threads : pc'[v] \notin Holding
      BY <1>t, <2>5, <3>2 DEF Shutdown, NotifyAll, Goto, Holding
    <3>5. pc'[w] = "exit"
      BY <1>t, <2>5 DEF Shutdown, NotifyAll, Goto
    <3>6. main # "submit"
      BY <2>1 DEF QInv, NotStarted
    <3>7. Busy' = {} /\ Left' # {}
      BY <3>4, <3>5 DEF Busy, Left, In
    <3> QED
      BY <2>1, <2>2, <2>5, <3>3, <3>6, <3>7 DEF Shutdown, QInv, Counted, Quiet
  <2>6. CASE pc' = Goto(w, "asleep") /\ UNCHANGED all_workers
    <3>1. pc'[w] = "asleep" /\ \A v \in Threads \ {w} : pc'[v] = pc[v]
      BY <1>t, <2>6 DEF Goto
    <3>2. Dozers' = Dozers \cup {w} /\ Registered' = Registered /\ Left' = {}
      BY <1>t, <2>1, <3>1 DEF Dozers, Dozing, Registered, Left, In
    <3> QED
      BY <1>t, <2>1, <2>2, <2>4, <2>6, <3>2 DEF QInv, Counted, Quiet
  <2> QED
    BY <1>2, <2>5, <2>6 DEF GoIdle
<1>3. ASSUME NEW w \in Threads, NEW outside, WakeUp(w, outside) PROVE QInv'
  <2>1. pc[w] = "woken" /\ idle_workers' = idle_workers - 1 /\ UNCHANGED <<main, session>>
    BY <1>3 DEF WakeUp
  <2>2. NotStarted'
    BY <2>1 DEF QInv, NotStarted
  <2>3. w \in Dozers
    BY <2>1 DEF Dozers, Dozing, In
  <2>4. Cardinality(Dozers \ {w}) = idle_workers - 1
    BY <1>t, <2>3, ThreadsFinite, FS_RemoveElement
  <2>5. ~ShouldTerminate(idle_workers - 1)
    <3>1. Cardinality(Dozers) <= Cardinality(Registered)
      BY ThreadsFinite, DozersRegistered, FS_Subset
    <3> QED
      BY <1>t, <3>1, ThreadsFinite DEF ShouldTerminate
  <2>6. UNCHANGED all_workers /\ \E at \in {"run", "pop"} : pc' = Goto(w, at)
    BY <1>3, <2>5 DEF WakeUp, Dequeue
  <2>7. pc'[w] \in {"run", "pop"} /\ \A v \in Threads \ {w} : pc'[v] = pc[v]
    BY <1>t, <2>6 DEF Goto
  <2>8. Dozers' = Dozers \ {w} /\ Registered' = Registered /\ Left' = {}
    BY <1>t, <2>1, <2>7 DEF Dozers, Dozing, Registered, Left, In
  <2> QED
    BY <1>t, <2>1, <2>2, <2>4, <2>6, <2>8 DEF QInv, Counted, Quiet
<1>4. ASSUME NEW w \in Threads,
             \/ Pop(w) \/ PopNothing(w) \/ LookBack(w) \/ LeaveStep(w) \/ Gopark(w)
             \/ EnterBlocking(w) \/ LeaveBlocking(w)
      PROVE  QInv'
  <2>1. /\ \E at \in PC \ (Out \cup Dozing) : pc' = Goto(w, at)
        /\ pc[w] \notin Out \cup Dozing
        /\ UNCHANGED <<session, main, idle_workers, all_workers>>
    BY <1>4 DEF Pop, Dequeue, PopNothing, LookBack, LeaveStep, Gosched, Publish, Finish, Gopark,
               EnterBlocking, LeaveBlocking, queue, PC, Out, Holding, Dozing
  <2>2. \A v \in Threads : Nudged(pc', pc', v)
    BY DEF Nudged
  <2> QED
    BY <1>t, <2>1, <2>2, Moves
<1>5. ASSUME NEW w \in Threads, Settle(w) PROVE QInv'
  <2>1. Goto(w, "pop") \in [Threads -> PC]
    BY <1>t DEF Goto, PC
  <2>2. pc' = Goto(w, "pop") \/ pc' \in WakeIdle(Goto(w, "pop"))
    BY <1>5 DEF Settle, SettleDead, SettleParked, SettleYielded
  <2>3. \A v \in Threads : Nudged(Goto(w, "pop"), pc', v)
    BY <2>1, <2>2, WakeIdleNudges DEF Nudged
  <2>4. /\ pc[w] \notin Out \cup Dozing
        /\ "pop" \in PC \ (Out \cup Dozing)
        /\ UNCHANGED <<session, main, idle_workers, all_workers>>
    BY <1>5 DEF Settle, PC, Out, Dozing
  <2> QED
    BY <1>t, <2>3, <2>4, Moves
<1>6. ASSUME UNCHANGED <<session, idle_workers, all_workers>>, NotStarted',
             pc' = pc \/ pc' \in WakeIdle(pc)
      PROVE  QInv'
  <2>1. \A v \in Threads : Nudged(pc, pc', v)
    BY <1>t, <1>6, WakeIdleNudges DEF Nudged
  <2>2. \A v \in Threads :
          /\ pc'[v] \in Dozing <=> pc[v] \in Dozing
          /\ pc'[v] \in Out <=> pc[v] \in Out
          /\ pc'[v] # "exit"
    BY <1>t, <2>1 DEF Nudged, Dozing, Out
  <2> QED
    BY <1>6, <2>2, SameCounts
<1>7. ASSUME NEW w \in Threads, NEW t \in Tasks, Go(w, t) \/ Goready(w, t)
      PROVE  QInv'
  <2>1. NotStarted'
    BY <1>7 DEF Go, CreateTask, Goready, QInv, NotStarted
  <2> QED
    BY <1>6, <1>7, <2>1 DEF Go, CreateTask, Goready, ReadyTask
<1>8. ASSUME NEW t \in Tasks, Submit(t) PROVE QInv'
  <2>1. \A v \in Threads : pc[v] = "none"
    BY <1>8 DEF Submit, QInv, NotStarted
  <2>2. pc' = pc
    BY <1>8, <2>1 DEF Submit, CreateTask, WakeIdle, NotifyOne
  <2>3. NotStarted'
    BY <2>1, <2>2 DEF NotStarted
  <2> QED
    BY <1>6, <1>8, <2>2, <2>3 DEF Submit, CreateTask
<1>9. CASE StartRuntime
  <2>1. /\ \A v \in Threads : pc[v] = "none" /\ pc'[v] \in {"none", "start"}
        /\ UNCHANGED <<session, idle_workers, all_workers>>
        /\ main' = "join"
    BY <1>9 DEF StartRuntime, queue, QInv, NotStarted
  <2> QED
    BY <2>1, SameCounts DEF Out, Dozing, NotStarted
<1>10. CASE Join
  <2>1. main' # "submit"
    BY <1>10, <1>t, SchedulerAssumption DEF Join, Shape
  <2> QED
    BY <1>6, <1>10, <2>1 DEF Join, queue, NotStarted
<1>11. ASSUME NEW w \in Threads, SpuriousWakeup(w) PROVE QInv'
  <2>1. /\ pc[w] = "asleep" /\ pc'[w] = "woken"
        /\ \A v \in Threads \ {w} : pc'[v] = pc[v]
        /\ UNCHANGED <<main, session, idle_workers, all_workers>>
    BY <1>11, <1>t DEF SpuriousWakeup, queue, Goto
  <2>2. NotStarted'
    BY <2>1 DEF QInv, NotStarted
  <2> QED
    BY <1>t, <2>1, <2>2, SameCounts DEF Out, Dozing
<1>12. ASSUME NEW w \in Threads, SpawnWorker(w) PROVE QInv'
  <2>1. PICK s \in Spares : /\ pc[s] = "none" /\ pc[w] = "spawning"
                            /\ pc' = [pc EXCEPT ![s] = "start", ![w] = "blocking"]
    BY <1>12 DEF SpawnWorker
  <2>2. /\ s \in Threads /\ pc'[s] = "start" /\ pc'[w] = "blocking"
        /\ \A v \in Threads \ {s, w} : pc'[v] = pc[v]
        /\ UNCHANGED <<main, session, idle_workers, all_workers>>
    BY <1>12, <1>t, <2>1 DEF SpawnWorker, queue, Threads
  <2>3. NotStarted'
    BY <2>1, <2>2 DEF QInv, NotStarted
  <2> QED
    BY <1>t, <2>1, <2>2, <2>3, SameCounts DEF Out, Dozing
<1>13. CASE Rearm \/ UNCHANGED vars
  BY <1>6, <1>13 DEF Rearm, vars, queue, QInv, NotStarted
<1>14. ASSUME NEW w \in Threads, NEW t \in Tasks, PollerReady(w, t) PROVE QInv'
  <2>1. NotStarted'
    <3>1. pc' = pc \/ pc' \in WakeIdle(pc)
      BY <1>14 DEF PollerReady, ReadyTask
    <3>2. \A v \in Threads : pc[v] = "none" => pc'[v] = "none"
      BY <1>t, <3>1, WakeIdleNudges DEF Nudged
    <3> QED
      BY <1>14, <3>2 DEF PollerReady, QInv, NotStarted
  <2> QED
    BY <1>6, <1>14, <2>1 DEF PollerReady, ReadyTask
<1> QED
  BY <1>1, <1>2, <1>3, <1>4, <1>5, <1>7, <1>8, <1>9, <1>10, <1>11, <1>12, <1>13, <1>14
     DEF PolledNext, PollerStep, Next, WorkerStep, TaskStep, MainStep

LEMMA QInvNext == IInv /\ QInv /\ [PolledNext]_vars => QInv'
<1> SUFFICES ASSUME IInv, QInv, [PolledNext]_vars, session' = 1 PROVE QInv'
  BY DEF QInv, Counted, Quiet, NotStarted
<1>1. session = 1
  BY SessionOne DEF IInv
<1> QED
  BY <1>1, QuietStays, CountsStay

LEMMA QInvInit == Init => QInv
<1> SUFFICES ASSUME Init PROVE QInv
  OBVIOUS
<1>1. Dozers = {} /\ Registered = {} /\ Left = {}
  BY DEF Init, Dozers, Dozing, Registered, Left, In
<1> QED
  BY <1>1, FS_EmptySet DEF Init, QInv, Counted, Quiet, NotStarted

(* No worker leaves while a task is alive, for any number of tasks,        *)
(* workers and spare workers, and with or without spurious wakeups: the    *)
(* test idle_workers == all_workers (channel.rs:95-107, 147-159) is right  *)
(* until main starts the runtime a second time.                            *)
THEOREM NoEarlyShutdown == Spec => []ShutdownMeansDone
<1>1. QInv => ShutdownMeansDone
  BY DEF QInv, Quiet, ShutdownMeansDone, Left
<1>2. IInv /\ QInv /\ [Next]_vars => QInv'
  BY QInvNext DEF PolledNext
<1>3. Spec => []QInv
  BY <1>2, QInvInit, Invariant, PTL DEF Spec
<1> QED
  BY <1>1, <1>3, PTL

-----------------------------------------------------------------------------
(* The counters in every session                                           *)


CInv ==
  /\ idle_workers \in Nat
  /\ idle_workers >= Cardinality(Dozers)
  /\ all_workers = Cardinality(Registered)

(* A step after which as many threads are registered, and as many doze.    *)
LEMMA CountersKept ==
  ASSUME CInv, UNCHANGED <<idle_workers, all_workers>>,
         \A v \in Threads : pc'[v] \in Dozing <=> pc[v] \in Dozing,
         \A v \in Threads : pc'[v] \in Out <=> pc[v] \in Out
  PROVE  CInv'
<1>1. Dozers' = Dozers /\ Registered' = Registered
  BY DEF Dozers, Registered, In, Out
<1> QED
  BY <1>1 DEF CInv

(* One thread moves, among the registered ones that do not doze, and may   *)
(* wake another.                                                           *)
LEMMA CountersMove ==
  ASSUME CInv, pc \in [Threads -> PC],
         UNCHANGED <<idle_workers, all_workers>>,
         NEW w \in Threads, NEW at \in PC \ (Out \cup Dozing),
         pc[w] \notin Out \cup Dozing,
         \A v \in Threads : Nudged(Goto(w, at), pc', v)
  PROVE  CInv'
<1>1. /\ pc'[w] = at
      /\ \A v \in Threads \ {w} : pc'[v] = pc[v] \/ {pc[v], pc'[v]} \subseteq Dozing
  BY DEF Nudged, Goto, Dozing, Out
<1>2. \A v \in Threads :
        /\ pc'[v] \in Dozing <=> pc[v] \in Dozing
        /\ pc'[v] \in Out <=> pc[v] \in Out
  BY <1>1 DEF Dozing, Out
<1> QED
  BY <1>2, CountersKept

(* The worker w terminates: it gives up its place in all_workers only.     *)
LEMMA CountersAfterShutdown ==
  ASSUME CInv, pc \in [Threads -> PC],
         NEW w \in Threads, pc[w] \in {"idling", "woken"}, Shutdown(w),
         idle_workers' = IF pc[w] = "woken" THEN idle_workers - 1
                                            ELSE idle_workers + 1
  PROVE  CInv'
<1>1. /\ pc'[w] = "exit"
      /\ \A v \in Threads \ {w} : pc'[v] = pc[v] \/ {pc[v], pc'[v]} \subseteq Dozing
      /\ all_workers' = all_workers - 1
  BY DEF Shutdown, NotifyAll, Goto, Dozing
<1>2. /\ Registered' = Registered \ {w}
      /\ Dozers' = Dozers \ {w}
      /\ w \in Registered
      /\ w \in Dozers <=> pc[w] = "woken"
  BY <1>1 DEF Registered, Dozers, Dozing, In
<1>3. Cardinality(Registered') = Cardinality(Registered) - 1
  BY <1>2, ThreadsFinite, FS_RemoveElement
<1>4. CASE pc[w] = "woken"
  <2>1. Cardinality(Dozers') = Cardinality(Dozers) - 1
    BY <1>2, <1>4, ThreadsFinite, FS_RemoveElement
  <2>2. Cardinality(Dozers) >= 1
    BY <1>2, <1>4, ThreadsFinite, FS_EmptySet
  <2> QED
    BY <1>1, <1>3, <1>4, <2>1, <2>2, ThreadsFinite DEF CInv
<1>5. CASE pc[w] = "idling"
  <2>1. Dozers' = Dozers
    BY <1>2, <1>5
  <2> QED
    BY <1>1, <1>3, <1>5, <2>1, ThreadsFinite DEF CInv
<1> QED
  BY <1>4, <1>5

LEMMA CInvNext ==
  ASSUME IInv, CInv, [PolledNext]_vars
  PROVE  CInv'
<1>t. pc \in [Threads -> PC] /\ Shape
  BY DEF IInv, Shape
<1>1. ASSUME NEW w \in Threads, Register(w) PROVE CInv'
  <2>1. /\ pc'[w] = "pop" /\ pc[w] = "start"
        /\ \A v \in Threads \ {w} : pc'[v] = pc[v]
        /\ all_workers' = all_workers + 1 /\ UNCHANGED idle_workers
    BY <1>1, <1>t DEF Register, Goto
  <2>2. Registered' = Registered \cup {w} /\ w \notin Registered /\ Dozers' = Dozers
    BY <2>1 DEF Registered, Dozers, Dozing, In
  <2>3. Cardinality(Registered') = all_workers + 1
    BY <2>2, ThreadsFinite, FS_AddElement DEF CInv
  <2> QED
    BY <2>1, <2>2, <2>3 DEF CInv
<1>2. ASSUME NEW w \in Threads, NEW outside, GoIdle(w, outside) PROVE CInv'
  <2>1. pc[w] = "idling" /\ idle_workers' = idle_workers + 1
    BY <1>2 DEF GoIdle
  <2>2. CASE Shutdown(w)
    BY <1>t, <2>1, <2>2, CountersAfterShutdown
  <2>3. CASE pc' = Goto(w, "asleep") /\ UNCHANGED all_workers
    <3>1. pc'[w] = "asleep" /\ \A v \in Threads \ {w} : pc'[v] = pc[v]
      BY <1>t, <2>3 DEF Goto
    <3>2. Dozers' = Dozers \cup {w} /\ w \notin Dozers /\ Registered' = Registered
      BY <2>1, <3>1 DEF Dozers, Dozing, Registered, In
    <3>3. Cardinality(Dozers') = Cardinality(Dozers) + 1
      BY <3>2, ThreadsFinite, FS_AddElement
    <3> QED
      BY <2>1, <2>3, <3>2, <3>3, ThreadsFinite DEF CInv
  <2> QED
    BY <1>2, <2>2, <2>3 DEF GoIdle
<1>3. ASSUME NEW w \in Threads, NEW outside, WakeUp(w, outside) PROVE CInv'
  <2>1. pc[w] = "woken" /\ idle_workers' = idle_workers - 1
    BY <1>3 DEF WakeUp
  <2>2. CASE Shutdown(w)
    BY <1>t, <2>1, <2>2, CountersAfterShutdown
  <2>3. CASE UNCHANGED all_workers /\ \E at \in {"run", "pop"} : pc' = Goto(w, at)
    <3>1. pc'[w] \in {"run", "pop"} /\ \A v \in Threads \ {w} : pc'[v] = pc[v]
      BY <1>t, <2>3 DEF Goto
    <3>2. Dozers' = Dozers \ {w} /\ w \in Dozers /\ Registered' = Registered
      BY <2>1, <3>1 DEF Dozers, Dozing, Registered, In
    <3>3. Cardinality(Dozers') = Cardinality(Dozers) - 1 /\ Cardinality(Dozers) >= 1
      BY <3>2, ThreadsFinite, FS_RemoveElement, FS_EmptySet
    <3> QED
      BY <2>1, <2>3, <3>2, <3>3, ThreadsFinite DEF CInv
  <2> QED
    BY <1>3, <2>2, <2>3 DEF WakeUp, Dequeue
<1>4. ASSUME NEW w \in Threads,
             \/ Pop(w) \/ PopNothing(w) \/ LookBack(w) \/ LeaveStep(w) \/ Gopark(w)
             \/ EnterBlocking(w) \/ LeaveBlocking(w)
      PROVE  CInv'
  <2>1. /\ \E at \in PC \ (Out \cup Dozing) : pc' = Goto(w, at)
        /\ pc[w] \notin Out \cup Dozing
        /\ UNCHANGED <<idle_workers, all_workers>>
    BY <1>4 DEF Pop, Dequeue, PopNothing, LookBack, LeaveStep, Gosched, Publish, Finish, Gopark,
               EnterBlocking, LeaveBlocking, queue, PC, Out, Holding, Dozing
  <2>2. \A v \in Threads : Nudged(pc', pc', v)
    BY DEF Nudged
  <2> QED
    BY <1>t, <2>1, <2>2, CountersMove
<1>5. ASSUME NEW w \in Threads, Settle(w) PROVE CInv'
  <2>1. Goto(w, "pop") \in [Threads -> PC]
    BY <1>t DEF Goto, PC
  <2>2. pc' = Goto(w, "pop") \/ pc' \in WakeIdle(Goto(w, "pop"))
    BY <1>5 DEF Settle, SettleDead, SettleParked, SettleYielded
  <2>3. \A v \in Threads : Nudged(Goto(w, "pop"), pc', v)
    BY <2>1, <2>2, WakeIdleNudges DEF Nudged
  <2>4. /\ pc[w] \notin Out \cup Dozing
        /\ "pop" \in PC \ (Out \cup Dozing)
        /\ UNCHANGED <<idle_workers, all_workers>>
    BY <1>5 DEF Settle, PC, Out, Dozing
  <2> QED
    BY <1>t, <2>3, <2>4, CountersMove
<1>6. ASSUME UNCHANGED <<idle_workers, all_workers>>, pc' = pc \/ pc' \in WakeIdle(pc)
      PROVE  CInv'
  <2>1. \A v \in Threads : Nudged(pc, pc', v)
    BY <1>t, <1>6, WakeIdleNudges DEF Nudged
  <2>2. \A v \in Threads :
          /\ pc'[v] \in Dozing <=> pc[v] \in Dozing
          /\ pc'[v] \in Out <=> pc[v] \in Out
    BY <2>1 DEF Nudged, Dozing, Out
  <2> QED
    BY <1>6, <2>2, CountersKept
<1>7. ASSUME NEW w \in Threads, NEW t \in Tasks, Go(w, t) \/ Goready(w, t)
      PROVE  CInv'
  BY <1>6, <1>7 DEF Go, CreateTask, Goready, ReadyTask
<1>8. ASSUME NEW t \in Tasks, Submit(t) PROVE CInv'
  BY <1>6, <1>8 DEF Submit, CreateTask
<1>9. CASE StartRuntime
  <2>1. /\ \A v \in Threads : pc'[v] = pc[v] \/ {pc[v], pc'[v]} \subseteq Out
        /\ UNCHANGED <<idle_workers, all_workers>>
    BY <1>9 DEF StartRuntime, queue, IInv, WorkersOutside, Out, Threads
  <2>2. \A v \in Threads :
          /\ pc'[v] \in Dozing <=> pc[v] \in Dozing
          /\ pc'[v] \in Out <=> pc[v] \in Out
    BY <2>1 DEF Out, Dozing
  <2> QED
    BY <2>1, <2>2, CountersKept
<1>10. ASSUME NEW w \in Threads, SpuriousWakeup(w) PROVE CInv'
  <2>1. /\ pc[w] = "asleep" /\ pc'[w] = "woken"
        /\ \A v \in Threads \ {w} : pc'[v] = pc[v]
        /\ UNCHANGED <<idle_workers, all_workers>>
    BY <1>10, <1>t DEF SpuriousWakeup, queue, Goto
  <2> QED
    BY <2>1, CountersKept DEF Out, Dozing
<1>11. ASSUME NEW w \in Threads, SpawnWorker(w) PROVE CInv'
  <2>1. PICK s \in Spares : /\ pc[s] = "none" /\ pc[w] = "spawning"
                            /\ pc' = [pc EXCEPT ![s] = "start", ![w] = "blocking"]
    BY <1>11 DEF SpawnWorker
  <2>2. /\ s \in Threads /\ pc'[s] = "start" /\ pc'[w] = "blocking"
        /\ \A v \in Threads \ {s, w} : pc'[v] = pc[v]
        /\ UNCHANGED <<idle_workers, all_workers>>
    BY <1>11, <1>t, <2>1 DEF SpawnWorker, queue, Threads
  <2> QED
    BY <2>1, <2>2, CountersKept DEF Out, Dozing
<1>12. CASE Join \/ Rearm \/ UNCHANGED vars
  BY <1>6, <1>12 DEF Join, Rearm, vars, queue
<1>13. ASSUME NEW w \in Threads, NEW t \in Tasks, PollerReady(w, t) PROVE CInv'
  BY <1>6, <1>13 DEF PollerReady, ReadyTask
<1> QED
  BY <1>1, <1>2, <1>3, <1>4, <1>5, <1>7, <1>8, <1>9, <1>10, <1>11, <1>12, <1>13
     DEF PolledNext, PollerStep, Next, WorkerStep, TaskStep, MainStep

LEMMA CInvInit == Init => CInv
<1> SUFFICES ASSUME Init PROVE CInv
  OBVIOUS
<1>1. Dozers = {} /\ Registered = {}
  BY DEF Init, Dozers, Dozing, Registered, In
<1> QED
  BY <1>1, FS_EmptySet DEF Init, CInv

LEMMA CInvAlways == Spec => []CInv
<1>1. IInv /\ CInv /\ [Next]_vars => CInv'
  BY CInvNext DEF PolledNext
<1> QED
  BY <1>1, CInvInit, Invariant, PTL DEF Spec

(* The invariant has all the types; what CInv adds is that the counters,   *)
(* which the actions add to and subtract from, stay natural numbers.       *)
LEMMA CountersTyped == IInv /\ CInv => TypeOK
BY ThreadsFinite DEF IInv, CInv, TypeOK

(* The state keeps its shape and the counters stay natural numbers, for    *)
(* any number of tasks and workers, through any number of start_runtime    *)
(* calls: no decrement of all_workers or idle_workers can wrap             *)
(* (channel.rs:142-149, 163).                                              *)
THEOREM TypeCorrect == Spec => []TypeOK
BY CountersTyped, Invariant, CInvAlways, PTL

-----------------------------------------------------------------------------
(* NoStrandedWork.  It is inductive on top of IInv and CInv: the thread    *)
(* that makes work is itself on its way, a thread that goes to sleep while *)
(* there is work was not, and one that goes into a blocking call leaves an *)
(* empty queue or a counter above zero behind.                             *)

LEMMA OnTheWaySuffices ==
  ASSUME NEW v \in Threads, pc'[v] \in OnTheWay
  PROVE  NoStrandedWork'
BY DEF NoStrandedWork, In, OnTheWay

LEMMA NoStrandedNext ==
  ASSUME IInv, CInv, NoStrandedWork, [PolledNext]_vars
  PROVE  NoStrandedWork'
<1>t. Shape
  BY DEF IInv
<1>p. pc \in [Threads -> PC]
  BY <1>t DEF Shape
<1>1. ASSUME UNCHANGED <<runnable, pc, main, idle_workers>> PROVE NoStrandedWork'
  BY <1>1 DEF NoStrandedWork, In
<1>2. ASSUME NEW w \in Threads,
             Register(w) \/ Pop(w) \/ SpuriousWakeup(w) \/ LeaveStep(w) \/ Gopark(w)
               \/ LeaveBlocking(w) \/ LookBack(w)
      PROVE  NoStrandedWork'
  <2>1. \E at \in OnTheWay : pc' = Goto(w, at)
    BY <1>2 DEF Register, Pop, Dequeue, SpuriousWakeup, LeaveStep, Gosched, Publish,
               Finish, Gopark, LeaveBlocking, LookBack, OnTheWay, Holding
  <2>2. pc'[w] \in OnTheWay
    BY <1>p, <2>1 DEF Goto
  <2> QED
    BY <2>2, OnTheWaySuffices
<1>3. ASSUME NEW w \in Threads, PopNothing(w) PROVE NoStrandedWork'
  BY <1>3 DEF PopNothing, queue, NoStrandedWork
<1>4. ASSUME NEW w \in Threads, NEW outside, GoIdle(w, outside) PROVE NoStrandedWork'
  <2>1. CASE Shutdown(w) /\ runnable = <<>>
    BY <2>1 DEF Shutdown, NoStrandedWork
  <2>2. CASE pc' = Goto(w, "asleep") /\ UNCHANGED runnable
    <3>1. SUFFICES ASSUME runnable # <<>>, main # "submit"
                   PROVE  NoStrandedWork'
      BY <1>4, <2>2 DEF GoIdle, NoStrandedWork
    <3>2. pc[w] = "idling" /\ idle_workers' = idle_workers + 1
      BY <1>4 DEF GoIdle
    <3>3. PICK v \in Threads : pc[v] \in OnTheWay \cup {"blocking"}
      BY <3>1 DEF NoStrandedWork, In
    <3>4. v # w /\ pc'[v] = pc[v]
      BY <1>p, <2>2, <3>2, <3>3 DEF Goto, OnTheWay, Holding
    <3>5. idle_workers' > 0
      BY <3>2 DEF CInv
    <3>6. CASE pc[v] = "blocking"
      BY <3>4, <3>5, <3>6 DEF NoStrandedWork, In
    <3> QED
      BY <3>3, <3>4, <3>6, OnTheWaySuffices
  <2> QED
    BY <1>4, <2>1, <2>2 DEF GoIdle, ShouldTerminate
<1>5. ASSUME NEW w \in Threads, NEW outside, WakeUp(w, outside) PROVE NoStrandedWork'
  <2>1. CASE Shutdown(w) /\ runnable = <<>>
    BY <2>1 DEF Shutdown, NoStrandedWork
  <2>2. CASE Dequeue(w)
    <3>1. pc'[w] \in OnTheWay
      BY <1>p, <2>2 DEF Dequeue, Goto, OnTheWay, Holding
    <3> QED
      BY <3>1, OnTheWaySuffices
  <2>3. CASE runnable = <<>> /\ UNCHANGED runnable
    BY <2>3 DEF NoStrandedWork
  <2> QED
    BY <1>5, <2>1, <2>2, <2>3 DEF WakeUp, ShouldTerminate
<1>6. ASSUME NEW w \in Threads, Settle(w) PROVE NoStrandedWork'
  <2>1. Goto(w, "pop") \in [Threads -> PC] /\ Goto(w, "pop")[w] = "pop"
    BY <1>p DEF Goto, PC
  <2>2. pc' = Goto(w, "pop") \/ pc' \in WakeIdle(Goto(w, "pop"))
    BY <1>6 DEF Settle, SettleDead, SettleParked, SettleYielded
  <2>3. pc'[w] = "pop"
    BY <2>1, <2>2, WakeIdleNudges DEF Nudged
  <2> QED
    BY <2>3, OnTheWaySuffices DEF OnTheWay
<1>7. ASSUME NEW w \in Threads, SpawnWorker(w) PROVE NoStrandedWork'
  <2>1. PICK s \in Spares : pc[s] = "none" /\ pc[w] = "spawning"
                              /\ pc' = [pc EXCEPT ![s] = "start", ![w] = "blocking"]
    BY <1>7 DEF SpawnWorker
  <2>2. s \in Threads /\ pc'[s] = "start"
    BY <1>p, <2>1 DEF Threads
  <2> QED
    BY <2>2, OnTheWaySuffices DEF OnTheWay
<1>8. ASSUME NEW w \in Threads, EnterBlocking(w) PROVE NoStrandedWork'
  <2>1. CASE pc' = Goto(w, "spawning")
    <3>1. pc'[w] = "spawning"
      BY <1>p, <2>1 DEF Goto
    <3> QED
      BY <3>1, OnTheWaySuffices DEF OnTheWay, Holding
  <2>2. CASE pc' = Goto(w, "blocking") /\ ~(runnable # <<>> /\ idle_workers = 0)
    <3>1. pc'[w] = "blocking" /\ UNCHANGED <<runnable, idle_workers>>
      BY <1>8, <1>p, <2>2 DEF EnterBlocking, queue, Goto
    <3>2. runnable # <<>> => idle_workers > 0
      BY <2>2 DEF CInv
    <3> QED
      BY <3>1, <3>2 DEF NoStrandedWork, In
  <2> QED
    BY <1>8, <2>1, <2>2 DEF EnterBlocking
<1>9. ASSUME NEW w \in Threads, pc[w] \in {"run", "pop"}, pc' = pc \/ pc' \in WakeIdle(pc)
      PROVE  NoStrandedWork'
  <2>1. pc'[w] \in {"run", "pop"}
    BY <1>9, <1>p, WakeIdleNudges DEF Nudged
  <2> QED
    BY <2>1, OnTheWaySuffices DEF OnTheWay, Holding
<1>10. ASSUME NEW w \in Threads, NEW t \in Tasks,
              Go(w, t) \/ Goready(w, t) \/ PollerReady(w, t)
       PROVE  NoStrandedWork'
  BY <1>9, <1>10 DEF Go, CreateTask, Goready, PollerReady, ReadyTask
<1>11. ASSUME NEW t \in Tasks, Submit(t) PROVE NoStrandedWork'
  BY <1>11 DEF Submit, CreateTask, NoStrandedWork
<1>12. CASE StartRuntime
  <2>1. PICK w \in Workers : TRUE
    BY SchedulerAssumption
  <2>2. w \in Threads /\ pc'[w] = "start"
    BY <1>12, <2>1 DEF StartRuntime, Threads
  <2> QED
    BY <2>2, OnTheWaySuffices DEF OnTheWay
<1>13. CASE Join
  BY <1>13 DEF Join, queue, NoStrandedWork, In
<1>14. CASE Rearm \/ UNCHANGED vars
  BY <1>1, <1>14 DEF Rearm, vars, queue
<1> QED
  BY <1>2, <1>3, <1>4, <1>5, <1>6, <1>7, <1>8, <1>10, <1>11, <1>12, <1>13, <1>14
     DEF PolledNext, PollerStep, Next, WorkerStep, TaskStep, MainStep

(* Queued work is never stranded, whatever the numbers of tasks, workers   *)
(* and spare workers, and with or without spurious wakeups: while a task   *)
(* is queued some thread is on its way to the queue, or all of those are   *)
(* in blocking calls and enter_blocking has counted an idle worker         *)
(* (channel.rs:130-162, 287-290, 344-347, 391-404).                        *)
THEOREM WorkNeverStranded == Spec => []NoStrandedWork
<1>1. Init => NoStrandedWork
  BY DEF Init, NoStrandedWork
<1>2. IInv /\ CInv /\ NoStrandedWork /\ [Next]_vars => NoStrandedWork'
  BY NoStrandedNext DEF PolledNext
<1> QED
  BY <1>1, <1>2, Invariant, CInvAlways, PTL DEF Spec
=============================================================================
