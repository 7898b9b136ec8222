----------------------------- MODULE SpawnProofs -----------------------------
(***************************************************************************)
(* The runtimes without gopark, for any tasks, any workers and any number  *)
(* of threads that enter_blocking may add: no task is lost or run twice,   *)
(* queued tasks are not left with blocked threads only, and start_runtime  *)
(* returns when all is done.                                               *)
(***************************************************************************)
EXTENDS SpawnRuntime, SeqLemmas, TLAPS

Queued == Range(tasks)

(* A task on a worker is alive until it has finished and switched out.     *)
Alive ==
  \A w \in Threads :
    /\ pc[w] \in Holding \ {"switched"} => state[current_task[w]] = "Runnable"
    /\ pc[w] = "switched" => state[current_task[w]] \in {"Runnable", "Dead"}

(* No thread works before start_runtime, and no worker that main started   *)
(* works after it.                                                         *)
WorkersOutside ==
  /\ main = "submit" => \A w \in Threads : pc[w] = "none"
  /\ main = "done" => \A w \in Workers : pc[w] = "exit"

IInv == TypeOK /\ OnePlace /\ Alive /\ WorkersOutside

(* OnePlace in terms of the set of queued tasks.                           *)
Places ==
  /\ IsInjective(tasks)
  /\ \A v, w \in Threads :
       current_task[v] = current_task[w] /\ current_task[v] # NoTask => v = w
  /\ \A t \in Queued : state[t] = "Runnable" /\ t \notin Held
  /\ \A t \in Tasks : state[t] = "Runnable" => t \in Held \cup Queued

LEMMA OnePlaceMeans == OnePlace <=> Places
<1>1. Queued = {tasks[i] : i \in DOMAIN tasks}
  BY DEF Queued, Range
<1> QED
  BY <1>1 DEF OnePlace, Places, IsInjective

LEMMA PlacesThen == Places' => OnePlace'
BY OnePlaceMeans, PTL

LEMMA SpawnInit == Init => IInv
<1> SUFFICES ASSUME Init PROVE IInv
  OBVIOUS
<1>1. TypeOK /\ Alive /\ WorkersOutside
  BY DEF Init, TypeOK, Alive, WorkersOutside, Holding
<1>2. Places
  BY EmptyList DEF Init, Places, Queued
<1> QED
  BY <1>1, <1>2, OnePlaceMeans DEF IInv

-----------------------------------------------------------------------------
(* The kinds of steps                                                      *)

(* A step that leaves every task where it is.                              *)
LEMMA StaysPut ==
  ASSUME IInv, WorkersOutside', UNCHANGED <<tasks, current_task, state>>,
         main' \in {"submit", "join", "done"},
         pc' \in [Threads -> Holding \cup {"none", "pop", "exit"}],
         \A v \in Threads : pc'[v] \in Holding <=> pc[v] \in Holding,
         \A v \in Threads : pc[v] = "switched" => pc'[v] = "switched"
  PROVE  IInv'
<1>1. TypeOK'
  BY DEF IInv, TypeOK
<1>2. OnePlace'
  BY DEF IInv, OnePlace, Held
<1>3. Alive'
  BY DEF IInv, Alive, Holding
<1> QED
  BY <1>1, <1>2, <1>3 DEF IInv

(* A new task is queued.                                                   *)
LEMMA CreateStep ==
  ASSUME IInv, NEW t \in Tasks, CreateTask(t)
  PROVE  IInv'
<1>1. TypeOK /\ Places /\ Alive
  BY OnePlaceMeans DEF IInv
<1>2. /\ state' = [state EXCEPT ![t] = "Runnable"]
      /\ tasks' = Append(tasks, t)
      /\ UNCHANGED <<current_task, pc, main, Held>>
      /\ state[t] = "New"
  BY DEF CreateTask, Held
<1>3. t \notin Queued
  BY <1>1, <1>2 DEF Places
<1>4. \A w \in Threads : current_task[w] # NoTask => current_task[w] # t
  BY <1>1, <1>2 DEF TypeOK, Alive, Holding
<1>5. t \notin Held
  BY <1>4 DEF Held
<1>6. tasks' \in Seq(Tasks) /\ Queued' = Queued \cup {t} /\ IsInjective(tasks')
  BY <1>1, <1>2, <1>3, ListAppend DEF TypeOK, Places, Queued
<1>7. state'[t] = "Runnable" /\ \A u \in Tasks \ {t} : state'[u] = state[u]
  BY <1>1, <1>2 DEF TypeOK
<1>8. TypeOK'
  BY <1>1, <1>2, <1>6 DEF TypeOK
<1>9. Places'
  BY <1>1, <1>2, <1>5, <1>6, <1>7 DEF Places
<1>10. Alive'
  BY <1>1, <1>2, <1>4, <1>7 DEF TypeOK, Alive, Holding
<1> QED
  BY <1>2, <1>8, <1>9, <1>10, PlacesThen DEF IInv, WorkersOutside

LEMMA PopStep ==
  ASSUME IInv, NEW w \in Threads, Pop(w)
  PROVE  IInv'
<1> DEFINE t == Head(tasks)
<1>1. TypeOK /\ Places /\ Alive /\ WorkersOutside
  BY OnePlaceMeans DEF IInv
<1>2. /\ current_task' = [current_task EXCEPT ![w] = t]
      /\ pc' = [pc EXCEPT ![w] = "run"]
      /\ tasks' = Tail(tasks) /\ tasks \in Seq(Tasks) /\ tasks # <<>>
      /\ pc[w] = "pop"
      /\ UNCHANGED <<state, main>>
  BY <1>1 DEF Pop, TypeOK
<1>3. /\ t \in Queued /\ t \in Tasks
      /\ tasks' \in Seq(Tasks) /\ Queued' = Queued \ {t} /\ IsInjective(tasks')
  BY <1>1, <1>2, ListTail DEF Places, Queued
<1> HIDE DEF t
<1>4. state[t] = "Runnable" /\ t \notin Held /\ t # NoTask
  BY <1>1, <1>3, SpawnAssumption DEF Places
<1>5. current_task[w] = NoTask /\ \A v \in Threads : current_task[v] # t
  BY <1>1, <1>2, <1>4 DEF TypeOK, Held, Holding
<1>6. /\ current_task'[w] = t /\ pc'[w] = "run"
      /\ \A v \in Threads \ {w} : current_task'[v] = current_task[v] /\ pc'[v] = pc[v]
  BY <1>1, <1>2 DEF TypeOK
<1>7. Held' = Held \cup {t}
  BY <1>4, <1>5, <1>6 DEF Held
<1>8. TypeOK'
  BY <1>1, <1>2, <1>3, <1>4, <1>6 DEF TypeOK, Holding
<1>9. Places'
  BY <1>1, <1>2, <1>3, <1>4, <1>5, <1>6, <1>7 DEF Places
<1>10. Alive'
  BY <1>1, <1>2, <1>4, <1>6 DEF Alive, Holding
<1>11. WorkersOutside'
  BY <1>1, <1>2, <1>6 DEF WorkersOutside, Threads
<1> QED
  BY <1>8, <1>9, <1>10, <1>11, PlacesThen DEF IInv

LEMMA FinishStep ==
  ASSUME IInv, NEW w \in Threads, Finish(w)
  PROVE  IInv'
<1> DEFINE t == current_task[w]
<1>1. TypeOK /\ Places /\ Alive /\ WorkersOutside
  BY OnePlaceMeans DEF IInv
<1>2. /\ state' = [state EXCEPT ![t] = "Dead"]
      /\ pc' = [pc EXCEPT ![w] = "switched"]
      /\ pc[w] = "run"
      /\ UNCHANGED <<tasks, current_task, main, Held, Queued>>
  BY DEF Finish, Held, Queued
<1>3. t \in Tasks /\ t # NoTask /\ t \in Held
  BY <1>1, <1>2 DEF TypeOK, Holding, Held
<1>4. t \notin Queued /\ \A v \in Threads \ {w} : current_task[v] # t
  BY <1>1, <1>3 DEF Places
<1>5. /\ state'[t] = "Dead" /\ pc'[w] = "switched"
      /\ \A u \in Tasks \ {t} : state'[u] = state[u]
      /\ \A v \in Threads \ {w} : pc'[v] = pc[v]
  BY <1>1, <1>2, <1>3 DEF TypeOK
<1> HIDE DEF t
<1>6. TypeOK'
  BY <1>1, <1>2, <1>3, <1>5 DEF TypeOK, Holding
<1>7. Queued \subseteq Tasks
  BY <1>1, RangeOfSeq DEF TypeOK, Queued
<1>8. Places'
  BY <1>1, <1>2, <1>4, <1>5, <1>7 DEF Places
<1>9. Alive'
  BY <1>1, <1>2, <1>4, <1>5 DEF TypeOK, Alive, Holding, t
<1>10. WorkersOutside'
  BY <1>1, <1>2, <1>5 DEF WorkersOutside, Threads
<1> QED
  BY <1>6, <1>8, <1>9, <1>10, PlacesThen DEF IInv

(* The worker loop puts a task back, or drops it if it is dead.            *)
LEMMA PutBackStep ==
  ASSUME IInv, NEW w \in Threads, PutBack(w)
  PROVE  IInv'
<1> DEFINE t == current_task[w]
<1>1. TypeOK /\ Places /\ Alive /\ WorkersOutside
  BY OnePlaceMeans DEF IInv
<1>2. /\ tasks' = IF state[t] = "Dead" THEN tasks ELSE Append(tasks, t)
      /\ current_task' = [current_task EXCEPT ![w] = NoTask]
      /\ pc' = [pc EXCEPT ![w] = "pop"]
      /\ pc[w] = "switched"
      /\ UNCHANGED <<state, main>>
  BY DEF PutBack
<1>3. /\ t \in Tasks /\ t # NoTask /\ t \in Held
      /\ state[t] \in {"Runnable", "Dead"}
  BY <1>1, <1>2 DEF TypeOK, Holding, Held, Alive
<1>4. t \notin Queued /\ \A v \in Threads \ {w} : current_task[v] # t
  BY <1>1, <1>3 DEF Places
<1>5. /\ current_task'[w] = NoTask /\ pc'[w] = "pop"
      /\ \A v \in Threads \ {w} : current_task'[v] = current_task[v] /\ pc'[v] = pc[v]
  BY <1>1, <1>2 DEF TypeOK
<1>6. Held' = Held \ {t}
  BY <1>3, <1>4, <1>5 DEF Held
<1> HIDE DEF t
<1>7. /\ tasks' \in Seq(Tasks) /\ IsInjective(tasks')
      /\ Queued' = IF state[t] = "Dead" THEN Queued ELSE Queued \cup {t}
  <2>1. CASE state[t] = "Dead"
    BY <1>1, <1>2, <2>1 DEF TypeOK, Places, Queued
  <2>2. CASE state[t] # "Dead"
    BY <1>1, <1>2, <1>3, <1>4, <2>2, ListAppend DEF TypeOK, Places, Queued
  <2> QED
    BY <2>1, <2>2
<1>8. TypeOK'
  BY <1>1, <1>2, <1>5, <1>7 DEF TypeOK, Holding
<1>9. Places'
  BY <1>1, <1>2, <1>3, <1>4, <1>5, <1>6, <1>7 DEF Places
<1>10. Alive'
  BY <1>1, <1>2, <1>5 DEF Alive, Holding
<1>11. WorkersOutside'
  BY <1>1, <1>2, <1>5 DEF WorkersOutside, Threads
<1> QED
  BY <1>8, <1>9, <1>10, <1>11, PlacesThen DEF IInv

-----------------------------------------------------------------------------

LEMMA ThreadNext ==
  ASSUME IInv, NEW w \in Threads, WorkerStep(w) \/ TaskStep(w)
  PROVE  IInv'
<1>1. TypeOK /\ WorkersOutside
  BY DEF IInv
<1>2. CASE Pop(w)
  BY <1>2, PopStep
<1>3. CASE PutBack(w)
  BY <1>3, PutBackStep
<1>4. CASE Finish(w)
  BY <1>4, FinishStep
<1>5. CASE \E t \in Tasks : Go(w, t)
  BY <1>5, CreateStep DEF Go
<1>6. ASSUME NEW from \in {"pop", "run", "blocking"},
             NEW to \in {"exit", "switched", "blocking", "spawning", "run"},
             from = "pop" <=> to = "exit",
             Step(w, from, to)
      PROVE  IInv'
  <2>1. /\ pc[w] = from /\ pc' = [pc EXCEPT ![w] = to]
        /\ UNCHANGED <<tasks, current_task, state, main>>
    BY <1>6 DEF Step
  <2>2. pc'[w] = to /\ \A v \in Threads \ {w} : pc'[v] = pc[v]
    BY <1>1, <2>1 DEF TypeOK
  <2>3. WorkersOutside'
    BY <1>1, <2>1, <2>2 DEF WorkersOutside, Threads
  <2>4. pc' \in [Threads -> Holding \cup {"none", "pop", "exit"}]
    BY <1>1, <2>1 DEF TypeOK, Holding
  <2>5. \A v \in Threads : /\ pc'[v] \in Holding <=> pc[v] \in Holding
                           /\ pc[v] = "switched" => pc'[v] = "switched"
    BY <1>6, <2>1, <2>2 DEF Holding
  <2> QED
    BY <1>1, <2>1, <2>3, <2>4, <2>5, StaysPut DEF TypeOK
<1>7. CASE LeaveLoop(w) \/ Gosched(w) \/ EnterBlocking(w) \/ LeaveBlocking(w)
  BY <1>6, <1>7 DEF LeaveLoop, Gosched, EnterBlocking, LeaveBlocking
<1>8. CASE SpawnWorker(w)
  <2>1. PICK s \in Spares : /\ pc[s] = "none"
                            /\ pc' = [pc EXCEPT ![s] = "pop", ![w] = "blocking"]
    BY <1>8 DEF SpawnWorker
  <2>2. pc[w] = "spawning" /\ UNCHANGED <<tasks, current_task, state, main>>
    BY <1>8 DEF SpawnWorker
  <2>3. /\ s \in Threads /\ s # w /\ s \notin Workers
        /\ pc'[s] = "pop" /\ pc'[w] = "blocking"
        /\ \A v \in Threads \ {s, w} : pc'[v] = pc[v]
        /\ pc' \in [Threads -> Holding \cup {"none", "pop", "exit"}]
    BY <1>1, <2>1, <2>2, SpawnAssumption DEF TypeOK, Threads, Holding
  <2>4. WorkersOutside'
    BY <1>1, <2>2, <2>3 DEF WorkersOutside, Threads
  <2>5. \A v \in Threads : /\ pc'[v] \in Holding <=> pc[v] \in Holding
                           /\ pc[v] = "switched" => pc'[v] = "switched"
    BY <2>1, <2>2, <2>3 DEF Holding
  <2> QED
    BY <1>1, <2>2, <2>3, <2>4, <2>5, StaysPut DEF TypeOK
<1> QED
  BY <1>2, <1>3, <1>4, <1>5, <1>7, <1>8 DEF WorkerStep, TaskStep, LeaveStep

LEMMA MainNext ==
  ASSUME IInv, MainStep
  PROVE  IInv'
<1>1. TypeOK /\ WorkersOutside
  BY DEF IInv
<1>2. CASE \E t \in Tasks : Submit(t)
  BY <1>2, CreateStep DEF Submit
<1>3. CASE StartRuntime
  <2>1. /\ main = "submit" /\ main' = "join"
        /\ pc' = [w \in Threads |-> IF w \in Workers THEN "pop" ELSE pc[w]]
        /\ UNCHANGED <<tasks, current_task, state>>
        /\ \A w \in Threads : pc[w] = "none"
    BY <1>1, <1>3 DEF StartRuntime, WorkersOutside
  <2>2. WorkersOutside' /\ pc' \in [Threads -> Holding \cup {"none", "pop", "exit"}]
    BY <2>1 DEF WorkersOutside
  <2>3. \A v \in Threads : pc'[v] \notin Holding /\ pc[v] \notin Holding /\ pc[v] # "switched"
    BY <2>1 DEF Holding
  <2> QED
    BY <2>1, <2>2, <2>3, StaysPut
<1>4. CASE Join
  <2>1. /\ main' = "done" /\ \A w \in Workers : pc[w] = "exit"
        /\ UNCHANGED <<tasks, current_task, state, pc>>
    BY <1>4 DEF Join
  <2> QED
    BY <1>1, <2>1, StaysPut DEF WorkersOutside, TypeOK
<1> QED
  BY <1>2, <1>3, <1>4 DEF MainStep

LEMMA Stutter == IInv /\ UNCHANGED vars => IInv'
<1> SUFFICES ASSUME IInv, UNCHANGED vars PROVE IInv'
  OBVIOUS
<1> QED
  BY StaysPut DEF IInv, vars, TypeOK, WorkersOutside

LEMMA Invariant == Spec => []IInv
<1>1. IInv /\ [Next]_vars => IInv'
  BY ThreadNext, MainNext, Stutter DEF Next
<1> QED
  BY <1>1, SpawnInit, PTL DEF Spec

(* The state keeps its types, and a thread holds a task exactly while it   *)
(* runs it (green.rs:96-130, multi.rs:82-127, spawn.rs:69-110).             *)
THEOREM TypeCorrect == Spec => []TypeOK
<1>1. IInv => TypeOK
  BY DEF IInv
<1> QED
  BY <1>1, Invariant, PTL

(* A live task is queued once or on one worker, whichever threads move it  *)
(* (spawn.rs:75-106).                                                      *)
THEOREM OnePlaceAlways == Spec => []OnePlace
<1>1. IInv => OnePlace
  BY DEF IInv
<1> QED
  BY <1>1, Invariant, PTL

-----------------------------------------------------------------------------
(* Whoever makes the queue non-empty holds a task, and comes back to the   *)
(* queue; a thread leaves for good only when the queue is empty, and       *)
(* blocks only then or after it has added a worker.                        *)

Awake == {"pop", "run", "spawning", "switched"}

LEMMA BlockingNext ==
  ASSUME IInv, BlockingLeavesAWorker, [Next]_vars
  PROVE  BlockingLeavesAWorker'
<1>1. TypeOK /\ WorkersOutside
  BY DEF IInv
<1>2. ASSUME NEW v \in Threads, pc'[v] \in Awake
      PROVE  BlockingLeavesAWorker'
  BY <1>2 DEF BlockingLeavesAWorker, In, Awake
<1>3. ASSUME NEW w \in Threads, WorkerStep(w) \/ TaskStep(w)
      PROVE  BlockingLeavesAWorker'
  <2>1. CASE Pop(w) \/ PutBack(w) \/ LeaveStep(w) \/ LeaveBlocking(w)
    <3>1. pc'[w] \in Awake
      BY <1>1, <2>1 DEF Pop, PutBack, LeaveStep, Gosched, Finish, LeaveBlocking, Step,
                        TypeOK, Awake
    <3> QED
      BY <1>2, <3>1
  <2>2. CASE \E t \in Tasks : Go(w, t)
    <3>1. pc'[w] \in Awake
      BY <2>2 DEF Go, CreateTask, Awake
    <3> QED
      BY <1>2, <3>1
  <2>3. CASE EnterBlocking(w) /\ tasks # <<>>
    <3>1. pc'[w] \in Awake
      BY <1>1, <2>3 DEF EnterBlocking, Step, TypeOK, Awake
    <3> QED
      BY <1>2, <3>1
  <2>4. CASE LeaveLoop(w) \/ (EnterBlocking(w) /\ tasks = <<>>)
    BY <2>4 DEF LeaveLoop, EnterBlocking, Step, BlockingLeavesAWorker
  <2>5. CASE SpawnWorker(w)
    <3>1. PICK s \in Spares : /\ pc[s] = "none" /\ pc[w] = "spawning"
                              /\ pc' = [pc EXCEPT ![s] = "pop", ![w] = "blocking"]
      BY <2>5 DEF SpawnWorker
    <3>2. s \in Threads /\ pc'[s] \in Awake
      BY <1>1, <3>1 DEF TypeOK, Threads, Awake
    <3> QED
      BY <1>2, <3>2
  <2> QED
    BY <1>3, <2>1, <2>2, <2>3, <2>4, <2>5 DEF WorkerStep, TaskStep
<1>4. CASE \E t \in Tasks : Submit(t)
  BY <1>4 DEF Submit, CreateTask, BlockingLeavesAWorker
<1>5. CASE StartRuntime
  <2>1. PICK w \in Workers : TRUE
    BY SpawnAssumption
  <2>2. w \in Threads /\ pc'[w] \in Awake
    BY <1>5 DEF StartRuntime, Threads, Awake
  <2> QED
    BY <1>2, <2>2
<1>6. CASE Join
  BY <1>6 DEF Join, BlockingLeavesAWorker, In
<1>7. CASE UNCHANGED vars
  BY <1>7 DEF vars, BlockingLeavesAWorker, In
<1> QED
  BY <1>3, <1>4, <1>5, <1>6, <1>7 DEF Next, MainStep

(* "the runtime spawns a new worker to keep other tasks running"           *)
(* (spawn.rs:4-5, 177-195): while tasks are queued, some thread is neither *)
(* blocked nor gone.                                                       *)
THEOREM BlockingIsCovered == Spec => []BlockingLeavesAWorker
<1>1. Init => BlockingLeavesAWorker
  BY DEF Init, BlockingLeavesAWorker
<1> QED
  BY <1>1, BlockingNext, Invariant, PTL DEF Spec

(* When start_runtime returns, no task is left but to threads that         *)
(* enter_blocking has added (multi.rs:149, spawn.rs:151, 171-175).         *)
THEOREM ReturnsWhenDone == Spec => []ReturnMeansDone
<1>1. IInv /\ BlockingLeavesAWorker => ReturnMeansDone
  <2> SUFFICES ASSUME IInv, BlockingLeavesAWorker, main = "done",
                      NEW t \in Tasks, state[t] = "Runnable"
               PROVE  \E s \in Spares : pc[s] \notin {"none", "exit"}
    BY DEF ReturnMeansDone
  <2>1. TypeOK /\ Places /\ \A w \in Workers : pc[w] = "exit"
    BY OnePlaceMeans DEF IInv, WorkersOutside
  <2>2. CASE t \in Held
    <3>1. PICK w \in Threads : current_task[w] = t /\ t # NoTask
      BY <2>2 DEF Held
    <3> QED
      BY <2>1, <3>1 DEF TypeOK, Holding, Threads
  <2>3. CASE t \in Queued
    <3>1. tasks # <<>>
      BY <2>3, EmptyList DEF Queued
    <3>2. PICK w \in Threads : pc[w] \in Awake
      BY <3>1 DEF BlockingLeavesAWorker, In, Awake
    <3> QED
      BY <2>1, <3>2 DEF Awake, Threads
  <2> QED
    BY <2>1, <2>2, <2>3 DEF Places
<1> QED
  BY <1>1, Invariant, BlockingIsCovered, PTL
=============================================================================
