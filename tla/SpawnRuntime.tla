---------------------------- MODULE SpawnRuntime ----------------------------
(***************************************************************************)
(* The three runtimes without gopark: green.rs (one worker, the caller     *)
(* itself), multi.rs (several workers, one queue) and spawn.rs, which adds *)
(* a worker when a task is about to block.  A worker leaves its loop as    *)
(* soon as it finds the queue empty.                                       *)
(*                                                                         *)
(* One action is one critical section of the queue, or one step of a task  *)
(* between two of them.                                                    *)
(***************************************************************************)
EXTENDS Naturals, Sequences, FiniteSets

CONSTANTS
  Tasks,       \* the tasks a behaviour may create
  Submitted,   \* those that main creates before start_runtime
  Workers,     \* the threads of start_runtime
  Spares,      \* the threads spawn_worker may add (bounds their number)
  NoTask       \* an empty current_task

Threads == Workers \cup Spares

ASSUME SpawnAssumption ==
  /\ Submitted \subseteq Tasks
  /\ Workers # {}
  /\ Workers \cap Spares = {}
  /\ NoTask \notin Tasks

VARIABLES
  tasks,         \* GlobalQueue.tasks
  current_task,  \* Worker.current_task of each thread
  state,         \* Task.state, "New" before the task is created
  pc,            \* where each thread stands
  main           \* where the main thread stands

vars == <<tasks, current_task, state, pc, main>>

Holding == {"run", "spawning", "blocking", "switched"}

In(S) == {w \in Threads : pc[w] \in S}

(* A step of one thread that leaves the tasks alone.                       *)
Step(w, from, to) ==
  /\ pc[w] = from
  /\ pc' = [pc EXCEPT ![w] = to]
  /\ UNCHANGED <<tasks, current_task, state, main>>

-----------------------------------------------------------------------------
(* worker_loop                                                             *)

Pop(w) ==
  /\ pc[w] = "pop"
  /\ tasks # <<>>
  /\ tasks' = Tail(tasks)
  /\ current_task' = [current_task EXCEPT ![w] = Head(tasks)]
  /\ pc' = [pc EXCEPT ![w] = "run"]
  /\ UNCHANGED <<state, main>>

LeaveLoop(w) == tasks = <<>> /\ Step(w, "pop", "exit")

(* Mutants: the worker does not let go of the task; a finished task is put *)
(* back, too; a task that yielded is not.                                  *)
PutBack_NotTaken(w) ==
  LET t == current_task[w]
  IN  /\ pc[w] = "switched"
      /\ tasks' = IF state[t] = "Dead" THEN tasks ELSE Append(tasks, t)
      /\ pc' = [pc EXCEPT ![w] = "pop"]
      /\ UNCHANGED <<current_task, state, main>>

PutBack_DeadToo(w) ==
  /\ pc[w] = "switched"
  /\ tasks' = Append(tasks, current_task[w])
  /\ current_task' = [current_task EXCEPT ![w] = NoTask]
  /\ pc' = [pc EXCEPT ![w] = "pop"]
  /\ UNCHANGED <<state, main>>

PutBack_Never(w) ==
  /\ pc[w] = "switched"
  /\ current_task' = [current_task EXCEPT ![w] = NoTask]
  /\ pc' = [pc EXCEPT ![w] = "pop"]
  /\ UNCHANGED <<tasks, state, main>>

(* The task that switched out is put back, or dropped if it has finished.  *)
PutBack(w) ==
  LET t == current_task[w]
  IN  /\ pc[w] = "switched"
      /\ tasks' = IF state[t] = "Dead" THEN tasks ELSE Append(tasks, t)
      /\ current_task' = [current_task EXCEPT ![w] = NoTask]
      /\ pc' = [pc EXCEPT ![w] = "pop"]
      /\ UNCHANGED <<state, main>>

-----------------------------------------------------------------------------
(* What a running task may do                                              *)

Gosched(w) == Step(w, "run", "switched")

(* task_finished                                                           *)
Finish(w) ==
  /\ pc[w] = "run"
  /\ state' = [state EXCEPT ![current_task[w]] = "Dead"]
  /\ pc' = [pc EXCEPT ![w] = "switched"]
  /\ UNCHANGED <<tasks, current_task, main>>

CreateTask(t) ==
  /\ state[t] = "New"
  /\ state' = [state EXCEPT ![t] = "Runnable"]
  /\ tasks' = Append(tasks, t)
  /\ UNCHANGED <<current_task, pc, main>>

Go(w, t) == pc[w] = "run" /\ t \notin Submitted /\ CreateTask(t)

(* Mutant: no worker is ever added.                                        *)
EnterBlocking_NoSpawn(w) == Step(w, "run", "blocking")

(* enter_blocking looks at the queue, releases it, and then spawns.        *)
EnterBlocking(w) ==
  \/ tasks = <<>> /\ Step(w, "run", "blocking")
  \/ /\ tasks # <<>>
     /\ Cardinality(In({"spawning"})) < Cardinality(In({"none"}))
     /\ Step(w, "run", "spawning")

SpawnWorker(w) ==
  /\ pc[w] = "spawning"
  /\ \E s \in Spares :
       /\ pc[s] = "none"
       /\ pc' = [pc EXCEPT ![s] = "pop", ![w] = "blocking"]
  /\ UNCHANGED <<tasks, current_task, state, main>>

(* The blocking system call returns to the task.                           *)
LeaveBlocking(w) == Step(w, "blocking", "run")

-----------------------------------------------------------------------------
(* The main thread                                                         *)

Submit(t) == main = "submit" /\ t \in Submitted /\ CreateTask(t)

StartRuntime ==
  /\ main = "submit"
  /\ \A t \in Submitted : state[t] # "New"
  /\ main' = "join"
  /\ pc' = [w \in Threads |-> IF w \in Workers THEN "pop" ELSE pc[w]]
  /\ UNCHANGED <<tasks, current_task, state>>

(* Mutant: main waits for one of the threads only.                         *)
Join_One ==
  /\ main = "join"
  /\ \E w \in Workers : pc[w] = "exit"
  /\ main' = "done"
  /\ UNCHANGED <<tasks, current_task, state, pc>>

(* start_runtime returns once the threads it started have been joined.     *)
Join ==
  /\ main = "join"
  /\ \A w \in Workers : pc[w] = "exit"
  /\ main' = "done"
  /\ UNCHANGED <<tasks, current_task, state, pc>>

-----------------------------------------------------------------------------

Init ==
  /\ tasks = <<>>
  /\ current_task = [w \in Threads |-> NoTask]
  /\ state = [t \in Tasks |-> "New"]
  /\ pc = [w \in Threads |-> "none"]
  /\ main = "submit"

WorkerStep(w) ==
  \/ Pop(w) \/ LeaveLoop(w) \/ PutBack(w)
  \/ SpawnWorker(w) \/ LeaveBlocking(w)

LeaveStep(w) == Gosched(w) \/ Finish(w)

TaskStep(w) == LeaveStep(w) \/ EnterBlocking(w) \/ \E t \in Tasks : Go(w, t)

MainStep == StartRuntime \/ Join \/ \E t \in Tasks : Submit(t)

Next == MainStep \/ \E w \in Threads : WorkerStep(w) \/ TaskStep(w)

Spec == Init /\ [][Next]_vars

(* Threads are scheduled and blocking calls return; no task keeps its      *)
(* worker for ever, and none is scheduled for ever without finishing.      *)
FairSpec ==
  /\ Spec
  /\ WF_vars(MainStep)
  /\ \A w \in Threads : WF_vars(WorkerStep(w)) /\ SF_vars(LeaveStep(w))
  /\ \A t \in Tasks :
       SF_vars(\E w \in Threads : current_task[w] = t /\ Finish(w))
-----------------------------------------------------------------------------
(* Properties                                                              *)

Held == {current_task[w] : w \in Threads} \ {NoTask}

TypeOK ==
  /\ tasks \in Seq(Tasks)
  /\ current_task \in [Threads -> Tasks \cup {NoTask}]
  /\ state \in [Tasks -> {"New", "Runnable", "Dead"}]
  /\ pc \in [Threads -> Holding \cup {"none", "pop", "exit"}]
  /\ main \in {"submit", "join", "done"}
  /\ \A w \in Threads : pc[w] \in Holding <=> current_task[w] # NoTask

(* A live task is queued once or on one worker, never both and never       *)
(* neither; a finished one is in no queue (spawn.rs:75-106).               *)
OnePlace ==
  /\ \A i, j \in DOMAIN tasks : tasks[i] = tasks[j] => i = j
  /\ \A v, w \in Threads :
       current_task[v] = current_task[w] /\ current_task[v] # NoTask => v = w
  /\ \A i \in DOMAIN tasks :
       state[tasks[i]] = "Runnable" /\ tasks[i] \notin Held
  /\ \A t \in Tasks :
       state[t] = "Runnable" => t \in Held \/ \E i \in DOMAIN tasks : tasks[i] = t

(* "Start the runtime and run until all tasks complete" (multi.rs:149,     *)
(* spawn.rs:151): when start_runtime returns no task is left, although     *)
(* workers leave as soon as the queue is empty for a moment.  In spawn.rs  *)
(* the workers added by enter_blocking are detached, and a task may be     *)
(* left to one of them (spawn.rs:113-126, 171-175).                        *)
ReturnMeansDone ==
  main = "done" /\ (\E t \in Tasks : state[t] = "Runnable") =>
    \E s \in Spares : pc[s] \notin {"none", "exit"}

(* "the runtime spawns a new worker to keep other tasks running"           *)
(* (spawn.rs:4-5): while tasks are queued, not every worker is blocked.    *)
BlockingLeavesAWorker ==
  main # "submit" /\ tasks # <<>> =>
    In({"pop", "run", "spawning", "switched"}) # {}

(* Every task that is created finishes.                                    *)
EveryTaskFinishes == \A t \in Tasks : state[t] = "Runnable" ~> state[t] = "Dead"
=============================================================================
