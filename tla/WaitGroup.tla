------------------------------ MODULE WaitGroup -----------------------------
(***************************************************************************)
(* WaitGroup of src/src/sync.rs, on the gopark and goready of timer.rs.    *)
(* One action is one critical section of the group's mutex, or one goready *)
(* of a task that has released it.  A panic aborts the process, as in      *)
(* Chan.                                                                   *)
(***************************************************************************)
EXTENDS Integers, Sequences, Functions

CONSTANTS
  Adders,          \* the tasks that call add and done
  Waiters,         \* the tasks that call wait
  Deltas,          \* the arguments of add; done is add(-1)
  MaxInt           \* i32::MAX

Tasks == Adders \cup Waiters

ASSUME WaitGroupAssumption ==
  /\ MaxInt \in Nat
  /\ Deltas \subseteq -MaxInt - 1 .. MaxInt

VARIABLES
  counter,         \* WaitGroupInner.counter
  waiters,         \* WaitGroupInner.waiters
  at,              \* where each task stands: in its own code, or in a call
  wake_list,       \* the ids a task still has to pass to goready
  status,          \* the task's life, as in ParkContract
  pre_ready,       \* GlobalQueue.pre_ready
  total,           \* history: the sum of all deltas, as an integer
  released         \* history: the tasks in wait that have seen the counter zero

vars == <<counter, waiters, at, wake_list, status, pre_ready, total, released>>

(* The ids that are with a waker.                                          *)
Armed == Range(waiters) \cup UNION {Range(wake_list[t]) : t \in Tasks}

Park == INSTANCE ParkContract WITH armed <- Armed, token <- pre_ready

Aborted == \E t \in Tasks : at[t] = "panicked"

Calling(t) == at[t] = "code" /\ status[t] = "running" /\ ~Aborted

Goto(t, place) == at' = [at EXCEPT ![t] = place]

(* Mutants: the sum does not wrap; it is cut off at i32::MAX.              *)
Wrap_Never(x) == x

Wrap_Saturates(x) == IF x > MaxInt THEN MaxInt ELSE x

(* The sum of two i32, as a release build computes it; a debug build       *)
(* panics where this one wraps.                                            *)
Wrap(x) ==
  CASE x > MaxInt      -> x - 2 * (MaxInt + 1)
    [] x < -MaxInt - 1 -> x + 2 * (MaxInt + 1)
    [] OTHER           -> x

(* Mutant: the waiters are woken but stay registered.                      *)
Add_NotTaken(t, delta) ==
  LET sum == Wrap(counter + delta)
  IN  /\ Calling(t)
      /\ counter' = sum
      /\ total' = total + delta
      /\ \/ sum < 0 /\ Goto(t, "panicked") /\ UNCHANGED wake_list
         \/ /\ sum = 0
            /\ wake_list' = [wake_list EXCEPT ![t] = waiters]
            /\ Goto(t, "waking")
         \/ sum > 0 /\ Goto(t, "waking") /\ UNCHANGED wake_list
      /\ released' = IF sum = 0 THEN released \cup Range(waiters) ELSE released
      /\ UNCHANGED <<waiters, status, pre_ready>>

(* Mutant: the waiters are woken whenever the counter changes.             *)
Add_WakesAlways(t, delta) ==
  LET sum == Wrap(counter + delta)
  IN  /\ Calling(t)
      /\ counter' = sum
      /\ total' = total + delta
      /\ \/ sum < 0 /\ Goto(t, "panicked") /\ UNCHANGED <<wake_list, waiters>>
         \/ /\ sum >= 0
            /\ wake_list' = [wake_list EXCEPT ![t] = waiters]
            /\ waiters' = <<>>
            /\ Goto(t, "waking")
      /\ released' = IF sum = 0 THEN released \cup Range(waiters) ELSE released
      /\ UNCHANGED <<status, pre_ready>>

(* Mutant: the counter is tested before the addition, not after it.        *)
Add_TestsBefore(t, delta) ==
  LET sum == Wrap(counter + delta)
  IN  /\ Calling(t)
      /\ counter' = sum
      /\ total' = total + delta
      /\ \/ sum < 0 /\ Goto(t, "panicked") /\ UNCHANGED <<waiters, wake_list>>
         \/ /\ sum >= 0 /\ counter = 0
            /\ wake_list' = [wake_list EXCEPT ![t] = waiters]
            /\ waiters' = <<>>
            /\ Goto(t, "waking")
         \/ /\ sum >= 0 /\ counter # 0
            /\ Goto(t, "waking")
            /\ UNCHANGED <<waiters, wake_list>>
      /\ released' = IF sum = 0 THEN released \cup Range(waiters) ELSE released
      /\ UNCHANGED <<status, pre_ready>>

(* add: the sum may be negative, which panics; if it is zero the waiters   *)
(* are taken.                                                              *)
Add(t, delta) ==
  LET sum == Wrap(counter + delta)
  IN  /\ Calling(t)
      /\ counter' = sum
      /\ total' = total + delta
      /\ \/ sum < 0 /\ Goto(t, "panicked") /\ UNCHANGED <<waiters, wake_list>>
         \/ /\ sum = 0
            /\ wake_list' = [wake_list EXCEPT ![t] = waiters]
            /\ waiters' = <<>>
            /\ Goto(t, "waking")
         \/ sum > 0 /\ Goto(t, "waking") /\ UNCHANGED <<waiters, wake_list>>
      /\ released' = IF sum = 0 THEN released \cup Range(waiters) ELSE released
      /\ UNCHANGED <<status, pre_ready>>

(* Mutant: only the first waiter is woken.                                 *)
WakeNext_OnlyOne(t) ==
  /\ at[t] = "waking"
  /\ ~Aborted
  /\ \/ /\ wake_list[t] # <<>>
        /\ Park!Wake(Head(wake_list[t]))
     \/ /\ wake_list[t] = <<>>
        /\ UNCHANGED <<status, pre_ready>>
  /\ wake_list' = [wake_list EXCEPT ![t] = <<>>]
  /\ Goto(t, "code")
  /\ UNCHANGED <<counter, waiters, total, released>>

(* goready of the next id of the wake list; after the last add returns.    *)
WakeNext(t) ==
  /\ at[t] = "waking"
  /\ ~Aborted
  /\ \/ /\ wake_list[t] # <<>>
        /\ Park!Wake(Head(wake_list[t]))
        /\ wake_list' = [wake_list EXCEPT ![t] = Tail(@)]
        /\ UNCHANGED at
     \/ /\ wake_list[t] = <<>>
        /\ Goto(t, "code")
        /\ UNCHANGED <<wake_list, status, pre_ready>>
  /\ UNCHANGED <<counter, waiters, total, released>>

(* wait returns at once, or registers under the mutex and parks after it.  *)
Wait(t) ==
  /\ Calling(t)
  /\ \/ counter = 0 /\ UNCHANGED <<waiters, at, status, pre_ready>>
     \/ /\ counter # 0
        /\ waiters' = Append(waiters, t)
        /\ Goto(t, "waiting")
        /\ Park!Suspend(t)
  /\ UNCHANGED <<counter, wake_list, total, released>>

(* gopark returns, and wait with it.                                       *)
WaitReturns(t) ==
  /\ at[t] = "waiting"
  /\ status[t] = "running"
  /\ ~Aborted
  /\ Goto(t, "code")
  /\ released' = released \ {t}
  /\ UNCHANGED <<counter, waiters, wake_list, status, pre_ready, total>>

(* The scheduler: a woken task gets a worker, a parking one settles.       *)
Schedule(t) ==
  /\ ~Aborted
  /\ UNCHANGED <<counter, waiters, at, wake_list, total, released>>
  /\ Park!Run(t) \/ Park!Settle(t)

Init ==
  /\ counter = 0
  /\ waiters = <<>>
  /\ at = [t \in Tasks |-> "code"]
  /\ wake_list = [t \in Tasks |-> <<>>]
  /\ status = [t \in Tasks |-> "runnable"]
  /\ pre_ready = {}
  /\ total = 0
  /\ released = {}

Continue(t) == Schedule(t) \/ WakeNext(t) \/ WaitReturns(t)

Next ==
  \/ \E t \in Adders, delta \in Deltas : Add(t, delta)
  \/ \E t \in Waiters : Wait(t)
  \/ \E t \in Tasks : Continue(t)

Spec == Init /\ [][Next]_vars

(* A runnable task gets a worker (Scheduler!RunnableRuns) and a running    *)
(* one goes on; what it calls is up to the program.                        *)
FairSpec == Spec /\ \A t \in Tasks : WF_vars(Continue(t))

-----------------------------------------------------------------------------
(* Properties                                                              *)

TypeOK ==
  /\ counter \in -MaxInt - 1 .. MaxInt
  /\ waiters \in Seq(Tasks)
  /\ at \in [Tasks -> {"code", "waking", "waiting", "panicked"}]
  /\ wake_list \in [Tasks -> Seq(Tasks)]
  /\ status \in [Tasks -> Park!Status]
  /\ pre_ready \in SUBSET Tasks
  /\ total \in Int
  /\ released \in SUBSET Tasks

(* Nobody waits for nothing: as long as a task is registered there is work *)
(* outstanding, so the done that ends it will come (sync.rs:77-83, 102-110)*)
NobodyLeftBehind == waiters # <<>> /\ ~Aborted => counter > 0

(* wait returns only after the counter has been zero while the task was    *)
(* registered, though it does not look again after gopark                  *)
(* (sync.rs:98-114).                                                       *)
WakeMeansZero ==
  \A t \in Tasks :
    at[t] = "waiting" /\ t \notin Range(waiters) => t \in released

(* The counter never wraps unnoticed: it is the sum of all the deltas or   *)
(* the program has panicked, in a debug build and in a release build alike *)
(* (sync.rs:71-75).                                                        *)
CounterIsTheSum == counter = total \/ Aborted

(* The group's side of the parking contract: each goready wakes a task     *)
(* that has registered and has not been woken since (sync.rs:77-90).       *)
KeepsParkContract == Park!Spec

(* A task taken off the waiters returns from wait.                         *)
TakenOffReturns ==
  \A t \in Tasks :
    (at[t] = "waiting" /\ t \notin Range(waiters)) ~> (at[t] = "code" \/ Aborted)
=============================================================================
