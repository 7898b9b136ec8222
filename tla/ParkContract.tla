---------------------------- MODULE ParkContract ----------------------------
(***************************************************************************)
(* What gopark and goready promise the code built on them (channels, wait  *)
(* groups, timers), free of workers, queues and locks.                     *)
(*                                                                         *)
(* A task that must wait first leaves its id where a waker will find it    *)
(* (a recvq, a timer heap, a list of waiters) and then calls gopark.  The  *)
(* waker takes the id out and calls goready, possibly before the task has  *)
(* finished parking.  The contract: that one call is never lost and never  *)
(* counted twice.                                                          *)
(*                                                                         *)
(* Scheduler implements the contract.  Chan and WaitGroup run on top of it *)
(* and keep their side of it: each goready they make was owed.             *)
(***************************************************************************)
EXTENDS TLAPS

CONSTANT Tasks

VARIABLES
  status,   \* where each task is in its life
  armed,    \* tasks whose id is published and not yet passed to goready
  token     \* tasks that were made ready before they had finished parking

vars == <<status, armed, token>>

Status == {"new", "runnable", "running", "parking", "waiting", "dead"}

TypeOK ==
  /\ status \in [Tasks -> Status]
  /\ armed \in SUBSET Tasks
  /\ token \in SUBSET Tasks

Init ==
  /\ status \in [Tasks -> {"new", "runnable"}]
  /\ armed = {}
  /\ token = {}

Move(t, from, to) ==
  /\ status[t] = from
  /\ status' = [status EXCEPT ![t] = to]

Spawn(t)  == Move(t, "new", "runnable") /\ UNCHANGED <<armed, token>>

Run(t)    == Move(t, "runnable", "running") /\ UNCHANGED <<armed, token>>

Yield(t)  == Move(t, "running", "runnable") /\ UNCHANGED <<armed, token>>

Finish(t) == Move(t, "running", "dead") /\ UNCHANGED <<armed, token>>

(* The task is committed to calling gopark.                                *)
Suspend(t) == Move(t, "running", "parking") /\ UNCHANGED token

(* Parking completes: the task waits, unless it has been made ready.       *)
Settle(t) ==
  /\ UNCHANGED armed
  /\ \/ /\ t \notin token
        /\ Move(t, "parking", "waiting")
        /\ UNCHANGED token
     \/ /\ t \in token
        /\ Move(t, "parking", "runnable")
        /\ token' = token \ {t}

(* goready(t), whoever calls it and for whatever reason.                   *)
Wake(t) ==
  \/ Move(t, "waiting", "runnable") /\ UNCHANGED token
  \/ /\ status[t] # "waiting"
     /\ token' = token \cup {t}
     /\ UNCHANGED status

(* The two halves of the clients' protocol: publish an id and park; take   *)
(* one published id and make that task ready.                              *)
Publish(t) == Suspend(t) /\ armed' = armed \cup {t}

Ready(t) ==
  /\ t \in armed
  /\ armed' = armed \ {t}
  /\ Wake(t)

Next ==
  \E t \in Tasks :
    \/ Spawn(t) \/ Run(t) \/ Yield(t) \/ Finish(t)
    \/ Publish(t) \/ Settle(t) \/ Ready(t)

Spec == Init /\ [][Next]_vars

-----------------------------------------------------------------------------

(* Exactly one wake is outstanding for every task that is on its way to    *)
(* sleep, and none for any other task: a waiting task can still be woken   *)
(* and no task carries a stale wake into its next gopark                   *)
(* (channel.rs:82-86, 272-296).                                            *)
OneWakeEach ==
  /\ armed \cap token = {}
  /\ \A t \in Tasks :
       /\ (t \in armed \cup token) <=> (status[t] \in {"parking", "waiting"})
       /\ t \in token => status[t] = "parking"

-----------------------------------------------------------------------------
(* The contract keeps its promise, for any tasks.                          *)

IInv == TypeOK /\ OneWakeEach

(* A step that moves only t and publishes or passes on no wake.            *)
LEMMA PlainMove ==
  ASSUME IInv, NEW t \in Tasks,
         NEW from \in {"new", "runnable", "running"},
         NEW to \in {"runnable", "running", "dead"},
         Move(t, from, to), UNCHANGED <<armed, token>>
  PROVE  IInv'
BY DEF IInv, TypeOK, OneWakeEach, Move, Status

LEMMA NextInv == IInv /\ [Next]_vars => IInv'
<1> SUFFICES ASSUME IInv, [Next]_vars PROVE IInv'
  OBVIOUS
<1> USE DEF IInv, TypeOK, OneWakeEach, Move, Status
<1>1. ASSUME NEW t \in Tasks, Spawn(t) \/ Run(t) \/ Yield(t) \/ Finish(t) PROVE IInv'
  BY <1>1, PlainMove DEF Spawn, Run, Yield, Finish
<1>2. ASSUME NEW t \in Tasks, Publish(t) PROVE IInv'
  BY <1>2 DEF Publish, Suspend
<1>3. ASSUME NEW t \in Tasks, Settle(t) PROVE IInv'
  BY <1>3 DEF Settle
<1>4. ASSUME NEW t \in Tasks, Ready(t) PROVE IInv'
  BY <1>4 DEF Ready, Wake
<1>5. CASE UNCHANGED vars
  BY <1>5 DEF vars
<1> QED
  BY <1>1, <1>2, <1>3, <1>4, <1>5 DEF Next

(* Whoever implements the contract loses no wake and counts none twice     *)
(* (channel.rs:82-86, 272-296).                                            *)
THEOREM ContractKeepsWakes == Spec => []OneWakeEach
<1>1. Init => IInv
  BY DEF Init, IInv, TypeOK, OneWakeEach, Status
<1>2. IInv => OneWakeEach
  BY DEF IInv
<1> QED
  BY <1>1, <1>2, NextInv, PTL DEF Spec
=============================================================================
