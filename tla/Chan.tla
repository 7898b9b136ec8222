-------------------------------- MODULE Chan --------------------------------
(***************************************************************************)
(* Channels: Chan<T> of src/src/runtime/channel.rs.  One action is one     *)
(* critical section of the channel's mutex, or one goready of a task that  *)
(* has released it.  Parking and waking are those of ParkContract, which   *)
(* the scheduler implements.                                               *)
(*                                                                         *)
(* A panic leaves a task through task_entry, an extern "C" function, and   *)
(* so aborts the process: nothing happens after one.                       *)
(***************************************************************************)
EXTENDS Integers, Sequences, Functions

CONSTANTS
  Senders, Receivers, Closers,  \* the tasks that call send, recv and close
  Values,                       \* the values sent, each at most once
  BufCaps,                      \* the capacities a channel may be made with
  NoValue

Tasks == Senders \cup Receivers \cup Closers

ASSUME ChanAssumption ==
  /\ BufCaps \subseteq Nat
  /\ NoValue \notin Values

VARIABLES
  buf_cap,        \* ChanInner.buf_cap, 0 for an unbuffered channel
  buf,            \* ChanInner.buf
  sendq,          \* ChanInner.sendq
  recvq,          \* ChanInner.recvq
  delivered,      \* ChanInner.delivered, NoValue where there is no entry
  closed,         \* ChanInner.closed
  at,             \* where each task stands: in its own code, or in a call
  offer,          \* the argument of a task's latest send
  wake_list,      \* the ids a task still has to pass to goready
  received,       \* what recv has returned to each task
  ended,          \* the tasks to which recv has returned None
  status,         \* the task's life, as in ParkContract
  pending_ready   \* GlobalQueue.pending_ready

inner == <<buf, sendq, recvq, delivered, closed>>
calls == <<at, offer, wake_list, received, ended>>
park  == <<status, pending_ready>>
vars  == <<buf_cap, inner, calls, park>>

Places == {"code", "sending", "receiving", "waking", "panicked"}

IdsOf(q) == [i \in DOMAIN q |-> q[i].task]
DataOf(q) == [i \in DOMAIN q |-> q[i].data]

InSendq == Range(IdsOf(sendq))
InRecvq == Range(recvq)

(* The ids that are with a waker: queued, or taken out of a queue and not  *)
(* yet passed to goready.                                                  *)
Armed == InSendq \cup InRecvq \cup UNION {Range(wake_list[t]) : t \in Tasks}

Park == INSTANCE ParkContract WITH armed <- Armed, token <- pending_ready

Aborted == \E t \in Tasks : at[t] = "panicked"

(* The task runs its own code and may call the channel.                    *)
Calling(t) == at[t] = "code" /\ status[t] = "running" /\ ~Aborted

Goto(t, place) == at' = [at EXCEPT ![t] = place]

Panic(t) ==
  /\ Goto(t, "panicked")
  /\ UNCHANGED <<inner, wake_list, received, ended, park>>

(* The call returns once the task has passed these ids to goready.         *)
ReturnWaking(t, ids) ==
  /\ Goto(t, "waking")
  /\ wake_list' = [wake_list EXCEPT ![t] = ids]
  /\ UNCHANGED park

Return(t) ==
  /\ Goto(t, "code")
  /\ UNCHANGED <<wake_list, park>>

Block(t, place) ==
  /\ Goto(t, place)
  /\ Park!Suspend(t)
  /\ UNCHANGED wake_list

-----------------------------------------------------------------------------
(* send, to the point where it returns, parks or panics                    *)

SendClosed(t) == closed /\ Panic(t)

(* Mutant: the value is filed under the sender's id.                       *)
SendToReceiver_WrongKey(t, v) ==
  /\ ~closed
  /\ recvq # <<>>
  /\ recvq' = Tail(recvq)
  /\ delivered' = [delivered EXCEPT ![t] = v]
  /\ ReturnWaking(t, <<Head(recvq)>>)
  /\ UNCHANGED <<buf, sendq, closed>>

SendToReceiver(t, v) ==
  /\ ~closed
  /\ recvq # <<>>
  /\ recvq' = Tail(recvq)
  /\ delivered' = [delivered EXCEPT ![Head(recvq)] = v]
  /\ ReturnWaking(t, <<Head(recvq)>>)
  /\ UNCHANGED <<buf, sendq, closed>>

(* Mutant: one value too many fits the buffer.                             *)
SendToBuffer_OffByOne(t, v) ==
  /\ ~closed
  /\ recvq = <<>>
  /\ Len(buf) <= buf_cap
  /\ buf' = Append(buf, v)
  /\ Return(t)
  /\ UNCHANGED <<sendq, recvq, delivered, closed>>

SendToBuffer(t, v) ==
  /\ ~closed
  /\ recvq = <<>>
  /\ Len(buf) < buf_cap
  /\ buf' = Append(buf, v)
  /\ Return(t)
  /\ UNCHANGED <<sendq, recvq, delivered, closed>>

(* Mutant: the sender jumps the queue.                                     *)
SendBlocks_AtFront(t, v) ==
  /\ ~closed
  /\ recvq = <<>>
  /\ Len(buf) >= buf_cap
  /\ sendq' = <<[task |-> t, data |-> v]>> \o sendq
  /\ Block(t, "sending")
  /\ UNCHANGED <<buf, recvq, delivered, closed>>

SendBlocks(t, v) ==
  /\ ~closed
  /\ recvq = <<>>
  /\ Len(buf) >= buf_cap
  /\ sendq' = Append(sendq, [task |-> t, data |-> v])
  /\ Block(t, "sending")
  /\ UNCHANGED <<buf, recvq, delivered, closed>>

Sent == {offer[t] : t \in Tasks} \cup UNION {Range(received[t]) : t \in Tasks}
          \cup Range(buf) \cup Range(DataOf(sendq)) \cup Range(delivered)

Send(t, v) ==
  /\ Calling(t)
  /\ v \notin Sent
  /\ offer' = [offer EXCEPT ![t] = v]
  /\ UNCHANGED buf_cap
  /\ \/ SendClosed(t)
     \/ /\ SendToReceiver(t, v) \/ SendToBuffer(t, v) \/ SendBlocks(t, v)
        /\ UNCHANGED <<received, ended>>

(* The rest of send after gopark: whoever woke the task, it looks at       *)
(* closed.                                                                 *)
SendResume(t) ==
  /\ at[t] = "sending"
  /\ status[t] = "running"
  /\ ~Aborted
  /\ \/ closed /\ Panic(t)
     \/ ~closed /\ Return(t) /\ UNCHANGED <<inner, received, ended>>
  /\ UNCHANGED <<offer, buf_cap>>

-----------------------------------------------------------------------------
(* recv, likewise                                                          *)

ReceiveNone(t) == ended' = ended \cup {t} /\ UNCHANGED received

Receive(t, v) ==
  /\ received' = [received EXCEPT ![t] = Append(@, v)]
  /\ UNCHANGED ended

(* Mutant: a closed channel gives nothing more, whatever it holds.         *)
RecvClosed_Early(t) ==
  /\ closed
  /\ ReceiveNone(t)
  /\ Return(t)
  /\ UNCHANGED inner

RecvClosed(t) ==
  /\ closed
  /\ sendq = <<>>
  /\ buf = <<>>
  /\ ReceiveNone(t)
  /\ Return(t)
  /\ UNCHANGED inner

(* Mutant: the value of the waiting sender is left out of the buffer.      *)
RecvFromSender_Drops(t) ==
  /\ sendq # <<>>
  /\ sendq' = Tail(sendq)
  /\ IF buf = <<>>
     THEN Receive(t, Head(sendq).data) /\ UNCHANGED buf
     ELSE Receive(t, Head(buf)) /\ buf' = Tail(buf)
  /\ ReturnWaking(t, <<Head(sendq).task>>)
  /\ UNCHANGED <<recvq, delivered, closed>>

(* A waiting sender's value goes to the back of the buffer, unless there   *)
(* is none and the value is taken from the sender.                         *)
RecvFromSender(t) ==
  LET line == Append(buf, Head(sendq).data)
  IN  /\ sendq # <<>>
      /\ sendq' = Tail(sendq)
      /\ IF buf_cap = 0
         THEN Receive(t, Head(sendq).data) /\ UNCHANGED buf
         ELSE Receive(t, Head(line)) /\ buf' = Tail(line)
      /\ ReturnWaking(t, <<Head(sendq).task>>)
      /\ UNCHANGED <<recvq, delivered, closed>>

RecvFromBuffer(t) ==
  /\ sendq = <<>>
  /\ buf # <<>>
  /\ Receive(t, Head(buf))
  /\ buf' = Tail(buf)
  /\ Return(t)
  /\ UNCHANGED <<sendq, recvq, delivered, closed>>

RecvBlocks(t) ==
  /\ ~closed
  /\ sendq = <<>>
  /\ buf = <<>>
  /\ recvq' = Append(recvq, t)
  /\ Block(t, "receiving")
  /\ UNCHANGED <<buf, sendq, delivered, closed, received, ended>>

(* Bound: a task that got None does not call recv again.                   *)
Recv(t) ==
  /\ Calling(t)
  /\ t \notin ended
  /\ RecvClosed(t) \/ RecvFromSender(t) \/ RecvFromBuffer(t) \/ RecvBlocks(t)
  /\ UNCHANGED <<offer, buf_cap>>

(* Mutant: recv takes it for granted that a value was delivered.           *)
RecvResume_Unwrap(t) ==
  /\ at[t] = "receiving"
  /\ status[t] = "running"
  /\ ~Aborted
  /\ Receive(t, delivered[t])
  /\ delivered' = [delivered EXCEPT ![t] = NoValue]
  /\ Return(t)
  /\ UNCHANGED <<buf_cap, buf, sendq, recvq, closed, offer>>

(* The rest of recv after gopark: take what was delivered, if anything.    *)
RecvResume(t) ==
  /\ at[t] = "receiving"
  /\ status[t] = "running"
  /\ ~Aborted
  /\ IF delivered[t] = NoValue THEN ReceiveNone(t) ELSE Receive(t, delivered[t])
  /\ delivered' = [delivered EXCEPT ![t] = NoValue]
  /\ Return(t)
  /\ UNCHANGED <<buf_cap, buf, sendq, recvq, closed, offer>>

-----------------------------------------------------------------------------

(* Mutant: close wakes the receivers only.                                 *)
Close_ReceiversOnly(t) ==
  /\ Calling(t)
  /\ \/ closed /\ Panic(t)
     \/ /\ ~closed
        /\ closed' = TRUE
        /\ recvq' = <<>>
        /\ sendq' = <<>>
        /\ ReturnWaking(t, recvq)
        /\ UNCHANGED <<buf, delivered, received, ended>>
  /\ UNCHANGED <<offer, buf_cap>>

(* Mutant: close reads the queues but does not empty them.                 *)
Close_NoDrain(t) ==
  /\ Calling(t)
  /\ \/ closed /\ Panic(t)
     \/ /\ ~closed
        /\ closed' = TRUE
        /\ ReturnWaking(t, recvq \o IdsOf(sendq))
        /\ UNCHANGED <<buf, sendq, recvq, delivered, received, ended>>
  /\ UNCHANGED <<offer, buf_cap>>

(* close empties both queues under the mutex and wakes everyone after.     *)
Close(t) ==
  /\ Calling(t)
  /\ \/ closed /\ Panic(t)
     \/ /\ ~closed
        /\ closed' = TRUE
        /\ recvq' = <<>>
        /\ sendq' = <<>>
        /\ ReturnWaking(t, recvq \o IdsOf(sendq))
        /\ UNCHANGED <<buf, delivered, received, ended>>
  /\ UNCHANGED <<offer, buf_cap>>

(* goready of the next id of the wake list; after the last the call        *)
(* returns.                                                                *)
WakeNext(t) ==
  /\ at[t] = "waking"
  /\ ~Aborted
  /\ \/ /\ wake_list[t] # <<>>
        /\ Park!Wake(Head(wake_list[t]))
        /\ wake_list' = [wake_list EXCEPT ![t] = Tail(@)]
        /\ UNCHANGED at
     \/ /\ wake_list[t] = <<>>
        /\ Return(t)
  /\ UNCHANGED <<buf_cap, inner, offer, received, ended>>

(* The scheduler: a woken task gets a worker, a parking one settles.       *)
Schedule(t) ==
  /\ ~Aborted
  /\ UNCHANGED <<buf_cap, inner, calls>>
  /\ Park!Run(t) \/ Park!Settle(t)

-----------------------------------------------------------------------------

Init ==
  /\ buf_cap \in BufCaps
  /\ buf = <<>>
  /\ sendq = <<>>
  /\ recvq = <<>>
  /\ delivered = [t \in Tasks |-> NoValue]
  /\ closed = FALSE
  /\ at = [t \in Tasks |-> "code"]
  /\ offer = [t \in Tasks |-> NoValue]
  /\ wake_list = [t \in Tasks |-> <<>>]
  /\ received = [t \in Tasks |-> <<>>]
  /\ ended = {}
  /\ status = [t \in Tasks |-> "runnable"]
  /\ pending_ready = {}

(* Steps a task takes without deciding anything.                           *)
Continue(t) == Schedule(t) \/ SendResume(t) \/ RecvResume(t) \/ WakeNext(t)

Call ==
  \/ \E t \in Senders, v \in Values : Send(t, v)
  \/ \E t \in Receivers : Recv(t)
  \/ \E t \in Closers : Close(t)

Next == Call \/ \E t \in Tasks : Continue(t)

Spec == Init /\ [][Next]_vars

(* A runnable task gets a worker (Scheduler!RunnableRuns) and a running    *)
(* one goes on; whether it ever calls the channel is up to the program.    *)
FairSpec == Spec /\ \A t \in Tasks : WF_vars(Continue(t))

-----------------------------------------------------------------------------
(* Properties                                                              *)

TypeOK ==
  /\ buf_cap \in BufCaps
  /\ buf \in Seq(Values)
  /\ sendq \in Seq([task : Tasks, data : Values])
  /\ recvq \in Seq(Tasks)
  /\ delivered \in [Tasks -> Values \cup {NoValue}]
  /\ closed \in BOOLEAN
  /\ at \in [Tasks -> Places]
  /\ offer \in [Tasks -> Values \cup {NoValue}]
  /\ wake_list \in [Tasks -> Seq(Tasks)]
  /\ received \in [Tasks -> Seq(Values)]
  /\ ended \in SUBSET Tasks
  /\ status \in [Tasks -> Park!Status]
  /\ pending_ready \in SUBSET Tasks

(* Senders and receivers never wait at the same time; a sender waits only  *)
(* for a full buffer and a receiver only for an empty one; after close     *)
(* nobody waits.  Each branch of send and recv tests one queue and relies  *)
(* on this for the others (channel.rs:711-727, 752-783).                   *)
QueuesAgree ==
  /\ Len(buf) <= buf_cap
  /\ recvq # <<>> => sendq = <<>> /\ buf = <<>>
  /\ sendq # <<>> => Len(buf) = buf_cap
  /\ closed => sendq = <<>> /\ recvq = <<>>

(* Nobody is woken for nothing: a receiver that left the recvq has a value *)
(* delivered or the channel is closed, so None is never returned from an   *)
(* open channel (channel.rs:788-792); and a sender that left the sendq has *)
(* handed its value on, or was thrown out by close.                        *)
EveryWakeHasAReason ==
  \A t \in Tasks :
    /\ at[t] = "receiving" /\ t \notin InRecvq => delivered[t] # NoValue \/ closed
    /\ delivered[t] # NoValue => at[t] = "receiving" /\ t \notin InRecvq
    /\ at[t] = "sending" /\ t \notin InSendq =>
         closed \/ offer[t] \in Range(buf) \cup Range(delivered)
                      \cup UNION {Range(received[r]) : r \in Tasks}

(* None is the end: once recv has returned it, the channel is closed and   *)
(* no value is left in it for anyone (channel.rs:742-751, 776-778).        *)
NoneIsTheEnd == ended # {} => closed /\ buf = <<>> /\ sendq = <<>>

(* The channel is one first-in first-out queue: buf followed by the values *)
(* of the blocked senders, received when it is delivered.                  *)
Fifo == INSTANCE FifoChannel
          WITH chan <- buf \o DataOf(sendq),
               got  <- [r \in Receivers |->
                          IF delivered[r] = NoValue THEN received[r]
                          ELSE Append(received[r], delivered[r])],
               open <- ~closed,
               cap  <- buf_cap

ImplementsFifo == Fifo!Spec

(* The channel's side of the parking contract: each goready wakes a task   *)
(* that has published its id and has not been woken since, and no id is    *)
(* dropped (channel.rs:697-825).                                           *)
KeepsParkContract == Park!Spec

(* A task that has been taken off its queue returns from its call.         *)
TakenOffReturns ==
  \A t \in Tasks :
    (at[t] \in {"sending", "receiving"} /\ t \notin InSendq \cup InRecvq)
      ~> (at[t] = "code" \/ Aborted)

(* A value that send has accepted is received, whatever send, recv and     *)
(* close do meanwhile, if the receivers keep calling recv until they get   *)
(* None, as the consumer of channel_demo.rs:44-55 does.                    *)
KeepReceiving == \A r \in Receivers : WF_vars(Recv(r))

EveryValueArrives ==
  KeepReceiving =>
    \A v \in Values :
      v \in Range(buf) \cup Range(DataOf(sendq)) \cup Range(delivered)
        ~> (Aborted \/ \E r \in Receivers : v \in Range(received[r]))

(* "Woken up by close" (channel.rs:730) is what the second test of closed  *)
(* means: a send that panics after it has waited was thrown out by close,  *)
(* and its value has not reached anyone.                                   *)
PanicMeansNotSent ==
  \A t \in Tasks :
    at[t] = "panicked" =>
      \A r \in Tasks : offer[t] \notin Range(received[r])
=============================================================================
