----------------------------- MODULE ChanProofs -----------------------------
(***************************************************************************)
(* Channels, for any tasks, values and capacities: the queues agree, each  *)
(* goready is owed, each wake has a reason, None is the end, and a channel *)
(* implements a first-in first-out queue.                                  *)
(***************************************************************************)
EXTENDS Chan, SeqLemmas, TLAPS

SendWaiter == [task : Tasks, data : Values]

-----------------------------------------------------------------------------
(* The two columns of sendq.                                               *)

LEMMA SendqColumns ==
  ASSUME NEW q \in Seq(SendWaiter)
  PROVE  /\ IdsOf(q) \in Seq(Tasks) /\ Len(IdsOf(q)) = Len(q)
         /\ DataOf(q) \in Seq(Values) /\ Len(DataOf(q)) = Len(q)
         /\ DOMAIN q = 1 .. Len(q)
         /\ \A i \in DOMAIN q : /\ q[i] \in SendWaiter
                                /\ IdsOf(q)[i] = q[i].task
                                /\ DataOf(q)[i] = q[i].data
<1>1. Len(q) \in Nat /\ DOMAIN q = 1 .. Len(q) /\ \A i \in DOMAIN q : q[i] \in SendWaiter
  OBVIOUS
<1>2. /\ IdsOf(q) \in [1 .. Len(q) -> Tasks]
      /\ DataOf(q) \in [1 .. Len(q) -> Values]
  BY <1>1 DEF IdsOf, DataOf, SendWaiter
<1>3. IdsOf(q) \in Seq(Tasks) /\ DataOf(q) \in Seq(Values)
  BY <1>1, <1>2, SeqDef
<1>4. Len(IdsOf(q)) = Len(q) /\ Len(DataOf(q)) = Len(q)
  BY <1>1, <1>2, <1>3
<1> QED
  BY <1>1, <1>3, <1>4 DEF IdsOf, DataOf

LEMMA SendqEmpty == IdsOf(<<>>) = <<>> /\ DataOf(<<>>) = <<>>
BY DEF IdsOf, DataOf

LEMMA SendqAppend ==
  ASSUME NEW q \in Seq(SendWaiter), NEW t \in Tasks, NEW v \in Values
  PROVE  LET u == Append(q, [task |-> t, data |-> v])
         IN  /\ u \in Seq(SendWaiter)
             /\ IdsOf(u) = Append(IdsOf(q), t)
             /\ DataOf(u) = Append(DataOf(q), v)
<1> DEFINE w == [task |-> t, data |-> v]
           u == Append(q, w)
<1>1. w \in SendWaiter /\ w.task = t /\ w.data = v
  BY DEF SendWaiter
<1> HIDE DEF w
<1>2. /\ u \in Seq(SendWaiter)
      /\ Len(u) = Len(q) + 1
      /\ \A i \in 1 .. Len(q) : u[i] = q[i]
      /\ u[Len(q) + 1] = w
      /\ Len(q) \in Nat
  BY <1>1
<1> HIDE DEF u
<1>3. IdsOf(u) = Append(IdsOf(q), t)
  <2>1. /\ IdsOf(u) \in Seq(Tasks)
        /\ Append(IdsOf(q), t) \in Seq(Tasks)
        /\ Len(IdsOf(u)) = Len(q) + 1
        /\ Len(Append(IdsOf(q), t)) = Len(q) + 1
    BY <1>2, SendqColumns
  <2>2. \A i \in 1 .. Len(q) + 1 : IdsOf(u)[i] = Append(IdsOf(q), t)[i]
    BY <1>1, <1>2, SendqColumns
  <2> QED
    BY <2>1, <2>2, SeqEqual
<1>4. DataOf(u) = Append(DataOf(q), v)
  <2>1. /\ DataOf(u) \in Seq(Values)
        /\ Append(DataOf(q), v) \in Seq(Values)
        /\ Len(DataOf(u)) = Len(q) + 1
        /\ Len(Append(DataOf(q), v)) = Len(q) + 1
    BY <1>2, SendqColumns
  <2>2. \A i \in 1 .. Len(q) + 1 : DataOf(u)[i] = Append(DataOf(q), v)[i]
    BY <1>1, <1>2, SendqColumns
  <2> QED
    BY <2>1, <2>2, SeqEqual
<1> QED
  BY <1>2, <1>3, <1>4 DEF u, w

LEMMA SendqTail ==
  ASSUME NEW q \in Seq(SendWaiter), q # <<>>
  PROVE  /\ Tail(q) \in Seq(SendWaiter)
         /\ Head(q) \in SendWaiter
         /\ IdsOf(Tail(q)) = Tail(IdsOf(q)) /\ IdsOf(q) # <<>>
         /\ DataOf(Tail(q)) = Tail(DataOf(q)) /\ DataOf(q) # <<>>
         /\ Head(IdsOf(q)) = Head(q).task
         /\ Head(DataOf(q)) = Head(q).data
<1> DEFINE u == Tail(q)
<1>1. /\ u \in Seq(SendWaiter)
      /\ Len(q) \in Nat \ {0}
      /\ Len(u) = Len(q) - 1
      /\ \A i \in 1 .. Len(q) - 1 : u[i] = q[i + 1]
      /\ Head(q) = q[1]
      /\ 1 \in DOMAIN q
  OBVIOUS
<1> HIDE DEF u
<1>2. /\ IdsOf(q) \in Seq(Tasks) /\ Len(IdsOf(q)) = Len(q) /\ IdsOf(q) # <<>>
      /\ DataOf(q) \in Seq(Values) /\ Len(DataOf(q)) = Len(q) /\ DataOf(q) # <<>>
      /\ q[1] \in SendWaiter /\ IdsOf(q)[1] = q[1].task /\ DataOf(q)[1] = q[1].data
  BY <1>1, SendqColumns
<1>3. Head(IdsOf(q)) = q[1].task /\ Head(DataOf(q)) = q[1].data
  BY <1>2
<1>4. IdsOf(u) = Tail(IdsOf(q))
  <2>1. /\ IdsOf(u) \in Seq(Tasks)
        /\ Tail(IdsOf(q)) \in Seq(Tasks)
        /\ Len(IdsOf(u)) = Len(q) - 1
        /\ Len(Tail(IdsOf(q))) = Len(q) - 1
    BY <1>1, <1>2, SendqColumns
  <2>2. ASSUME NEW i \in 1 .. Len(q) - 1 PROVE IdsOf(u)[i] = Tail(IdsOf(q))[i]
    <3>1. i \in DOMAIN u /\ i + 1 \in DOMAIN q /\ u[i] = q[i + 1]
      BY <1>1
    <3>2. Tail(IdsOf(q))[i] = IdsOf(q)[i + 1]
      BY <1>1, <1>2
    <3> QED
      BY <1>1, <3>1, <3>2, SendqColumns
  <2> QED
    BY <2>1, <2>2, SeqEqual
<1>5. DataOf(u) = Tail(DataOf(q))
  <2>1. /\ DataOf(u) \in Seq(Values)
        /\ Tail(DataOf(q)) \in Seq(Values)
        /\ Len(DataOf(u)) = Len(q) - 1
        /\ Len(Tail(DataOf(q))) = Len(q) - 1
    BY <1>1, <1>2, SendqColumns
  <2>2. ASSUME NEW i \in 1 .. Len(q) - 1 PROVE DataOf(u)[i] = Tail(DataOf(q))[i]
    <3>1. i \in DOMAIN u /\ i + 1 \in DOMAIN q /\ u[i] = q[i + 1]
      BY <1>1
    <3>2. Tail(DataOf(q))[i] = DataOf(q)[i + 1]
      BY <1>1, <1>2
    <3> QED
      BY <1>1, <3>1, <3>2, SendqColumns
  <2> QED
    BY <2>1, <2>2, SeqEqual
<1> QED
  BY <1>1, <1>2, <1>3, <1>4, <1>5 DEF u

-----------------------------------------------------------------------------
(* The queues agree.                                                       *)

(* What the shared state of the channel and the tasks' own state may be.   *)
InnerOK ==
  /\ buf_cap \in BufCaps
  /\ buf \in Seq(Values)
  /\ sendq \in Seq(SendWaiter)
  /\ recvq \in Seq(Tasks)
  /\ delivered \in [Tasks -> Values \cup {NoValue}]
  /\ closed \in BOOLEAN

ResultsOK ==
  /\ offer \in [Tasks -> Values \cup {NoValue}]
  /\ received \in [Tasks -> Seq(Values)]
  /\ ended \in SUBSET Tasks

TasksOK ==
  /\ at \in [Tasks -> Places]
  /\ wake_list \in [Tasks -> Seq(Tasks)]
  /\ status \in [Tasks -> Park!Status]
  /\ pending_ready \in SUBSET Tasks

QInv == InnerOK /\ ResultsOK /\ TasksOK /\ QueuesAgree

LEMMA TypeParts == QInv => TypeOK
BY DEF QInv, TypeOK, InnerOK, ResultsOK, TasksOK, SendWaiter

(* However a call ends or blocks, the task is left in order.               *)
LEMMA ReturnLeavesTasks ==
  ASSUME TasksOK, NEW t \in Tasks, Return(t)
  PROVE  TasksOK'
BY DEF TasksOK, Return, Goto, park, Places

LEMMA PanicLeavesTasks ==
  ASSUME TasksOK, NEW t \in Tasks, Panic(t)
  PROVE  TasksOK'
BY DEF TasksOK, Panic, Goto, park, Places

LEMMA WakingLeavesTasks ==
  ASSUME TasksOK, NEW t \in Tasks, NEW ids \in Seq(Tasks), ReturnWaking(t, ids)
  PROVE  TasksOK'
BY DEF TasksOK, ReturnWaking, Goto, park, Places

LEMMA BlockLeavesTasks ==
  ASSUME TasksOK, NEW t \in Tasks, NEW place \in Places, Block(t, place)
  PROVE  TasksOK'
BY DEF TasksOK, Block, Goto, Park!Suspend, Park!Move, Park!Status

LEMMA QueuesInit == Init => QInv
<1> SUFFICES ASSUME Init PROVE QInv
  OBVIOUS
<1>1. buf_cap \in Nat
  BY ChanAssumption DEF Init
<1>2. QueuesAgree
  BY <1>1 DEF Init, QueuesAgree
<1>3. \A X : <<>> \in Seq(X)
  OBVIOUS
<1>4. InnerOK /\ ResultsOK /\ TasksOK
  BY <1>3 DEF Init, InnerOK, ResultsOK, TasksOK, Places, Park!Status
<1> QED
  BY <1>2, <1>4 DEF QInv

LEMMA SendQueues ==
  ASSUME QInv, NEW t \in Senders, NEW v \in Values, Send(t, v)
  PROVE  QInv'
<1>1. t \in Tasks /\ InnerOK /\ ResultsOK /\ TasksOK /\ buf_cap \in Nat
  BY ChanAssumption DEF QInv, Tasks, InnerOK
<1>2. ResultsOK'
  BY <1>1 DEF Send, SendClosed, Panic, ResultsOK
<1>3. UNCHANGED buf_cap
  BY DEF Send
<1>4. CASE SendClosed(t)
  BY <1>1, <1>2, <1>3, <1>4, PanicLeavesTasks
     DEF SendClosed, Panic, inner, InnerOK, QInv, QueuesAgree, Places
<1>5. CASE SendToReceiver(t, v)
  <2>1. Head(recvq) \in Tasks /\ Tail(recvq) \in Seq(Tasks) /\ Tail(recvq) # recvq
    BY <1>1, <1>5, ListTail DEF SendToReceiver, InnerOK
  <2>2. TasksOK'
    BY <1>1, <1>5, <2>1, ListOfOne, WakingLeavesTasks DEF SendToReceiver, Places
  <2>3. InnerOK'
    BY <1>1, <1>3, <1>5, <2>1 DEF SendToReceiver, InnerOK
  <2>4. QueuesAgree'
    BY <1>3, <1>5 DEF SendToReceiver, QInv, QueuesAgree
  <2> QED
    BY <1>2, <2>2, <2>3, <2>4 DEF QInv
<1>6. CASE SendToBuffer(t, v)
  <2>1. TasksOK'
    BY <1>1, <1>6, EmptySeq, ReturnLeavesTasks DEF SendToBuffer, Places
  <2>2. InnerOK' /\ Len(buf') = Len(buf) + 1
    BY <1>1, <1>3, <1>6 DEF SendToBuffer, InnerOK
  <2>3. QueuesAgree'
    BY <1>1, <1>3, <1>6, <2>2 DEF SendToBuffer, QInv, QueuesAgree, InnerOK
  <2> QED
    BY <1>2, <2>1, <2>2, <2>3 DEF QInv
<1>7. CASE SendBlocks(t, v)
  <2>1. TasksOK'
    BY <1>1, <1>7, EmptySeq, BlockLeavesTasks DEF SendBlocks, Places
  <2>2. InnerOK'
    BY <1>1, <1>3, <1>7, SendqAppend DEF SendBlocks, InnerOK
  <2>3. QueuesAgree'
    BY <1>1, <1>3, <1>7 DEF SendBlocks, QInv, QueuesAgree, InnerOK
  <2> QED
    BY <1>2, <2>1, <2>2, <2>3 DEF QInv
<1> QED
  BY <1>4, <1>5, <1>6, <1>7 DEF Send

LEMMA RecvQueues ==
  ASSUME QInv, NEW t \in Receivers, Recv(t)
  PROVE  QInv'
<1>1. t \in Tasks /\ InnerOK /\ ResultsOK /\ TasksOK /\ buf_cap \in Nat
  BY ChanAssumption DEF QInv, Tasks, InnerOK
<1>2. UNCHANGED <<offer, buf_cap>>
  BY DEF Recv
<1>3. CASE RecvClosed(t)
  <2>1. TasksOK' /\ ResultsOK' /\ InnerOK'
    BY <1>1, <1>2, <1>3, EmptySeq, ReturnLeavesTasks
       DEF RecvClosed, ReceiveNone, inner, ResultsOK, InnerOK, Places
  <2>2. QueuesAgree'
    BY <1>2, <1>3 DEF RecvClosed, inner, QInv, QueuesAgree
  <2> QED
    BY <2>1, <2>2 DEF QInv
<1>4. CASE RecvFromSender(t)
  <2> DEFINE w == Head(sendq)
             line == Append(buf, w.data)
  <2>1. /\ w.task \in Tasks /\ w.data \in Values
        /\ Tail(sendq) \in Seq(SendWaiter) /\ sendq # <<>>
    BY <1>1, <1>4, SendqTail DEF RecvFromSender, InnerOK, SendWaiter
  <2>2. /\ Head(line) \in Values
        /\ Tail(line) \in Seq(Values)
        /\ Len(Tail(line)) = Len(buf)
    <3>1. line \in Seq(Values) /\ Len(line) = Len(buf) + 1 /\ Len(buf) \in Nat
      BY <1>1, <2>1 DEF InnerOK
    <3> HIDE DEF line
    <3> QED
      BY <3>1
  <2>3. TasksOK'
    BY <1>1, <1>4, <2>1, ListOfOne, WakingLeavesTasks DEF RecvFromSender, Places
  <2>4. ASSUME NEW x \in Values, Receive(t, x) PROVE ResultsOK'
    BY <1>1, <1>2, <2>4 DEF Receive, ResultsOK
  <2>5. ResultsOK'
    BY <1>4, <2>1, <2>2, <2>4 DEF RecvFromSender
  <2>6. InnerOK' /\ Len(buf') = Len(buf)
    BY <1>1, <1>2, <1>4, <2>1, <2>2 DEF RecvFromSender, InnerOK
  <2>7. QueuesAgree'
    BY <1>1, <1>2, <1>4, <2>1, <2>6 DEF RecvFromSender, QInv, QueuesAgree, InnerOK
  <2> QED
    BY <2>3, <2>5, <2>6, <2>7 DEF QInv
<1>5. CASE RecvFromBuffer(t)
  <2>1. Head(buf) \in Values /\ Tail(buf) \in Seq(Values) /\ Len(Tail(buf)) = Len(buf) - 1
    BY <1>1, <1>5 DEF RecvFromBuffer, InnerOK
  <2>2. TasksOK' /\ InnerOK'
    BY <1>1, <1>2, <1>5, <2>1, EmptySeq, ReturnLeavesTasks
       DEF RecvFromBuffer, InnerOK, Places
  <2>3. ResultsOK'
    BY <1>1, <1>2, <1>5, <2>1 DEF RecvFromBuffer, Receive, ResultsOK
  <2>4. QueuesAgree'
    BY <1>1, <1>2, <1>5, <2>1 DEF RecvFromBuffer, QInv, QueuesAgree, InnerOK
  <2> QED
    BY <2>2, <2>3, <2>4 DEF QInv
<1>6. CASE RecvBlocks(t)
  <2>1. TasksOK' /\ InnerOK' /\ ResultsOK'
    BY <1>1, <1>2, <1>6, EmptySeq, ListAppend, BlockLeavesTasks
       DEF RecvBlocks, InnerOK, ResultsOK, Places
  <2>2. QueuesAgree'
    BY <1>1, <1>2, <1>6 DEF RecvBlocks, QInv, QueuesAgree, InnerOK
  <2> QED
    BY <2>1, <2>2 DEF QInv
<1> QED
  BY <1>3, <1>4, <1>5, <1>6 DEF Recv

LEMMA CloseQueues ==
  ASSUME QInv, NEW t \in Closers, Close(t)
  PROVE  QInv'
<1>1. t \in Tasks /\ InnerOK /\ ResultsOK /\ TasksOK
  BY DEF QInv, Tasks
<1>2. UNCHANGED <<offer, buf_cap>>
  BY DEF Close
<1>3. CASE Panic(t)
  BY <1>1, <1>2, <1>3, PanicLeavesTasks, EmptySeq
     DEF Panic, inner, InnerOK, ResultsOK, QInv, QueuesAgree, Places
<1>4. CASE ~Panic(t)
  <2>1. /\ closed' = TRUE /\ recvq' = <<>> /\ sendq' = <<>>
        /\ ReturnWaking(t, recvq \o IdsOf(sendq))
        /\ UNCHANGED <<buf, delivered, received, ended>>
    BY <1>4 DEF Close
  <2>2. recvq \o IdsOf(sendq) \in Seq(Tasks)
    BY <1>1, SendqColumns, ListConcat DEF InnerOK
  <2>3. TasksOK'
    BY <1>1, <2>1, <2>2, WakingLeavesTasks DEF Places
  <2>4. InnerOK' /\ ResultsOK'
    BY <1>1, <1>2, <2>1, EmptySeq DEF InnerOK, ResultsOK
  <2>5. QueuesAgree'
    BY <1>2, <2>1 DEF QInv, QueuesAgree
  <2> QED
    BY <2>3, <2>4, <2>5 DEF QInv
<1> QED
  BY <1>3, <1>4

LEMMA ContinueQueues ==
  ASSUME QInv, NEW t \in Tasks, Continue(t)
  PROVE  QInv'
<1>1. InnerOK /\ ResultsOK /\ TasksOK
  BY DEF QInv
<1>2. CASE Schedule(t)
  <2>1. TasksOK'
    BY <1>1, <1>2 DEF Schedule, calls, TasksOK, Park!Run, Park!Settle, Park!Move, Park!Status
  <2> QED
    BY <1>1, <1>2, <2>1
       DEF Schedule, inner, calls, InnerOK, ResultsOK, QInv, QueuesAgree
<1>3. CASE SendResume(t)
  <2>1. UNCHANGED <<inner, received, ended, offer, buf_cap>>
    BY <1>3 DEF SendResume, Panic
  <2>2. TasksOK'
    BY <1>1, <1>3, EmptySeq, ReturnLeavesTasks, PanicLeavesTasks DEF SendResume
  <2> QED
    BY <1>1, <2>1, <2>2 DEF inner, InnerOK, ResultsOK, QInv, QueuesAgree
<1>4. CASE RecvResume(t)
  <2>1. TasksOK'
    BY <1>1, <1>4, EmptySeq, ReturnLeavesTasks DEF RecvResume, Places
  <2>2. InnerOK' /\ QueuesAgree'
    BY <1>1, <1>4 DEF RecvResume, InnerOK, QInv, QueuesAgree
  <2>3. ASSUME delivered[t] = NoValue PROVE ResultsOK'
    BY <1>1, <1>4, <2>3 DEF RecvResume, ReceiveNone, ResultsOK
  <2>4. ASSUME delivered[t] # NoValue PROVE ResultsOK'
    <3>1. Append(received[t], delivered[t]) \in Seq(Values)
      BY <1>1, <2>4 DEF InnerOK, ResultsOK
    <3> QED
      BY <1>1, <1>4, <2>4, <3>1 DEF RecvResume, Receive, ResultsOK
  <2> QED
    BY <1>4, <2>1, <2>2, <2>3, <2>4 DEF QInv
<1>5. CASE WakeNext(t)
  <2>1. UNCHANGED <<inner, received, ended, offer, buf_cap>>
    BY <1>5 DEF WakeNext
  <2>2. ASSUME wake_list[t] # <<>> PROVE TasksOK'
    <3>1. /\ Park!Wake(Head(wake_list[t]))
          /\ wake_list' = [wake_list EXCEPT ![t] = Tail(@)]
          /\ UNCHANGED at
      BY <1>5, <2>2 DEF WakeNext
    <3>2. Head(wake_list[t]) \in Tasks /\ Tail(wake_list[t]) \in Seq(Tasks)
      BY <1>1, <2>2, ListTail DEF TasksOK
    <3>3. status' \in [Tasks -> Park!Status] /\ pending_ready' \in SUBSET Tasks
      BY <1>1, <3>1, <3>2 DEF TasksOK, Park!Wake, Park!Move, Park!Status
    <3> QED
      BY <1>1, <3>1, <3>2, <3>3 DEF TasksOK
  <2>3. ASSUME Return(t) PROVE TasksOK'
    BY <1>1, <2>3, EmptySeq, ReturnLeavesTasks DEF Places
  <2>4. TasksOK'
    BY <1>5, <2>2, <2>3 DEF WakeNext
  <2> QED
    BY <1>1, <2>1, <2>4 DEF inner, InnerOK, ResultsOK, QInv, QueuesAgree
<1> QED
  BY <1>2, <1>3, <1>4, <1>5 DEF Continue

LEMMA QueuesNext == QInv /\ [Next]_vars => QInv'
<1>1. QInv /\ UNCHANGED vars => QInv'
  BY DEF vars, inner, calls, park, QInv, InnerOK, ResultsOK, TasksOK, QueuesAgree
<1> QED
  BY <1>1, SendQueues, RecvQueues, CloseQueues, ContinueQueues DEF Next, Call

LEMMA QueuesAlways == Spec => []QInv
BY QueuesInit, QueuesNext, PTL DEF Spec

(* The state keeps its types, and no task is told that it received the     *)
(* placeholder of an empty entry (channel.rs:640-658).                     *)
THEOREM TypeCorrect == Spec => []TypeOK
BY TypeParts, QueuesAlways, PTL

(* Senders and receivers never wait at the same time, senders wait for a   *)
(* full buffer and receivers for an empty one (channel.rs:711-727, 752-783)*)
THEOREM QueuesAlwaysAgree == Spec => []QueuesAgree
<1>1. QInv => QueuesAgree
  BY DEF QInv
<1> QED
  BY <1>1, QueuesAlways, PTL

-----------------------------------------------------------------------------
(* The parking contract.                                                   *)

(* An id lies in one place only, and a task that is not waking others has  *)
(* nobody left to wake.                                                    *)
Once ==
  /\ IsInjective(IdsOf(sendq))
  /\ IsInjective(recvq)
  /\ InSendq \cap InRecvq = {}
  /\ \A t \in Tasks :
       /\ IsInjective(wake_list[t])
       /\ at[t] # "waking" => wake_list[t] = <<>>
       /\ (InSendq \cup InRecvq) \cap Range(wake_list[t]) = {}
       /\ \A u \in Tasks \ {t} : Range(wake_list[t]) \cap Range(wake_list[u]) = {}

PInv == QInv /\ Once /\ Park!IInv

(* What PInv says of a task that runs.                                     *)
LEMMA RunnerIsFree ==
  ASSUME PInv, NEW t \in Tasks, status[t] = "running"
  PROVE  t \notin Armed
BY DEF PInv, Park!IInv, Park!OneWakeEach

LEMMA ParkingInit == Init => PInv /\ Park!Init
<1> SUFFICES ASSUME Init PROVE PInv /\ Park!Init
  OBVIOUS
<1>1. InSendq = {} /\ InRecvq = {} /\ Armed = {}
  BY EmptyList, SendqEmpty DEF Init, InSendq, InRecvq, Armed
<1>2. Once
  BY <1>1, EmptyList, SendqEmpty DEF Init, Once
<1>3. Park!IInv
  BY <1>1 DEF Init, Park!IInv, Park!TypeOK, Park!OneWakeEach, Park!Status
<1>4. Park!Init
  BY <1>1 DEF Init, Park!Init
<1> QED
  BY <1>2, <1>3, <1>4, QueuesInit DEF PInv

(* A step that leaves the ids where they are.                              *)
LEMMA IdsStay ==
  ASSUME PInv, UNCHANGED <<sendq, recvq, wake_list>>,
         \A t \in Tasks : at'[t] # "waking" => wake_list[t] = <<>>
  PROVE  Once' /\ Armed' = Armed
<1>1. UNCHANGED <<InSendq, InRecvq, IdsOf(sendq)>>
  BY DEF InSendq, InRecvq
<1>2. Armed' = Armed
  BY <1>1 DEF Armed
<1>3. Once'
  BY <1>1 DEF PInv, Once
<1> QED
  BY <1>2, <1>3

(* A task in its own code that stays there or goes to sleep, or comes back *)
(* from a call, has nobody left to wake.                                   *)
LEMMA NobodyLeft ==
  ASSUME PInv, NEW t \in Tasks, wake_list[t] = <<>>, NEW place, Goto(t, place)
  PROVE  \A u \in Tasks : at'[u] # "waking" => wake_list[u] = <<>>
BY DEF PInv, QInv, TasksOK, Once, Goto

(* A task publishes its id in one of the queues.                           *)
LEMMA IdPublished ==
  ASSUME PInv, NEW t \in Tasks, Calling(t), NEW place, Goto(t, place), UNCHANGED wake_list,
         \/ /\ InSendq' = InSendq \cup {t} /\ UNCHANGED recvq
            /\ IsInjective(IdsOf(sendq))'
         \/ /\ InRecvq' = InRecvq \cup {t} /\ UNCHANGED sendq
            /\ IsInjective(recvq)'
  PROVE  Once' /\ Armed' = Armed \cup {t}
<1>1. t \notin Armed /\ wake_list[t] = <<>>
  BY RunnerIsFree DEF Calling, PInv, Once
<1>2. \A u \in Tasks : at'[u] # "waking" => wake_list[u] = <<>>
  BY <1>1, NobodyLeft
<1>3. /\ t \notin InSendq \cup InRecvq
      /\ \A u \in Tasks : t \notin Range(wake_list[u])
  BY <1>1 DEF Armed
<1>4. /\ UNCHANGED recvq => UNCHANGED InRecvq
      /\ UNCHANGED sendq => UNCHANGED <<InSendq, IdsOf(sendq)>>
  BY DEF InSendq, InRecvq
<1>5. Armed' = Armed \cup {t}
  BY <1>4 DEF Armed
<1>6. Once'
  BY <1>2, <1>3, <1>4 DEF PInv, Once
<1> QED
  BY <1>5, <1>6

(* A caller takes ids out of the queues, to pass them to goready: the      *)
(* contract sees nothing.                                                  *)
LEMMA IdsTaken ==
  ASSUME PInv, NEW t \in Tasks, Calling(t), NEW ids \in Seq(Tasks), ReturnWaking(t, ids),
         IsInjective(ids), IsInjective(IdsOf(sendq))', IsInjective(recvq)',
         Range(ids) \subseteq InSendq \cup InRecvq,
         InSendq' = InSendq \ Range(ids),
         InRecvq' = InRecvq \ Range(ids)
  PROVE  Once' /\ UNCHANGED Park!vars
<1>1. wake_list[t] = <<>> /\ UNCHANGED <<status, pending_ready>>
  BY DEF Calling, PInv, Once, ReturnWaking, park
<1>2. /\ wake_list'[t] = ids
      /\ \A u \in Tasks \ {t} : wake_list'[u] = wake_list[u] /\ at'[u] = at[u]
      /\ at'[t] = "waking"
  BY DEF ReturnWaking, Goto, PInv, QInv, TasksOK
<1>3. Armed' = Armed
  BY <1>1, <1>2, EmptyList DEF Armed
<1>4. Once'
  BY <1>2 DEF PInv, Once
<1> QED
  BY <1>1, <1>3, <1>4 DEF Park!vars

LEMMA SendParks ==
  ASSUME PInv, NEW t \in Senders, NEW v \in Values, Send(t, v)
  PROVE  Once' /\ (UNCHANGED Park!vars \/ Park!Publish(t))
<1>1. t \in Tasks /\ Calling(t) /\ InnerOK /\ wake_list[t] = <<>>
  BY DEF Send, Calling, Tasks, PInv, QInv, Once
<1>2. t \notin Armed
  BY <1>1, RunnerIsFree DEF Calling
<1>3. ASSUME UNCHANGED <<sendq, recvq, wake_list, park>>, NEW place, Goto(t, place)
      PROVE  Once' /\ UNCHANGED Park!vars
  BY <1>1, <1>3, NobodyLeft, IdsStay DEF park, Park!vars
<1>4. CASE SendClosed(t)
  BY <1>3, <1>4 DEF SendClosed, Panic, inner
<1>5. CASE SendToBuffer(t, v)
  BY <1>3, <1>5 DEF SendToBuffer, Return
<1>6. CASE SendToReceiver(t, v)
  <2>1. /\ recvq \in Seq(Tasks) /\ recvq # <<>> /\ IsInjective(recvq)
        /\ recvq' = Tail(recvq) /\ UNCHANGED sendq
        /\ ReturnWaking(t, <<Head(recvq)>>)
    BY <1>1, <1>6 DEF SendToReceiver, InnerOK, PInv, Once
  <2>2. /\ Head(recvq) \in Tasks /\ Head(recvq) \in InRecvq
        /\ IsInjective(recvq)'
        /\ InRecvq' = InRecvq \ {Head(recvq)}
    BY <2>1, ListTail DEF InRecvq
  <2>3. /\ <<Head(recvq)>> \in Seq(Tasks) /\ IsInjective(<<Head(recvq)>>)
        /\ Range(<<Head(recvq)>>) = {Head(recvq)}
    BY <2>2, ListOfOne
  <2>4. UNCHANGED <<InSendq, IdsOf(sendq)>> /\ InSendq = InSendq \ {Head(recvq)}
    BY <2>1, <2>2 DEF InSendq, PInv, Once
  <2>5. IsInjective(IdsOf(sendq))'
    BY <2>1 DEF PInv, Once
  <2> QED
    BY <1>1, <2>1, <2>2, <2>3, <2>4, <2>5, IdsTaken
<1>7. CASE SendBlocks(t, v)
  <2>1. /\ Goto(t, "sending") /\ Park!Suspend(t) /\ UNCHANGED <<recvq, wake_list>>
        /\ sendq' = Append(sendq, [task |-> t, data |-> v])
    BY <1>7 DEF SendBlocks, Block
  <2>2. IdsOf(sendq') = Append(IdsOf(sendq), t) /\ IdsOf(sendq) \in Seq(Tasks)
    BY <1>1, <2>1, SendqAppend, SendqColumns DEF InnerOK
  <2>3. InSendq' = InSendq \cup {t} /\ IsInjective(IdsOf(sendq))'
    BY <1>1, <1>2, <2>2, ListAppend DEF InSendq, Armed, PInv, Once
  <2> QED
    BY <1>1, <2>1, <2>3, IdPublished DEF Park!Publish
<1> QED
  BY <1>4, <1>5, <1>6, <1>7 DEF Send

LEMMA RecvParks ==
  ASSUME PInv, NEW t \in Receivers, Recv(t)
  PROVE  Once' /\ (UNCHANGED Park!vars \/ Park!Publish(t))
<1>1. t \in Tasks /\ Calling(t) /\ InnerOK /\ wake_list[t] = <<>>
  BY DEF Recv, Calling, Tasks, PInv, QInv, Once
<1>2. t \notin Armed
  BY <1>1, RunnerIsFree DEF Calling
<1>3. ASSUME UNCHANGED <<sendq, recvq>>, Return(t)
      PROVE  Once' /\ UNCHANGED Park!vars
  BY <1>1, <1>3, NobodyLeft, IdsStay DEF Return, park, Park!vars
<1>4. CASE RecvClosed(t)
  BY <1>3, <1>4 DEF RecvClosed, inner
<1>5. CASE RecvFromBuffer(t)
  BY <1>3, <1>5 DEF RecvFromBuffer
<1>6. CASE RecvFromSender(t)
  <2> DEFINE h == Head(sendq).task
  <2>1. /\ sendq \in Seq(SendWaiter) /\ sendq # <<>> /\ sendq' = Tail(sendq)
        /\ UNCHANGED recvq
        /\ ReturnWaking(t, <<h>>)
    BY <1>1, <1>6 DEF RecvFromSender, InnerOK
  <2>2. /\ IdsOf(sendq) \in Seq(Tasks) /\ IdsOf(sendq) # <<>>
        /\ IdsOf(sendq') = Tail(IdsOf(sendq))
        /\ Head(IdsOf(sendq)) = h
        /\ IsInjective(IdsOf(sendq))
    BY <2>1, SendqTail, SendqColumns DEF PInv, Once
  <2>3. /\ h \in Tasks /\ h \in InSendq
        /\ IsInjective(IdsOf(sendq))'
        /\ InSendq' = InSendq \ {h}
    BY <2>2, ListTail DEF InSendq
  <2>4. /\ <<h>> \in Seq(Tasks) /\ IsInjective(<<h>>)
        /\ Range(<<h>>) = {h}
    BY <2>3, ListOfOne
  <2>5. UNCHANGED InRecvq /\ InRecvq = InRecvq \ {h} /\ IsInjective(recvq)'
    BY <2>1, <2>3 DEF InRecvq, PInv, Once
  <2> QED
    BY <1>1, <2>1, <2>3, <2>4, <2>5, IdsTaken
<1>7. CASE RecvBlocks(t)
  <2>1. /\ Goto(t, "receiving") /\ Park!Suspend(t) /\ UNCHANGED <<sendq, wake_list>>
        /\ recvq' = Append(recvq, t)
    BY <1>7 DEF RecvBlocks, Block
  <2>2. InRecvq' = InRecvq \cup {t} /\ IsInjective(recvq)'
    BY <1>1, <1>2, <2>1, ListAppend DEF InRecvq, Armed, InnerOK, PInv, Once
  <2> QED
    BY <1>1, <2>1, <2>2, IdPublished DEF Park!Publish
<1> QED
  BY <1>4, <1>5, <1>6, <1>7 DEF Recv

LEMMA CloseParks ==
  ASSUME PInv, NEW t \in Closers, Close(t)
  PROVE  Once' /\ UNCHANGED Park!vars
<1>1. t \in Tasks /\ Calling(t) /\ InnerOK /\ wake_list[t] = <<>>
  BY DEF Close, Calling, Tasks, PInv, QInv, Once
<1>2. CASE Panic(t)
  BY <1>1, <1>2, NobodyLeft, IdsStay DEF Panic, inner, park, Park!vars
<1>3. CASE /\ recvq' = <<>> /\ sendq' = <<>>
           /\ ReturnWaking(t, recvq \o IdsOf(sendq))
  <2> DEFINE ids == recvq \o IdsOf(sendq)
  <2>1. recvq \in Seq(Tasks) /\ IdsOf(sendq) \in Seq(Tasks)
    BY <1>1, SendqColumns DEF InnerOK
  <2>2. /\ ids \in Seq(Tasks)
        /\ Range(ids) = InSendq \cup InRecvq
        /\ IsInjective(ids)
    BY <2>1, ListConcat DEF InSendq, InRecvq, PInv, Once
  <2>3. /\ InSendq' = {} /\ InRecvq' = {}
        /\ IsInjective(IdsOf(sendq))' /\ IsInjective(recvq)'
    BY <1>3, EmptyList, SendqEmpty DEF InSendq, InRecvq
  <2> HIDE DEF ids
  <2>4. ReturnWaking(t, ids)
    BY <1>3 DEF ids
  <2> QED
    BY <1>1, <2>2, <2>3, <2>4, IdsTaken
<1> QED
  BY <1>2, <1>3 DEF Close

(* goready is called with an id that was published, and only once.         *)
LEMMA WakeParks ==
  ASSUME PInv, NEW t \in Tasks, WakeNext(t)
  PROVE  Once' /\ (UNCHANGED Park!vars \/ \E h \in Tasks : Park!Ready(h))
<1>1. UNCHANGED <<sendq, recvq>> /\ UNCHANGED <<InSendq, InRecvq, IdsOf(sendq)>>
  BY DEF WakeNext, inner, InSendq, InRecvq
<1>2. CASE /\ wake_list[t] # <<>>
           /\ Park!Wake(Head(wake_list[t]))
           /\ wake_list' = [wake_list EXCEPT ![t] = Tail(@)]
           /\ UNCHANGED at
  <2> DEFINE h == Head(wake_list[t])
  <2>1. wake_list[t] \in Seq(Tasks) /\ IsInjective(wake_list[t])
    BY DEF PInv, QInv, TasksOK, Once
  <2>2. /\ wake_list'[t] = Tail(wake_list[t])
        /\ \A u \in Tasks \ {t} : wake_list'[u] = wake_list[u]
    BY <1>2 DEF PInv, QInv, TasksOK
  <2>3. /\ h \in Tasks /\ h \in Range(wake_list[t])
        /\ Range(wake_list'[t]) = Range(wake_list[t]) \ {h}
        /\ IsInjective(wake_list'[t])
    BY <1>2, <2>1, <2>2, ListTail
  <2>4. /\ h \notin InSendq \cup InRecvq
        /\ \A u \in Tasks \ {t} : h \notin Range(wake_list[u])
    BY <2>3 DEF PInv, Once
  <2>5. h \in Armed /\ Armed' = Armed \ {h}
    BY <1>1, <2>2, <2>3, <2>4 DEF Armed
  <2>6. at[t] = "waking"
    BY DEF WakeNext
  <2>7. Once'
    BY <1>1, <1>2, <2>2, <2>3, <2>6 DEF PInv, Once
  <2> QED
    BY <1>2, <2>3, <2>5, <2>7 DEF Park!Ready
<1>3. CASE wake_list[t] = <<>> /\ Return(t)
  BY <1>1, <1>3, NobodyLeft, IdsStay DEF Return, park, Park!vars
<1> QED
  BY <1>2, <1>3 DEF WakeNext

(* What follows gopark concerns the task alone.                            *)
LEMMA ResumeParks ==
  ASSUME PInv, NEW t \in Tasks, SendResume(t) \/ RecvResume(t)
  PROVE  Once' /\ UNCHANGED Park!vars
<1>1. wake_list[t] = <<>>
  BY DEF SendResume, RecvResume, PInv, Once
<1>2. UNCHANGED <<sendq, recvq, wake_list, park>>
  BY DEF SendResume, RecvResume, Panic, Return, inner
<1>3. \A u \in Tasks : at'[u] # "waking" => wake_list[u] = <<>>
  BY <1>1, NobodyLeft DEF SendResume, RecvResume, Panic, Return
<1> QED
  BY <1>2, <1>3, IdsStay DEF park, Park!vars

(* Each step of the channel and of its callers is a step of the contract.  *)
LEMMA StepKeepsContract ==
  PInv /\ [Next]_vars => Once' /\ [Park!Next]_(Park!vars)
<1> SUFFICES ASSUME PInv, [Next]_vars
             PROVE  Once' /\ [Park!Next]_(Park!vars)
  OBVIOUS
<1>1. ASSUME NEW t \in Senders, NEW v \in Values, Send(t, v)
      PROVE  Once' /\ [Park!Next]_(Park!vars)
  BY <1>1, SendParks DEF Park!Next, Tasks
<1>2. ASSUME NEW t \in Receivers, Recv(t) PROVE Once' /\ [Park!Next]_(Park!vars)
  BY <1>2, RecvParks DEF Park!Next, Tasks
<1>3. ASSUME NEW t \in Closers, Close(t) PROVE Once' /\ [Park!Next]_(Park!vars)
  BY <1>3, CloseParks
<1>4. ASSUME NEW t \in Tasks, WakeNext(t) PROVE Once' /\ [Park!Next]_(Park!vars)
  BY <1>4, WakeParks DEF Park!Next
<1>5. ASSUME NEW t \in Tasks, SendResume(t) \/ RecvResume(t)
      PROVE  Once' /\ [Park!Next]_(Park!vars)
  BY <1>5, ResumeParks
<1>6. ASSUME NEW t \in Tasks, Schedule(t) PROVE Once' /\ [Park!Next]_(Park!vars)
  <2>1. UNCHANGED <<sendq, recvq, wake_list, at>>
    BY <1>6 DEF Schedule, inner, calls
  <2>2. Once'
    BY <2>1, IdsStay DEF PInv, Once
  <2> QED
    BY <1>6, <2>2 DEF Schedule, Park!Next
<1>7. CASE UNCHANGED vars
  <2>1. UNCHANGED <<sendq, recvq, wake_list, at, status, pending_ready>>
    BY <1>7 DEF vars, inner, calls, park
  <2>2. Once' /\ Armed' = Armed
    BY <2>1, IdsStay DEF PInv, Once
  <2> QED
    BY <2>1, <2>2 DEF Park!vars
<1> QED
  BY <1>1, <1>2, <1>3, <1>4, <1>5, <1>6, <1>7 DEF Next, Call, Continue

LEMMA ParkingNext ==
  PInv /\ [Next]_vars => PInv' /\ [Park!Next]_(Park!vars)
BY StepKeepsContract, QueuesNext, Park!NextInv DEF PInv

LEMMA ParkingAlways == Spec => []PInv
BY ParkingInit, ParkingNext, PTL DEF Spec

(* The channel keeps its side of the parking contract: every goready it    *)
(* makes is owed to a task that has published its id and has not been      *)
(* woken since, also when close takes over the whole queue while a sender  *)
(* or a receiver is still waking the task it took before                   *)
(* (channel.rs:697-825).                                                   *)
THEOREM ChannelKeepsContract == Spec => KeepsParkContract
BY ParkingInit, ParkingNext, PTL DEF Spec, KeepsParkContract, Park!Spec

-----------------------------------------------------------------------------
(***************************************************************************)
(* What becomes of the values of a channel: every wake has a reason, None  *)
(* is the end, and the channel implements FifoChannel.                     *)
(***************************************************************************)

(* The values that have been sent and taken from their sender.             *)
Returned == UNION {Range(received[r]) : r \in Tasks}
Accepted == Range(buf) \cup Range(delivered) \cup Returned

(* A receiver that has been woken without a value finds an empty, closed   *)
(* channel: no value was there when it was taken off the recvq.            *)
EmptyHanded ==
  \A t \in Tasks :
    at[t] = "receiving" /\ t \notin InRecvq /\ delivered[t] = NoValue
      => closed /\ buf = <<>> /\ sendq = <<>>

(* A value is delivered once, to a receiver that has left the recvq.       *)
DeliveredOnce ==
  \A t \in Tasks : delivered[t] # NoValue => at[t] = "receiving" /\ t \notin InRecvq

(* Only tasks that receive are in the recvq.                               *)
RecvqReceives == \A t \in InRecvq : t \in Receivers /\ at[t] = "receiving"

(* The sendq holds what its tasks offer.                                   *)
SendqOffers ==
  /\ \A i \in DOMAIN sendq : at[sendq[i].task] = "sending"
                             /\ offer[sendq[i].task] = sendq[i].data
  /\ \A t \in Tasks : at[t] = "sending" => offer[t] \in Values

(* A sender that has left the sendq has handed its value on.               *)
SendersAccepted ==
  \A t \in Tasks :
    at[t] = "sending" /\ t \notin InSendq => closed \/ offer[t] \in Accepted

Story ==
  /\ EmptyHanded
  /\ DeliveredOnce
  /\ RecvqReceives
  /\ SendqOffers
  /\ SendersAccepted
  /\ NoneIsTheEnd

LEMMA StoryGivesReasons == Story => EveryWakeHasAReason
BY DEF Story, EmptyHanded, DeliveredOnce, SendersAccepted, Accepted, Returned, EveryWakeHasAReason

LEMMA StoryInit == Init => Story
<1> SUFFICES ASSUME Init PROVE Story
  OBVIOUS
<1>1. InRecvq = {} /\ InSendq = {}
  BY EmptyList, SendqEmpty DEF Init, InRecvq, InSendq
<1> QED
  BY <1>1 DEF Init, Story, EmptyHanded, DeliveredOnce, RecvqReceives, SendqOffers,
              SendersAccepted, NoneIsTheEnd

-----------------------------------------------------------------------------
(* Where the tasks and the values are after a step                         *)

(* The id of a waiting sender is in InSendq.                               *)
LEMMA InSendqDef ==
  ASSUME InnerOK
  PROVE  InSendq = {sendq[i].task : i \in DOMAIN sendq}
<1>1. /\ DOMAIN IdsOf(sendq) = DOMAIN sendq
      /\ \A i \in DOMAIN sendq : IdsOf(sendq)[i] = sendq[i].task
  BY DEF IdsOf
<1> QED
  BY <1>1 DEF InSendq, Range

(* A task in its own code is in no queue, and nothing is kept for it.      *)
LEMMA CallerHasNothing ==
  ASSUME PInv, Story, NEW t \in Tasks, Calling(t)
  PROVE  /\ t \notin InSendq /\ t \notin InRecvq
         /\ delivered[t] = NoValue
         /\ at[t] = "code"
BY RunnerIsFree DEF Calling, Armed, Story, DeliveredOnce

(* What recv returns is added to what it has returned.                     *)
LEMMA ReceiveReturns ==
  ASSUME ResultsOK, NEW t \in Tasks, NEW x \in Values, Receive(t, x)
  PROVE  /\ received'[t] = Append(received[t], x)
         /\ \A r \in Tasks \ {t} : received'[r] = received[r]
         /\ Returned' = Returned \cup {x}
<1>1. /\ received'[t] = Append(received[t], x)
      /\ \A r \in Tasks \ {t} : received'[r] = received[r]
  BY DEF Receive, ResultsOK
<1>2. Range(received'[t]) = Range(received[t]) \cup {x}
  BY <1>1, ListAppend DEF ResultsOK
<1>3. ASSUME NEW y \in Returned' PROVE y \in Returned \cup {x}
  <2>1. PICK r \in Tasks : y \in Range(received'[r])
    BY <1>3 DEF Returned
  <2> QED
    BY <1>1, <1>2, <2>1 DEF Returned
<1>4. ASSUME NEW y \in Returned \cup {x} PROVE y \in Returned'
  <2>1. PICK r \in Tasks : y \in Range(received[r]) \/ (r = t /\ y = x)
    BY <1>4 DEF Returned
  <2>2. y \in Range(received'[r])
    BY <1>1, <1>2, <2>1
  <2> QED
    BY <2>2 DEF Returned
<1> QED
  BY <1>1, <1>3, <1>4

(* A step of a task that has nothing kept for it, and that touches no      *)
(* value.                                                                  *)
LEMMA StoryStays ==
  ASSUME PInv, Story, NEW t \in Tasks,
         t \notin InSendq, t \notin InRecvq, delivered[t] = NoValue,
         NEW place \in {"code", "waking", "panicked"}, Goto(t, place),
         UNCHANGED <<inner, received>>,
         \A u \in Tasks \ {t} : offer'[u] = offer[u],
         ended' = ended \/ (closed /\ buf = <<>> /\ sendq = <<>>)
  PROVE  Story'
<1>1. UNCHANGED <<InSendq, InRecvq, Accepted>>
  BY DEF inner, InSendq, InRecvq, Accepted, Returned
<1>2. /\ at'[t] \notin {"sending", "receiving"}
      /\ \A u \in Tasks \ {t} : at'[u] = at[u] /\ offer'[u] = offer[u]
  BY DEF Goto, PInv, QInv, TasksOK
<1>3. /\ InSendq = {sendq[i].task : i \in DOMAIN sendq}
      /\ InSendq \subseteq Tasks
      /\ InRecvq \subseteq Tasks
  BY InSendqDef, SendqColumns, RangeOfSeq DEF PInv, QInv, InnerOK, InSendq, InRecvq
<1>4. EmptyHanded' /\ DeliveredOnce'
  BY <1>1, <1>2 DEF inner, Story, EmptyHanded, DeliveredOnce
<1>5. RecvqReceives' /\ NoneIsTheEnd'
  BY <1>1, <1>2, <1>3 DEF inner, Story, RecvqReceives, NoneIsTheEnd
<1>6. SendqOffers'
  BY <1>1, <1>2, <1>3 DEF inner, Story, SendqOffers
<1>7. SendersAccepted'
  BY <1>1, <1>2 DEF inner, Story, SendersAccepted
<1> QED
  BY <1>4, <1>5, <1>6, <1>7 DEF Story

(* The ids in the queues are tasks, and those in sendq have not moved.     *)
LEMMA QueuesHoldTasks ==
  ASSUME PInv
  PROVE  /\ InSendq = {sendq[i].task : i \in DOMAIN sendq}
         /\ InSendq \subseteq Tasks
         /\ InRecvq \subseteq Tasks
BY InSendqDef, SendqColumns, RangeOfSeq DEF PInv, QInv, InnerOK, InSendq, InRecvq

(* An open channel has sent nobody away.                                   *)
LEMMA OpenFacts ==
  ASSUME Story, ~closed \/ buf # <<>> \/ sendq # <<>>
  PROVE  /\ \A t \in Tasks : at[t] = "receiving" /\ t \notin InRecvq => delivered[t] # NoValue
         /\ ended = {}
BY DEF Story, EmptyHanded, NoneIsTheEnd

-----------------------------------------------------------------------------
(* The steps                                                               *)

LEMMA SendStory ==
  ASSUME PInv, Story, NEW t \in Senders, NEW v \in Values, Send(t, v)
  PROVE  Story'
<1>1. /\ t \in Tasks /\ Calling(t) /\ InnerOK /\ TasksOK /\ ResultsOK
      /\ v # NoValue
  BY ChanAssumption DEF Send, Tasks, PInv, QInv
<1>2. t \notin InSendq /\ t \notin InRecvq /\ delivered[t] = NoValue /\ at[t] = "code"
  BY <1>1, CallerHasNothing
<1>3. offer'[t] = v /\ \A u \in Tasks \ {t} : offer'[u] = offer[u]
  BY <1>1 DEF Send, ResultsOK
<1>4. CASE SendClosed(t)
  BY <1>1, <1>2, <1>3, <1>4, StoryStays DEF SendClosed, Panic
<1>5. CASE SendToReceiver(t, v) \/ SendToBuffer(t, v) \/ SendBlocks(t, v)
  <2> DEFINE h == Head(recvq)
  <2>1. ~closed /\ closed' = closed /\ UNCHANGED <<received, ended>>
    BY <1>5 DEF Send, SendClosed, SendToReceiver, SendToBuffer, SendBlocks
  <2>2. /\ \A u \in Tasks : at[u] = "receiving" /\ u \notin InRecvq => delivered[u] # NoValue
        /\ ended = {}
    BY <2>1, OpenFacts
  <2>3. NoneIsTheEnd'
    BY <2>1, <2>2 DEF NoneIsTheEnd
  <2>4. /\ \A u \in Tasks \ {t} : at'[u] = at[u]
        /\ at'[t] \in {"code", "waking", "sending"}
        /\ at'[t] = "sending" => SendBlocks(t, v)
    BY <1>1, <1>5 DEF SendToReceiver, SendToBuffer, SendBlocks, Return, ReturnWaking,
                      Block, Goto, TasksOK
  <2>5. CASE SendToReceiver(t, v)
    <3>1. /\ recvq \in Seq(Tasks) /\ recvq # <<>> /\ IsInjective(recvq)
          /\ recvq' = Tail(recvq)
          /\ UNCHANGED <<buf, sendq>>
          /\ delivered' = [delivered EXCEPT ![h] = v]
      BY <1>1, <2>5 DEF SendToReceiver, InnerOK, PInv, Once
    <3>2. h \in InRecvq /\ h \in Tasks /\ h # t /\ InRecvq' = InRecvq \ {h}
      BY <1>2, <3>1, ListTail DEF InRecvq
    <3>3. /\ delivered[h] = NoValue /\ delivered'[h] = v
          /\ \A u \in Tasks \ {h} : delivered'[u] = delivered[u]
          /\ at[h] = "receiving"
      BY <1>1, <3>1, <3>2 DEF InnerOK, Story, DeliveredOnce, RecvqReceives
    <3>4. UNCHANGED InSendq /\ sendq' = sendq
      BY <3>1 DEF InSendq
    <3>5. \A x \in Accepted : x # NoValue => x \in Accepted'
      BY <1>1, <2>1, <3>1, <3>3 DEF Accepted, Returned, Range, InnerOK
    <3>6. EmptyHanded' /\ DeliveredOnce'
      BY <1>1, <1>2, <2>2, <2>4, <3>2, <3>3 DEF Story, EmptyHanded, DeliveredOnce
    <3>7. RecvqReceives'
      BY <1>2, <2>4, <3>2, QueuesHoldTasks DEF Story, RecvqReceives
    <3>8. at'[t] = "waking"
      BY <1>1, <2>5 DEF SendToReceiver, ReturnWaking, Goto, TasksOK
    <3>9. SendqOffers'
      BY <1>2, <1>3, <2>4, <3>4, <3>8, QueuesHoldTasks DEF Story, SendqOffers
    <3>10. SendersAccepted'
      BY <1>3, <2>1, <2>4, <3>4, <3>5, <3>8, ChanAssumption
         DEF Story, SendersAccepted, SendqOffers
    <3> QED
      BY <2>3, <3>6, <3>7, <3>9, <3>10 DEF Story
  <2>6. CASE SendToBuffer(t, v)
    <3>1. /\ buf' = Append(buf, v) /\ UNCHANGED <<sendq, recvq, delivered>>
          /\ UNCHANGED <<InSendq, InRecvq>>
          /\ at'[t] = "code"
      BY <1>1, <2>6 DEF SendToBuffer, InSendq, InRecvq, Return, Goto, TasksOK
    <3>2. Range(buf') = Range(buf) \cup {v}
      BY <1>1, <3>1, ListAppend DEF InnerOK
    <3>3. Accepted \subseteq Accepted'
      BY <2>1, <3>1, <3>2 DEF Accepted, Returned
    <3>4. EmptyHanded' /\ DeliveredOnce'
      BY <1>2, <2>2, <2>4, <3>1 DEF Story, EmptyHanded, DeliveredOnce
    <3>5. RecvqReceives'
      BY <1>2, <2>4, <3>1, QueuesHoldTasks DEF Story, RecvqReceives
    <3>6. SendqOffers'
      BY <1>2, <1>3, <2>4, <3>1, QueuesHoldTasks DEF Story, SendqOffers
    <3>7. SendersAccepted'
      BY <1>3, <2>1, <2>4, <3>1, <3>3 DEF Story, SendersAccepted
    <3> QED
      BY <2>3, <3>4, <3>5, <3>6, <3>7 DEF Story
  <2>7. CASE SendBlocks(t, v)
    <3> DEFINE w == [task |-> t, data |-> v]
    <3>1. /\ sendq' = Append(sendq, w) /\ UNCHANGED <<buf, recvq, delivered>>
          /\ UNCHANGED InRecvq
          /\ at'[t] = "sending"
      BY <1>1, <2>7 DEF SendBlocks, InRecvq, Block, Goto, TasksOK
    <3>2. InSendq' = InSendq \cup {t}
      <4>1. IdsOf(sendq') = Append(IdsOf(sendq), t) /\ IdsOf(sendq) \in Seq(Tasks)
        BY <1>1, <3>1, SendqAppend, SendqColumns DEF InnerOK
      <4> QED
        BY <1>1, <4>1, ListAppend DEF InSendq
    <3>3. UNCHANGED Accepted
      BY <2>1, <3>1 DEF Accepted, Returned
    <3>4. EmptyHanded' /\ DeliveredOnce'
      BY <1>2, <2>2, <2>4, <3>1 DEF Story, EmptyHanded, DeliveredOnce
    <3>5. RecvqReceives'
      BY <1>2, <2>4, <3>1, QueuesHoldTasks DEF Story, RecvqReceives
    <3>6. ASSUME NEW i \in DOMAIN sendq'
          PROVE  at'[sendq'[i].task] = "sending" /\ offer'[sendq'[i].task] = sendq'[i].data
      <4>1. CASE i \in DOMAIN sendq
        <5>1. sendq'[i] = sendq[i]
          BY <1>1, <3>1, <4>1 DEF InnerOK
        <5>2. sendq[i].task \in Tasks \ {t}
          BY <1>2, <4>1, QueuesHoldTasks
        <5> QED
          BY <1>3, <2>4, <4>1, <5>1, <5>2 DEF Story, SendqOffers
      <4>2. CASE i \notin DOMAIN sendq
        <5>1. sendq'[i] = w
          BY <1>1, <3>1, <4>2 DEF InnerOK
        <5> QED
          BY <1>3, <3>1, <5>1
      <4> QED
        BY <4>1, <4>2
    <3>7. \A u \in Tasks : at'[u] = "sending" => offer'[u] \in Values
      BY <1>3, <2>4 DEF Story, SendqOffers
    <3>8. SendersAccepted'
      BY <1>3, <2>1, <2>4, <3>2, <3>3 DEF Story, SendersAccepted
    <3> QED
      BY <2>3, <3>4, <3>5, <3>6, <3>7, <3>8 DEF Story, SendqOffers
  <2> QED
    BY <1>5, <2>5, <2>6, <2>7
<1> QED
  BY <1>4, <1>5 DEF Send

LEMMA RecvStory ==
  ASSUME PInv, Story, NEW t \in Receivers, Recv(t)
  PROVE  Story'
<1>1. t \in Tasks /\ Calling(t) /\ InnerOK /\ TasksOK /\ ResultsOK /\ UNCHANGED offer
  BY DEF Recv, Tasks, PInv, QInv
<1>2. t \notin InSendq /\ t \notin InRecvq /\ delivered[t] = NoValue /\ at[t] = "code"
  BY <1>1, CallerHasNothing
<1>3. CASE RecvClosed(t)
  BY <1>1, <1>2, <1>3, StoryStays DEF RecvClosed, ReceiveNone, Return, inner
<1>4. \A x \in Values : Receive(t, x) => Returned' = Returned \cup {x}
  BY <1>1, ReceiveReturns
<1>5. CASE RecvFromSender(t) \/ RecvFromBuffer(t)
  <2>1. /\ UNCHANGED <<recvq, delivered, closed, ended, InRecvq>>
        /\ buf # <<>> \/ sendq # <<>>
    BY <1>5 DEF RecvFromSender, RecvFromBuffer, Receive, InRecvq
  <2>2. /\ \A u \in Tasks : at[u] = "receiving" /\ u \notin InRecvq => delivered[u] # NoValue
        /\ ended = {}
    BY <2>1, OpenFacts
  <2>3. /\ \A u \in Tasks \ {t} : at'[u] = at[u]
        /\ at'[t] \in {"code", "waking"}
    BY <1>1, <1>5 DEF RecvFromSender, RecvFromBuffer, Return, ReturnWaking, Goto, TasksOK
  <2>4. EmptyHanded' /\ DeliveredOnce' /\ NoneIsTheEnd'
    BY <1>2, <2>1, <2>2, <2>3 DEF Story, EmptyHanded, DeliveredOnce, NoneIsTheEnd
  <2>5. RecvqReceives'
    BY <1>2, <2>1, <2>3, QueuesHoldTasks DEF Story, RecvqReceives
  <2>6. ASSUME UNCHANGED sendq PROVE SendqOffers'
    BY <1>1, <1>2, <2>3, <2>6, QueuesHoldTasks DEF Story, SendqOffers
  <2>7. CASE RecvFromBuffer(t)
    <3>1. buf \in Seq(Values) /\ buf # <<>> /\ buf' = Tail(buf) /\ Receive(t, Head(buf))
          /\ UNCHANGED sendq
      BY <1>1, <2>7 DEF RecvFromBuffer, InnerOK
    <3>2. Range(buf) = Range(buf') \cup {Head(buf)} /\ Head(buf) \in Values
      BY <3>1, ListTail
    <3>3. Accepted' = Accepted
      BY <1>4, <2>1, <3>1, <3>2 DEF Accepted
    <3>4. UNCHANGED InSendq
      BY <3>1 DEF InSendq
    <3>5. SendersAccepted'
      BY <1>1, <2>1, <2>3, <3>3, <3>4 DEF Story, SendersAccepted
    <3> QED
      BY <2>4, <2>5, <2>6, <3>1, <3>5 DEF Story
  <2>8. CASE RecvFromSender(t)
    <3> DEFINE w == Head(sendq)
               line == Append(buf, w.data)
    <3>1. /\ sendq \in Seq(SendWaiter) /\ sendq # <<>> /\ sendq' = Tail(sendq)
          /\ buf \in Seq(Values) /\ w \in SendWaiter
      BY <1>1, <2>8, SendqTail DEF RecvFromSender, InnerOK
    <3>2. w.task \in Tasks /\ w.data \in Values
      BY <3>1 DEF SendWaiter
    <3>3. InSendq' = InSendq \ {w.task}
      <4>1. /\ IdsOf(sendq) \in Seq(Tasks) /\ IdsOf(sendq) # <<>>
            /\ IdsOf(sendq') = Tail(IdsOf(sendq))
            /\ Head(IdsOf(sendq)) = w.task
            /\ IsInjective(IdsOf(sendq))
        BY <3>1, SendqTail, SendqColumns DEF PInv, Once
      <4> QED
        BY <4>1, ListTail DEF InSendq
    <3>4. offer[w.task] = w.data
      <4>1. 1 \in DOMAIN sendq /\ w = sendq[1]
        BY <3>1
      <4> QED
        BY <4>1 DEF Story, SendqOffers
    <3>5. line \in Seq(Values) /\ line # <<>> /\ Range(line) = Range(buf) \cup {w.data}
      BY <3>1, <3>2, ListAppend, AppendProperties
    <3>6. Accepted' = Accepted \cup {w.data}
      <4>1. CASE buf_cap = 0
        <5>1. Receive(t, w.data) /\ UNCHANGED buf
          BY <2>8, <4>1 DEF RecvFromSender
        <5> QED
          BY <1>4, <2>1, <3>2, <5>1 DEF Accepted
      <4>2. CASE buf_cap # 0
        <5>1. Receive(t, Head(line)) /\ buf' = Tail(line)
          BY <2>8, <4>2 DEF RecvFromSender
        <5>2. Head(line) \in Values /\ Range(line) = Range(Tail(line)) \cup {Head(line)}
          BY <3>5, ListTail
        <5> QED
          BY <1>4, <2>1, <3>5, <5>1, <5>2 DEF Accepted
      <4> QED
        BY <4>1, <4>2
    <3>7. SendersAccepted'
      BY <1>1, <2>1, <2>3, <3>3, <3>4, <3>6 DEF Story, SendersAccepted
    <3>8. ASSUME NEW i \in DOMAIN sendq'
          PROVE  at'[sendq'[i].task] = "sending" /\ offer'[sendq'[i].task] = sendq'[i].data
      <4>1. i + 1 \in DOMAIN sendq /\ sendq'[i] = sendq[i + 1]
        BY <3>1
      <4>2. sendq[i + 1].task \in Tasks \ {t}
        BY <1>2, <4>1, QueuesHoldTasks
      <4> QED
        BY <1>1, <2>3, <4>1, <4>2 DEF Story, SendqOffers
    <3>9. SendqOffers'
      BY <1>1, <2>3, <3>8 DEF Story, SendqOffers
    <3> QED
      BY <2>4, <2>5, <3>7, <3>9 DEF Story
  <2> QED
    BY <1>5, <2>7, <2>8
<1>6. CASE RecvBlocks(t)
  <2>1. /\ recvq' = Append(recvq, t) /\ ~closed
        /\ UNCHANGED <<buf, sendq, delivered, closed, received, ended, InSendq, Accepted>>
        /\ at'[t] = "receiving" /\ \A u \in Tasks \ {t} : at'[u] = at[u]
    BY <1>1, <1>6 DEF RecvBlocks, Block, Goto, TasksOK, InSendq, Accepted, Returned
  <2>2. InRecvq' = InRecvq \cup {t}
    BY <1>1, <2>1, ListAppend DEF InRecvq, InnerOK
  <2>3. /\ \A u \in Tasks : at[u] = "receiving" /\ u \notin InRecvq => delivered[u] # NoValue
        /\ ended = {}
    BY <2>1, OpenFacts
  <2>4. EmptyHanded' /\ DeliveredOnce' /\ NoneIsTheEnd'
    BY <1>2, <2>1, <2>2, <2>3 DEF Story, EmptyHanded, DeliveredOnce, NoneIsTheEnd
  <2>5. RecvqReceives'
    BY <2>1, <2>2, QueuesHoldTasks DEF Story, RecvqReceives
  <2>6. SendqOffers' /\ SendersAccepted'
    BY <1>1, <1>2, <2>1, QueuesHoldTasks DEF Story, SendqOffers, SendersAccepted
  <2> QED
    BY <2>4, <2>5, <2>6 DEF Story
<1> QED
  BY <1>3, <1>5, <1>6 DEF Recv

LEMMA CloseStory ==
  ASSUME PInv, Story, NEW t \in Closers, Close(t)
  PROVE  Story'
<1>1. t \in Tasks /\ Calling(t) /\ InnerOK /\ TasksOK /\ UNCHANGED offer
  BY DEF Close, Tasks, PInv, QInv
<1>2. t \notin InSendq /\ t \notin InRecvq /\ delivered[t] = NoValue /\ at[t] = "code"
  BY <1>1, CallerHasNothing
<1>3. CASE closed
  BY <1>1, <1>2, <1>3, StoryStays DEF Close, Panic
<1>4. CASE ~closed
  <2>1. /\ closed' = TRUE /\ recvq' = <<>> /\ sendq' = <<>>
        /\ UNCHANGED <<buf, delivered, received, ended>>
        /\ at'[t] = "waking" /\ \A u \in Tasks \ {t} : at'[u] = at[u]
    BY <1>1, <1>4 DEF Close, Panic, ReturnWaking, Goto, TasksOK
  <2>2. InRecvq' = {}
    BY <2>1, EmptyList DEF InRecvq
  <2>3. ended = {} /\ \A u \in Tasks :
          at[u] = "receiving" /\ u \notin InRecvq => delivered[u] # NoValue
    BY <1>4, OpenFacts
  <2>4. InRecvq # {} => buf = <<>>
    <3>1. InRecvq # {} => recvq # <<>>
      BY EmptyList DEF InRecvq
    <3> QED
      BY <3>1 DEF PInv, QInv, QueuesAgree
  <2>5. EmptyHanded'
    BY <1>2, <2>1, <2>3, <2>4 DEF Story, EmptyHanded
  <2>6. DeliveredOnce' /\ RecvqReceives' /\ NoneIsTheEnd'
    BY <1>2, <2>1, <2>2, <2>3 DEF Story, DeliveredOnce, RecvqReceives, NoneIsTheEnd
  <2>7. SendqOffers' /\ SendersAccepted'
    BY <1>1, <2>1 DEF Story, SendqOffers, SendersAccepted
  <2> QED
    BY <2>5, <2>6, <2>7 DEF Story
<1> QED
  BY <1>3, <1>4

LEMMA RecvResumeStory ==
  ASSUME PInv, Story, NEW t \in Tasks, RecvResume(t)
  PROVE  Story'
<1>1. InnerOK /\ TasksOK /\ ResultsOK /\ at[t] = "receiving"
  BY DEF RecvResume, PInv, QInv
<1>2. t \notin InSendq /\ t \notin InRecvq
  BY RunnerIsFree DEF RecvResume, Armed
<1>3. CASE delivered[t] = NoValue
  <2>1. delivered' = delivered
    BY <1>1, <1>3 DEF RecvResume, InnerOK
  <2>2. closed /\ buf = <<>> /\ sendq = <<>>
    BY <1>1, <1>2, <1>3 DEF Story, EmptyHanded
  <2> QED
    BY <1>2, <1>3, <2>1, <2>2, StoryStays DEF RecvResume, ReceiveNone, Return, inner
<1>4. CASE delivered[t] # NoValue
  <2> DEFINE v == delivered[t]
  <2>1. /\ v \in Values
        /\ delivered'[t] = NoValue
        /\ \A u \in Tasks \ {t} : delivered'[u] = delivered[u]
        /\ delivered' \in [Tasks -> Values \cup {NoValue}]
        /\ UNCHANGED <<buf, sendq, recvq, closed, offer, ended, InSendq, InRecvq>>
        /\ at'[t] = "code" /\ \A u \in Tasks \ {t} : at'[u] = at[u]
    BY <1>1, <1>4 DEF RecvResume, Receive, Return, Goto, InnerOK, TasksOK, InSendq, InRecvq
  <2>2. Returned' = Returned \cup {v}
    <3>1. Receive(t, v)
      BY <1>4 DEF RecvResume
    <3> QED
      BY <1>1, <2>1, <3>1, ReceiveReturns
  <2>3. Range(delivered) \subseteq Range(delivered') \cup {v}
    BY <1>1, <2>1 DEF Range, InnerOK
  <2>4. Accepted \subseteq Accepted'
    BY <2>1, <2>2, <2>3 DEF Accepted
  <2>5. EmptyHanded' /\ DeliveredOnce' /\ NoneIsTheEnd'
    BY <2>1 DEF Story, EmptyHanded, DeliveredOnce, NoneIsTheEnd
  <2>6. RecvqReceives' /\ SendqOffers'
    BY <1>2, <2>1, QueuesHoldTasks DEF Story, RecvqReceives, SendqOffers
  <2>7. SendersAccepted'
    BY <2>1, <2>4 DEF Story, SendersAccepted
  <2> QED
    BY <2>5, <2>6, <2>7 DEF Story
<1> QED
  BY <1>3, <1>4

LEMMA StoryUntouched ==
  ASSUME Story, UNCHANGED <<inner, at, offer, received, ended>>
  PROVE  Story'
<1>1. UNCHANGED <<InSendq, InRecvq, Accepted>>
  BY DEF inner, InSendq, InRecvq, Accepted, Returned
<1> QED
  BY <1>1 DEF inner, Story, EmptyHanded, DeliveredOnce, RecvqReceives, SendqOffers,
              SendersAccepted, NoneIsTheEnd

LEMMA ContinueStory ==
  ASSUME PInv, Story, NEW t \in Tasks, Continue(t)
  PROVE  Story'
<1>1. CASE Schedule(t)
  BY <1>1, StoryUntouched DEF Schedule, calls
<1>2. CASE SendResume(t)
  <2>1. t \notin InSendq /\ t \notin InRecvq /\ delivered[t] = NoValue
    BY <1>2, RunnerIsFree DEF SendResume, Armed, Story, DeliveredOnce
  <2> QED
    BY <1>2, <2>1, StoryStays DEF SendResume, Panic, Return
<1>3. CASE RecvResume(t)
  BY <1>3, RecvResumeStory
<1>4. CASE WakeNext(t)
  <2>1. CASE UNCHANGED at
    BY <1>4, <2>1, StoryUntouched DEF WakeNext
  <2>2. CASE Return(t)
    <3>1. t \notin InSendq /\ t \notin InRecvq /\ delivered[t] = NoValue
      BY <1>4, QueuesHoldTasks DEF WakeNext, Story, DeliveredOnce, RecvqReceives, SendqOffers
    <3> QED
      BY <1>4, <2>2, <3>1, StoryStays DEF WakeNext, Return
  <2> QED
    BY <1>4, <2>1, <2>2 DEF WakeNext
<1> QED
  BY <1>1, <1>2, <1>3, <1>4 DEF Continue

LEMMA StoryNext == PInv /\ Story /\ [Next]_vars => Story'
<1>1. Story /\ UNCHANGED vars => Story'
  BY StoryUntouched DEF vars, calls
<1> QED
  BY <1>1, SendStory, RecvStory, CloseStory, ContinueStory DEF Next, Call

LEMMA StoryAlways == Spec => []Story
BY StoryInit, StoryNext, ParkingAlways, PTL DEF Spec

(* Nobody is woken for nothing: a receiver that left the recvq has a value *)
(* or the channel is closed, a sender that left the sendq has handed its   *)
(* value on or was thrown out (channel.rs:704-708, 730-735, 752-773, 788). *)
THEOREM WakesHaveReasons == Spec => []EveryWakeHasAReason
BY StoryGivesReasons, StoryAlways, PTL

(* Once recv has returned None the channel is closed and stays empty       *)
(* (channel.rs:742-751, 776-778).                                          *)
THEOREM NoneIsAlwaysTheEnd == Spec => []NoneIsTheEnd
<1>1. Story => NoneIsTheEnd
  BY DEF Story
<1> QED
  BY <1>1, StoryAlways, PTL

-----------------------------------------------------------------------------
(* The channel implements FifoChannel.  Queue and Got are what Fifo puts   *)
(* for chan and got.                                                       *)

Queue == buf \o DataOf(sendq)

Got == [r \in Receivers |-> IF delivered[r] = NoValue THEN received[r]
                            ELSE Append(received[r], delivered[r])]

LEMMA FifoInit == Init => Fifo!Init
<1> SUFFICES ASSUME Init PROVE Fifo!Init
  OBVIOUS
<1>1. Queue = <<>>
  BY SendqEmpty, ConcatEmptySeq DEF Init, Queue
<1>2. Got = [r \in Receivers |-> <<>>]
  BY DEF Init, Got, Tasks
<1>3. closed = FALSE /\ buf_cap \in Nat
  BY ChanAssumption DEF Init
<1> QED
  BY <1>1, <1>2, <1>3 DEF Fifo!Init, Queue, Got

(* The abstract actions, as changes of Queue and Got.                      *)
LEMMA IsStutter ==
  ASSUME UNCHANGED <<Queue, Got, closed, buf_cap>>
  PROVE  UNCHANGED Fifo!vars
BY DEF Fifo!vars, Queue, Got

LEMMA IsPut ==
  ASSUME NEW v \in Values, ~closed, Queue' = Append(Queue, v),
         UNCHANGED <<Got, closed, buf_cap>>
  PROVE  Fifo!Next
BY DEF Fifo!Next, Fifo!Put, Queue, Got

LEMMA IsTake ==
  ASSUME NEW r \in Receivers, Queue # <<>>, Queue' = Tail(Queue),
         Got' = [Got EXCEPT ![r] = Append(@, Head(Queue))],
         UNCHANGED <<closed, buf_cap>>
  PROVE  Fifo!Next
BY DEF Fifo!Next, Fifo!Take, Fifo!Give, Queue, Got

LEMMA IsHandoff ==
  ASSUME NEW r \in Receivers, NEW v \in Values, ~closed, Queue = <<>>, Queue' = <<>>,
         Got' = [Got EXCEPT ![r] = Append(@, v)],
         UNCHANGED <<closed, buf_cap>>
  PROVE  Fifo!Next
BY DEF Fifo!Next, Fifo!Handoff, Fifo!Give, Queue, Got

LEMMA IsClose ==
  ASSUME ~closed, closed',
         Queue' = SubSeq(Queue, 1, IF Len(Queue) < buf_cap THEN Len(Queue) ELSE buf_cap),
         UNCHANGED <<Got, buf_cap>>
  PROVE  Fifo!Next
BY DEF Fifo!Next, Fifo!Close, Queue, Got

(* A value that recv returns, or that is delivered, to a receiver that has *)
(* none waiting adds to what that receiver got.                            *)
LEMMA GotAdds ==
  ASSUME NEW r \in Receivers, NEW x \in Values,
         delivered[r] = NoValue,
         \A s \in Receivers \ {r} : received'[s] = received[s] /\ delivered'[s] = delivered[s],
         \/ received'[r] = Append(received[r], x) /\ delivered'[r] = NoValue
         \/ received'[r] = received[r] /\ delivered'[r] = x
  PROVE  Got' = [Got EXCEPT ![r] = Append(@, x)]
<1>1. x # NoValue
  BY ChanAssumption
<1>2. Got'[r] = Append(Got[r], x) /\ \A s \in Receivers \ {r} : Got'[s] = Got[s]
  BY <1>1 DEF Got
<1>3. /\ Got' = [s \in Receivers |-> Got'[s]]
      /\ Got = [s \in Receivers |-> Got[s]]
  BY DEF Got
<1> HIDE DEF Got
<1> QED
  BY <1>2, <1>3

LEMMA SendIsFifo ==
  ASSUME PInv, Story, NEW t \in Senders, NEW v \in Values, Send(t, v)
  PROVE  Fifo!Next \/ UNCHANGED Fifo!vars
<1>1. InnerOK /\ ResultsOK /\ UNCHANGED buf_cap
  BY DEF Send, PInv, QInv
<1>2. CASE SendClosed(t)
  <2>1. UNCHANGED <<Queue, Got, closed, buf_cap>>
    BY <1>1, <1>2 DEF SendClosed, Panic, inner, Queue, Got
  <2> QED
    BY <2>1, IsStutter
<1>3. CASE SendToReceiver(t, v)
  <2> DEFINE h == Head(recvq)
  <2>1. /\ ~closed /\ recvq \in Seq(Tasks) /\ recvq # <<>>
        /\ delivered' = [delivered EXCEPT ![h] = v]
        /\ UNCHANGED <<buf, sendq, closed, received>>
    BY <1>1, <1>3 DEF SendToReceiver, InnerOK, Send, SendClosed
  <2>2. h \in InRecvq /\ h \in Tasks
    BY <2>1, ListTail DEF InRecvq
  <2>3. h \in Receivers /\ delivered[h] = NoValue
    BY <2>2 DEF Story, RecvqReceives, DeliveredOnce
  <2>4. /\ delivered'[h] = v
        /\ \A s \in Receivers \ {h} : delivered'[s] = delivered[s]
    BY <1>1, <2>1, <2>2 DEF InnerOK, Tasks
  <2>5. Got' = [Got EXCEPT ![h] = Append(@, v)]
    BY <2>1, <2>3, <2>4, GotAdds
  <2>6. buf = <<>> /\ sendq = <<>>
    BY <2>1 DEF PInv, QInv, QueuesAgree
  <2>7. Queue = <<>> /\ Queue' = <<>>
    BY <2>1, <2>6, SendqEmpty, ConcatEmptySeq DEF Queue
  <2> QED
    BY <1>1, <2>1, <2>3, <2>5, <2>7, IsHandoff
<1>4. CASE SendToBuffer(t, v) \/ SendBlocks(t, v)
  <2>1. ~closed /\ UNCHANGED <<Got, closed>>
    BY <1>4 DEF SendToBuffer, SendBlocks, Send, SendClosed, Got
  <2>2. CASE SendToBuffer(t, v)
    <3>1. buf' = Append(buf, v) /\ buf' \in Seq(Values) /\ UNCHANGED sendq
      BY <1>1, <2>2 DEF SendToBuffer, InnerOK
    <3>2. sendq = <<>>
      BY <2>2 DEF SendToBuffer, PInv, QInv, QueuesAgree
    <3>3. Queue = buf /\ Queue' = buf'
      BY <1>1, <3>1, <3>2, SendqEmpty, ConcatEmptySeq DEF Queue, InnerOK
    <3> QED
      BY <1>1, <2>1, <3>1, <3>3, IsPut
  <2>3. CASE SendBlocks(t, v)
    <3>1. sendq' = Append(sendq, [task |-> t, data |-> v]) /\ UNCHANGED buf
      BY <2>3 DEF SendBlocks
    <3>2. DataOf(sendq') = Append(DataOf(sendq), v) /\ DataOf(sendq) \in Seq(Values)
      BY <1>1, <3>1, SendqAppend, SendqColumns DEF InnerOK, Tasks
    <3>3. buf \o Append(DataOf(sendq), v) = Append(buf \o DataOf(sendq), v)
      BY <1>1, <3>2, AppendToLine DEF InnerOK
    <3>4. Queue' = Append(Queue, v)
      BY <3>1, <3>2, <3>3 DEF Queue
    <3> QED
      BY <1>1, <2>1, <3>4, IsPut
  <2> QED
    BY <1>4, <2>2, <2>3
<1> QED
  BY <1>2, <1>3, <1>4 DEF Send

LEMMA RecvIsFifo ==
  ASSUME PInv, Story, NEW t \in Receivers, Recv(t)
  PROVE  Fifo!Next \/ UNCHANGED Fifo!vars
<1>1. InnerOK /\ ResultsOK /\ UNCHANGED buf_cap
  BY DEF Recv, PInv, QInv
<1>2. CASE RecvClosed(t) \/ RecvBlocks(t)
  <2>1. UNCHANGED <<Queue, Got, closed, buf_cap>>
    BY <1>1, <1>2 DEF RecvClosed, RecvBlocks, ReceiveNone, inner, Queue, Got
  <2> QED
    BY <2>1, IsStutter
<1>3. CASE RecvFromSender(t) \/ RecvFromBuffer(t)
  <2>1. /\ t \in Tasks /\ delivered[t] = NoValue
        /\ UNCHANGED <<closed, delivered>>
    BY <1>3, CallerHasNothing DEF RecvFromSender, RecvFromBuffer, Recv, Tasks
  <2>2. ASSUME NEW x \in Values, Receive(t, x)
        PROVE  Got' = [Got EXCEPT ![t] = Append(@, x)]
    <3>1. /\ received'[t] = Append(received[t], x)
          /\ \A s \in Receivers \ {t} : received'[s] = received[s]
      BY <1>1, <2>1, <2>2, ReceiveReturns DEF Tasks
    <3> QED
      BY <2>1, <3>1, GotAdds
  <2>3. SUFFICES \E x \in Values : /\ Receive(t, x) /\ Queue # <<>>
                                   /\ x = Head(Queue) /\ Queue' = Tail(Queue)
    BY <1>1, <2>1, <2>2, <2>3, IsTake
  <2>4. CASE RecvFromBuffer(t)
    <3>1. /\ sendq = <<>> /\ sendq' = sendq /\ buf \in Seq(Values) /\ buf # <<>>
          /\ buf' = Tail(buf) /\ Receive(t, Head(buf))
      BY <1>1, <2>4 DEF RecvFromBuffer, InnerOK
    <3>2. Head(buf) \in Values /\ Tail(buf) \in Seq(Values)
      BY <3>1, ListTail
    <3>3. Queue = buf /\ Queue' = buf'
      BY <3>1, <3>2, SendqEmpty, ConcatEmptySeq DEF Queue
    <3> QED
      BY <3>1, <3>2, <3>3
  <2>5. CASE RecvFromSender(t)
    <3> DEFINE data == DataOf(sendq)
               line == Append(buf, Head(sendq).data)
    <3>1. /\ sendq # <<>> /\ sendq \in Seq(SendWaiter) /\ buf \in Seq(Values)
          /\ sendq' = Tail(sendq)
      BY <1>1, <2>5 DEF RecvFromSender, InnerOK
    <3>2. /\ data \in Seq(Values) /\ data # <<>>
          /\ DataOf(sendq') = Tail(data)
          /\ Head(sendq).data = Head(data) /\ Head(data) \in Values
      BY <3>1, SendqColumns, SendqTail, ListTail
    <3> HIDE DEF data
    <3>3. CASE buf_cap = 0
      <4>1. Receive(t, Head(data)) /\ UNCHANGED buf
        BY <2>5, <3>2, <3>3 DEF RecvFromSender
      <4>2. buf = <<>>
        BY <1>1, <3>3 DEF InnerOK, PInv, QInv, QueuesAgree
      <4>3. Tail(data) \in Seq(Values)
        BY <3>2, ListTail
      <4>4. Queue = data /\ Queue' = Tail(data)
        BY <3>2, <4>1, <4>2, <4>3, ConcatEmptySeq DEF Queue, data
      <4> QED
        BY <3>2, <4>1, <4>4
    <3>4. CASE buf_cap # 0
      <4>1. Receive(t, Head(line)) /\ buf' = Tail(line)
        BY <2>5, <3>4 DEF RecvFromSender
      <4>2. buf # <<>>
        BY <1>1, <3>1, <3>4 DEF InnerOK, PInv, QInv, QueuesAgree
      <4>3. line = Append(buf, Head(data)) /\ line \in Seq(Values) /\ line # <<>>
        BY <3>1, <3>2, AppendProperties
      <4>4. Queue = buf \o data /\ Queue' = Tail(line) \o Tail(data)
        BY <3>2, <4>1 DEF Queue, data
      <4>5. Head(line) = Head(buf \o data) /\ Tail(line) \o Tail(data) = Tail(buf \o data)
        BY <3>1, <3>2, <4>2, <4>3, TakeAndMoveUp
      <4>6. Queue # <<>>
        BY <3>1, <3>2, <4>2, <4>4, TakeFromBuffer
      <4>7. Head(line) \in Values
        BY <4>3, ListTail
      <4> HIDE DEF line
      <4> QED
        BY <4>1, <4>4, <4>5, <4>6, <4>7
    <3> QED
      BY <3>3, <3>4
  <2> QED
    BY <1>3, <2>4, <2>5
<1> QED
  BY <1>2, <1>3 DEF Recv

LEMMA CloseIsFifo ==
  ASSUME PInv, NEW t \in Closers, Close(t)
  PROVE  Fifo!Next \/ UNCHANGED Fifo!vars
<1>1. InnerOK /\ UNCHANGED buf_cap
  BY DEF Close, PInv, QInv
<1>2. CASE closed
  <2>1. UNCHANGED <<Queue, Got, closed, buf_cap>>
    BY <1>1, <1>2 DEF Close, Panic, inner, Queue, Got
  <2> QED
    BY <2>1, IsStutter
<1>3. CASE ~closed
  <2> DEFINE data == DataOf(sendq)
             keep == IF Len(Queue) < buf_cap THEN Len(Queue) ELSE buf_cap
  <2>1. /\ closed' = TRUE /\ sendq' = <<>> /\ UNCHANGED <<buf, delivered, received>>
        /\ buf \in Seq(Values) /\ Len(buf) <= buf_cap /\ buf_cap \in Nat
        /\ sendq \in Seq(SendWaiter)
        /\ sendq # <<>> => Len(buf) = buf_cap
    BY <1>1, <1>3, ChanAssumption DEF Close, Panic, InnerOK, PInv, QInv, QueuesAgree
  <2>2. data \in Seq(Values) /\ Len(data) = Len(sendq) /\ (sendq = <<>> => data = <<>>)
    BY <2>1, SendqColumns, SendqEmpty
  <2>3. Queue' = buf
    BY <2>1, SendqEmpty, ConcatEmptySeq DEF Queue
  <2>4. SubSeq(Queue, 1, keep) = buf
    <3> HIDE DEF data
    <3>1. Queue = buf \o data
      BY DEF Queue, data
    <3>2. Len(Queue) = Len(buf) + Len(data) /\ Len(buf) \in Nat /\ Len(data) \in Nat
      <4> HIDE DEF Queue
      <4>1. Len(buf \o data) = Len(buf) + Len(data)
        BY <2>1, <2>2, ConcatProperties
      <4> QED
        BY <2>1, <2>2, <3>1, <4>1
    <3>3. keep = Len(buf)
      <4>1. sendq = <<>> => Len(data) = 0
        BY <2>2
      <4> HIDE DEF Queue
      <4> QED
        BY <2>1, <3>2, <4>1
    <3> HIDE DEF keep
    <3> QED
      BY <2>1, <2>2, <3>1, <3>3, CutLine
  <2>5. UNCHANGED Got
    BY <2>1 DEF Got
  <2> QED
    BY <1>1, <1>3, <2>1, <2>3, <2>4, <2>5, IsClose
<1> QED
  BY <1>2, <1>3

LEMMA ContinueIsFifo ==
  ASSUME PInv, NEW t \in Tasks, Continue(t)
  PROVE  UNCHANGED Fifo!vars
<1>1. UNCHANGED <<buf, sendq, closed, buf_cap>>
  BY DEF Continue, Schedule, SendResume, RecvResume, WakeNext, Panic, inner
<1>2. UNCHANGED Got
  <2>1. CASE UNCHANGED <<delivered, received>>
    BY <2>1 DEF Got
  <2>2. CASE RecvResume(t) /\ delivered[t] # NoValue
    <3>1. InnerOK /\ ResultsOK
      BY DEF PInv, QInv
    <3>2. /\ received'[t] = Append(received[t], delivered[t])
          /\ delivered'[t] = NoValue
          /\ \A s \in Receivers \ {t} : received'[s] = received[s] /\ delivered'[s] = delivered[s]
      BY <2>2, <3>1 DEF RecvResume, Receive, InnerOK, ResultsOK, Tasks
    <3> QED
      BY <2>2, <3>2 DEF Got
  <2>3. CASE RecvResume(t) /\ delivered[t] = NoValue
    <3>1. UNCHANGED <<delivered, received>>
      BY <2>3 DEF RecvResume, ReceiveNone, PInv, QInv, InnerOK
    <3> QED
      BY <3>1 DEF Got
  <2> QED
    BY <2>1, <2>2, <2>3 DEF Continue, Schedule, SendResume, WakeNext, Panic, inner, calls
<1>3. UNCHANGED Queue
  BY <1>1 DEF Queue
<1> QED
  BY <1>1, <1>2, <1>3, IsStutter

(* A channel is one first-in first-out queue: the values wait in the       *)
(* buffer and then in the sendq, each is received once and in the order it *)
(* was sent, and close withdraws those still in the sendq                  *)
(* (channel.rs:697-825).                                                   *)
THEOREM ChannelIsFifo == Spec => ImplementsFifo
<1>1. PInv /\ Story /\ [Next]_vars => [Fifo!Next]_(Fifo!vars)
  <2>1. UNCHANGED vars => UNCHANGED Fifo!vars
    BY IsStutter DEF vars, inner, calls, Queue, Got
  <2> QED
    BY <2>1, SendIsFifo, RecvIsFifo, CloseIsFifo, ContinueIsFifo DEF Next, Call
<1> QED
  BY <1>1, FifoInit, StoryAlways, ParkingAlways, PTL DEF Spec, ImplementsFifo, Fifo!Spec
=============================================================================
