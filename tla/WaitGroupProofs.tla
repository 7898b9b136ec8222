--------------------------- MODULE WaitGroupProofs --------------------------
(***************************************************************************)
(* Wait groups, for any tasks, any deltas and any width of the counter:    *)
(* the counter never wraps unnoticed, nobody waits for nothing, wait       *)
(* returns only after the counter has been zero, and each goready is owed. *)
(***************************************************************************)
EXTENDS WaitGroup, SeqLemmas, TLAPS

-----------------------------------------------------------------------------
(* The counter.                                                            *)

(* As long as the counter is not negative, an addition either fits or      *)
(* comes out negative.                                                     *)
LEMMA WrapIsSeen ==
  ASSUME counter \in 0 .. MaxInt, NEW delta \in Deltas
  PROVE  /\ Wrap(counter + delta) \in -MaxInt - 1 .. MaxInt
         /\ Wrap(counter + delta) >= 0 => Wrap(counter + delta) = counter + delta
BY WaitGroupAssumption DEF Wrap

(* Until the program aborts, the counter is a true count, and positive     *)
(* while a task is registered.                                             *)
Counting ==
  ~Aborted => /\ counter >= 0
              /\ counter = total
              /\ waiters # <<>> => counter > 0

CInv == TypeOK /\ Counting

LEMMA CountingInit == Init => CInv
<1> SUFFICES ASSUME Init PROVE CInv
  OBVIOUS
<1>1. <<>> \in Seq(Tasks) /\ counter = 0
  BY DEF Init
<1> QED
  BY <1>1, WaitGroupAssumption DEF Init, CInv, Counting, TypeOK, Park!Status

LEMMA AddCounts ==
  ASSUME CInv, NEW t \in Adders, NEW delta \in Deltas, Add(t, delta)
  PROVE  CInv'
<1> DEFINE sum == Wrap(counter + delta)
<1>1. t \in Tasks /\ at[t] = "code" /\ ~Aborted
  BY DEF Add, Calling, Tasks
<1>2. counter \in 0 .. MaxInt /\ counter = total
  BY <1>1 DEF CInv, Counting, TypeOK
<1>3. sum \in -MaxInt - 1 .. MaxInt /\ (sum >= 0 => sum = total + delta)
  BY <1>2, WrapIsSeen
<1>4. /\ counter' = sum
      /\ total' = total + delta
      /\ total' \in Int
  BY <1>2, WaitGroupAssumption DEF Add, CInv, TypeOK
<1>5. released' \in SUBSET Tasks /\ UNCHANGED <<status, pre_ready>>
  BY DEF Add, CInv, TypeOK, Range
<1>6. CASE sum < 0 /\ Goto(t, "panicked") /\ UNCHANGED <<waiters, wake_list>>
  <2>1. at'[t] = "panicked" /\ at' \in [Tasks -> {"code", "waking", "waiting", "panicked"}]
    BY <1>1, <1>6 DEF Goto, CInv, TypeOK
  <2> QED
    BY <1>1, <1>3, <1>4, <1>5, <1>6, <2>1 DEF CInv, TypeOK, Counting, Aborted
<1>7. CASE /\ sum >= 0
           /\ Goto(t, "waking")
           /\ wake_list' \in [Tasks -> Seq(Tasks)]
           /\ waiters' \in Seq(Tasks)
           /\ sum = 0 => waiters' = <<>>
  <2>1. at' \in [Tasks -> {"code", "waking", "waiting", "panicked"}]
    BY <1>7 DEF Goto, CInv, TypeOK
  <2> QED
    BY <1>3, <1>4, <1>5, <1>7, <2>1 DEF CInv, TypeOK, Counting
<1>8. CASE /\ sum = 0
           /\ wake_list' = [wake_list EXCEPT ![t] = waiters]
           /\ waiters' = <<>>
           /\ Goto(t, "waking")
  <2>1. <<>> \in Seq(Tasks)
    OBVIOUS
  <2>2. wake_list' \in [Tasks -> Seq(Tasks)] /\ waiters' \in Seq(Tasks)
    BY <1>8, <2>1 DEF CInv, TypeOK
  <2> QED
    BY <1>7, <1>8, <2>2
<1>9. CASE sum > 0 /\ Goto(t, "waking") /\ UNCHANGED <<waiters, wake_list>>
  BY <1>3, <1>7, <1>9 DEF CInv, TypeOK
<1> QED
  BY <1>6, <1>8, <1>9 DEF Add

LEMMA WaitCounts == ASSUME CInv, NEW t \in Waiters, Wait(t) PROVE CInv'
<1>1. t \in Tasks /\ at[t] = "code" /\ ~Aborted
  BY DEF Wait, Calling, Tasks
<1>2. CASE UNCHANGED <<counter, waiters, at, wake_list, status, pre_ready, total, released>>
  BY <1>2 DEF CInv, TypeOK, Counting, Aborted
<1>3. CASE /\ counter # 0
           /\ waiters' = Append(waiters, t)
           /\ Goto(t, "waiting")
           /\ Park!Suspend(t)
  <2>1. waiters' \in Seq(Tasks)
    BY <1>1, <1>3 DEF CInv, TypeOK
  <2>2. /\ status' \in [Tasks -> Park!Status]
        /\ pre_ready' = pre_ready
    BY <1>3 DEF CInv, TypeOK, Park!Suspend, Park!Move, Park!Status
  <2>3. at' \in [Tasks -> {"code", "waking", "waiting", "panicked"}]
    BY <1>3 DEF Goto, CInv, TypeOK
  <2>4. UNCHANGED <<counter, wake_list, total, released>> /\ counter > 0
    BY <1>1, <1>3 DEF Wait, CInv, TypeOK, Counting
  <2> QED
    BY <1>1, <2>1, <2>2, <2>3, <2>4 DEF CInv, TypeOK, Counting
<1> QED
  BY <1>2, <1>3 DEF Wait

LEMMA WakesAreTyped ==
  ASSUME CInv, NEW t \in Tasks, Park!Wake(t) \/ Park!Run(t) \/ Park!Settle(t)
  PROVE  status' \in [Tasks -> Park!Status] /\ pre_ready' \in SUBSET Tasks
BY DEF CInv, TypeOK, Park!Wake, Park!Run, Park!Settle, Park!Move, Park!Status

LEMMA ContinueCounts == ASSUME CInv, NEW t \in Tasks, Continue(t) PROVE CInv'
<1>1. CASE Schedule(t)
  BY <1>1, WakesAreTyped DEF Schedule, CInv, TypeOK, Counting
<1>2. CASE WakeNext(t)
  <2>1. ~Aborted /\ UNCHANGED <<counter, waiters, total, released>>
    BY <1>2 DEF WakeNext
  <2>2. at' \in [Tasks -> {"code", "waking", "waiting", "panicked"}]
    BY <1>2 DEF WakeNext, Goto, CInv, TypeOK
  <2>3. CASE /\ wake_list[t] # <<>>
             /\ Park!Wake(Head(wake_list[t]))
             /\ wake_list' = [wake_list EXCEPT ![t] = Tail(@)]
    <3>1. /\ wake_list[t] \in Seq(Tasks)
          /\ Head(wake_list[t]) \in Tasks
          /\ Tail(wake_list[t]) \in Seq(Tasks)
      BY <2>3 DEF CInv, TypeOK
    <3>2. wake_list' \in [Tasks -> Seq(Tasks)]
      BY <2>3, <3>1 DEF CInv, TypeOK
    <3> QED
      BY <2>1, <2>2, <2>3, <3>1, <3>2, WakesAreTyped DEF CInv, TypeOK, Counting
  <2>4. CASE UNCHANGED <<wake_list, status, pre_ready>>
    BY <2>1, <2>2, <2>4 DEF CInv, TypeOK, Counting
  <2> QED
    BY <1>2, <2>3, <2>4 DEF WakeNext
<1>3. CASE WaitReturns(t)
  BY <1>3 DEF WaitReturns, Goto, CInv, TypeOK, Counting
<1> QED
  BY <1>1, <1>2, <1>3 DEF Continue

LEMMA CountingNext == CInv /\ [Next]_vars => CInv'
<1>1. CInv /\ UNCHANGED vars => CInv'
  BY DEF vars, CInv, TypeOK, Counting, Aborted
<1> QED
  BY <1>1, AddCounts, WaitCounts, ContinueCounts DEF Next

LEMMA CountingAlways == Spec => []CInv
BY CountingInit, CountingNext, PTL DEF Spec

(* The state keeps its types; the counter stays an i32 (sync.rs:43-46).    *)
THEOREM TypeCorrect == Spec => []TypeOK
<1>1. CInv => TypeOK
  BY DEF CInv
<1> QED
  BY <1>1, CountingAlways, PTL

(* A registered task has work outstanding that will end its wait           *)
(* (sync.rs:77-83, 102-110).                                               *)
THEOREM NobodyWaitsInVain == Spec => []NobodyLeftBehind
<1>1. CInv => NobodyLeftBehind
  BY DEF CInv, Counting, NobodyLeftBehind
<1> QED
  BY <1>1, CountingAlways, PTL

(* An addition that wraps panics in a release build too, whatever the      *)
(* deltas are: the counter never becomes a wrong positive number           *)
(* (sync.rs:71-75).                                                        *)
THEOREM CounterNeverWraps == Spec => []CounterIsTheSum
<1>1. CInv => CounterIsTheSum
  BY DEF CInv, Counting, CounterIsTheSum
<1> QED
  BY <1>1, CountingAlways, PTL

-----------------------------------------------------------------------------
(* Who has been released.                                                  *)

RInv == TypeOK /\ WakeMeansZero

LEMMA ReleasedInit == Init => RInv
BY CountingInit DEF Init, CInv, RInv, WakeMeansZero

LEMMA ReleasedNext == CInv' /\ RInv /\ [Next]_vars => RInv'
<1> SUFFICES ASSUME CInv', RInv, [Next]_vars PROVE WakeMeansZero'
  BY DEF RInv, CInv
<1> USE DEF RInv, TypeOK, WakeMeansZero
<1>1. ASSUME NEW t \in Adders, NEW delta \in Deltas, Add(t, delta)
      PROVE  WakeMeansZero'
  <2>1. \A u \in Tasks : at'[u] = "waiting" => at[u] = "waiting"
    BY <1>1 DEF Add, Goto
  <2>2. released \subseteq released'
    BY <1>1 DEF Add
  <2>3. CASE waiters' = waiters
    BY <2>1, <2>2, <2>3
  <2>4. CASE Wrap(counter + delta) = 0
    BY <1>1, <2>1, <2>4 DEF Add
  <2> QED
    BY <1>1, <2>3, <2>4 DEF Add
<1>2. ASSUME NEW t \in Waiters, Wait(t) PROVE WakeMeansZero'
  <2>1. CASE UNCHANGED <<waiters, at>>
    BY <1>2, <2>1 DEF Wait
  <2>2. CASE waiters' = Append(waiters, t) /\ Goto(t, "waiting")
    <3>1. Range(waiters') = Range(waiters) \cup {t}
      BY <2>2, ListAppend DEF Tasks
    <3> QED
      BY <1>2, <2>2, <3>1 DEF Wait, Goto
  <2> QED
    BY <1>2, <2>1, <2>2 DEF Wait
<1>3. ASSUME NEW t \in Tasks, Continue(t) PROVE WakeMeansZero'
  BY <1>3 DEF Continue, Schedule, WakeNext, WaitReturns, Goto
<1>4. CASE UNCHANGED vars
  BY <1>4 DEF vars
<1> QED
  BY <1>1, <1>2, <1>3, <1>4 DEF Next

(* A wait that parks returns only after the counter has been zero while    *)
(* the task was registered (sync.rs:98-114).                               *)
THEOREM WaitEndsAtZero == Spec => []WakeMeansZero
<1>1. RInv => WakeMeansZero
  BY DEF RInv
<1> QED
  BY <1>1, ReleasedInit, ReleasedNext, CountingAlways, PTL DEF Spec

-----------------------------------------------------------------------------
(* The parking contract.                                                   *)

(* An id lies in one place only, and a task that is not waking others has  *)
(* nobody left to wake.                                                    *)
Once ==
  /\ IsInjective(waiters)
  /\ \A t \in Tasks :
       /\ IsInjective(wake_list[t])
       /\ at[t] # "waking" => wake_list[t] = <<>>
       /\ Range(waiters) \cap Range(wake_list[t]) = {}
       /\ \A u \in Tasks \ {t} : Range(wake_list[t]) \cap Range(wake_list[u]) = {}

PInv == TypeOK /\ Once /\ Park!IInv

(* What PInv says of a task in its own code.                               *)
LEMMA CallerIsFree ==
  ASSUME PInv, NEW t \in Tasks, Calling(t)
  PROVE  t \notin Armed /\ wake_list[t] = <<>>
BY DEF PInv, Once, Calling, Park!IInv, Park!OneWakeEach

LEMMA ParkingInit == Init => PInv /\ Park!Init
<1> SUFFICES ASSUME Init PROVE PInv /\ Park!Init
  OBVIOUS
<1>1. Armed = {}
  BY EmptyList DEF Init, Armed
<1>2. IsInjective(<<>>)
  BY DEF IsInjective
<1>3. Once
  BY <1>2, EmptyList DEF Init, Once
<1>4. Park!IInv
  BY <1>1 DEF Init, Park!IInv, Park!TypeOK, Park!OneWakeEach, Park!Status
<1>5. Park!Init
  BY <1>1 DEF Init, Park!Init
<1> QED
  BY <1>3, <1>4, <1>5, CountingInit DEF PInv, CInv

(* A step that leaves the ids where they are.                              *)
LEMMA IdsStay ==
  ASSUME PInv, UNCHANGED <<waiters, wake_list>>,
         \A t \in Tasks : at'[t] # "waking" => wake_list[t] = <<>>
  PROVE  Once' /\ Armed' = Armed
<1>1. Armed' = Armed
  BY DEF Armed, Range
<1>2. Once'
  BY DEF PInv, Once
<1> QED
  BY <1>1, <1>2

(* add moves the ids from the waiters to the wake list: the contract sees  *)
(* nothing.                                                                *)
LEMMA AddParks ==
  ASSUME PInv, TypeOK', NEW t \in Adders, NEW delta \in Deltas, Add(t, delta)
  PROVE  Once' /\ UNCHANGED Park!vars
<1>1. t \in Tasks /\ Calling(t) /\ UNCHANGED <<status, pre_ready>>
  BY DEF Add, Tasks
<1>2. wake_list[t] = <<>>
  BY <1>1, CallerIsFree
<1>3. CASE UNCHANGED <<waiters, wake_list>>
  <2>1. \A u \in Tasks : at'[u] # "waking" => wake_list[u] = <<>>
    BY <1>1, <1>2 DEF Add, Goto, PInv, TypeOK, Once
  <2> QED
    BY <1>1, <1>3, <2>1, IdsStay DEF Park!vars
<1>4. CASE /\ wake_list' = [wake_list EXCEPT ![t] = waiters]
           /\ waiters' = <<>>
           /\ Goto(t, "waking")
  <2>1. /\ wake_list'[t] = waiters
        /\ \A u \in Tasks \ {t} : wake_list'[u] = wake_list[u] /\ at'[u] = at[u]
        /\ at'[t] = "waking"
    BY <1>1, <1>4 DEF Goto, PInv, TypeOK
  <2>2. Armed' = Armed
    BY <1>1, <1>2, <1>4, <2>1, EmptyList DEF Armed
  <2>3. IsInjective(waiters')
    BY <1>4 DEF IsInjective
  <2>4. Once'
    BY <1>4, <2>1, <2>3, EmptyList DEF PInv, Once
  <2> QED
    BY <1>1, <2>2, <2>4 DEF Park!vars
<1> QED
  BY <1>3, <1>4 DEF Add

(* wait publishes the id of the task that parks.                           *)
LEMMA WaitParks ==
  ASSUME PInv, NEW t \in Waiters, Wait(t)
  PROVE  Once' /\ (UNCHANGED Park!vars \/ Park!Publish(t))
<1>1. t \in Tasks /\ Calling(t) /\ UNCHANGED wake_list
  BY DEF Wait, Tasks
<1>2. t \notin Armed
  BY <1>1, CallerIsFree
<1>3. CASE UNCHANGED <<waiters, at, status, pre_ready>>
  <2>1. \A u \in Tasks : at'[u] # "waking" => wake_list[u] = <<>>
    BY <1>3 DEF PInv, Once
  <2> QED
    BY <1>1, <1>3, <2>1, IdsStay DEF Park!vars
<1>4. CASE /\ waiters' = Append(waiters, t)
           /\ Goto(t, "waiting")
           /\ Park!Suspend(t)
  <2>1. /\ Range(waiters') = Range(waiters) \cup {t}
        /\ IsInjective(waiters')
    BY <1>1, <1>2, <1>4, ListAppend DEF PInv, TypeOK, Once, Armed
  <2>2. Armed' = Armed \cup {t}
    BY <1>1, <2>1 DEF Armed
  <2>3. \A u \in Tasks : t \notin Range(wake_list[u])
    BY <1>2 DEF Armed
  <2>4. \A u \in Tasks : at'[u] # "waking" => wake_list[u] = <<>>
    BY <1>1, <1>4 DEF Goto, Calling, PInv, TypeOK, Once
  <2>5. Once'
    BY <1>1, <2>1, <2>3, <2>4 DEF PInv, Once
  <2> QED
    BY <1>4, <2>2, <2>5 DEF Park!Publish
<1> QED
  BY <1>3, <1>4 DEF Wait

(* goready is called with an id that was published, and only once.         *)
LEMMA WakeParks ==
  ASSUME PInv, NEW t \in Tasks, WakeNext(t)
  PROVE  Once' /\ (UNCHANGED Park!vars \/ \E h \in Tasks : Park!Ready(h))
<1>1. UNCHANGED waiters /\ at[t] = "waking"
  BY DEF WakeNext
<1>2. CASE /\ wake_list[t] # <<>>
           /\ Park!Wake(Head(wake_list[t]))
           /\ wake_list' = [wake_list EXCEPT ![t] = Tail(@)]
           /\ UNCHANGED at
  <2> DEFINE h == Head(wake_list[t])
  <2>1. wake_list[t] \in Seq(Tasks) /\ IsInjective(wake_list[t])
    BY DEF PInv, TypeOK, Once
  <2>2. h \in Tasks
    BY <1>2, <2>1
  <2>3. /\ wake_list'[t] = Tail(wake_list[t])
        /\ \A u \in Tasks \ {t} : wake_list'[u] = wake_list[u]
    BY <1>2 DEF PInv, TypeOK
  <2>4. /\ h \in Range(wake_list[t])
        /\ Range(wake_list'[t]) = Range(wake_list[t]) \ {h}
        /\ IsInjective(wake_list'[t])
    BY <1>2, <2>1, <2>3, ListTail
  <2>5. /\ h \notin Range(waiters)
        /\ \A u \in Tasks \ {t} : h \notin Range(wake_list[u])
    BY <2>4 DEF PInv, Once
  <2>6. h \in Armed /\ Armed' = Armed \ {h}
    BY <1>1, <2>3, <2>4, <2>5 DEF Armed
  <2>7. Once'
    BY <1>1, <1>2, <2>3, <2>4 DEF PInv, Once
  <2> QED
    BY <1>2, <2>2, <2>6, <2>7 DEF Park!Ready
<1>3. CASE /\ wake_list[t] = <<>>
           /\ Goto(t, "code")
           /\ UNCHANGED <<wake_list, status, pre_ready>>
  <2>1. \A u \in Tasks : at'[u] # "waking" => wake_list[u] = <<>>
    BY <1>3 DEF Goto, PInv, TypeOK, Once
  <2> QED
    BY <1>1, <1>3, <2>1, IdsStay DEF Park!vars
<1> QED
  BY <1>2, <1>3 DEF WakeNext

(* Each step of the group and of its callers is a step of the contract.    *)
LEMMA StepKeepsContract ==
  PInv /\ TypeOK' /\ [Next]_vars => Once' /\ [Park!Next]_(Park!vars)
<1> SUFFICES ASSUME PInv, TypeOK', [Next]_vars
             PROVE  Once' /\ [Park!Next]_(Park!vars)
  OBVIOUS
<1>1. ASSUME NEW t \in Adders, NEW delta \in Deltas, Add(t, delta)
      PROVE  Once' /\ [Park!Next]_(Park!vars)
  BY <1>1, AddParks
<1>2. ASSUME NEW t \in Waiters, Wait(t) PROVE Once' /\ [Park!Next]_(Park!vars)
  BY <1>2, WaitParks DEF Park!Next, Tasks
<1>3. ASSUME NEW t \in Tasks, WakeNext(t) PROVE Once' /\ [Park!Next]_(Park!vars)
  BY <1>3, WakeParks DEF Park!Next
<1>4. ASSUME NEW t \in Tasks, Schedule(t) PROVE Once' /\ [Park!Next]_(Park!vars)
  BY <1>4 DEF Schedule, Park!Next, PInv, Once
<1>5. ASSUME NEW t \in Tasks, WaitReturns(t) PROVE Once' /\ [Park!Next]_(Park!vars)
  <2>1. \A u \in Tasks : at'[u] # "waking" => wake_list[u] = <<>>
    BY <1>5 DEF WaitReturns, Goto, PInv, TypeOK, Once
  <2> QED
    BY <1>5, <2>1, IdsStay DEF WaitReturns, Park!vars
<1>6. CASE UNCHANGED vars
  <2>1. \A u \in Tasks : at'[u] # "waking" => wake_list[u] = <<>>
    BY <1>6 DEF vars, PInv, Once
  <2> QED
    BY <1>6, <2>1, IdsStay DEF vars, Park!vars
<1> QED
  BY <1>1, <1>2, <1>3, <1>4, <1>5, <1>6 DEF Next, Continue

LEMMA ParkingNext ==
  PInv /\ TypeOK' /\ [Next]_vars => PInv' /\ [Park!Next]_(Park!vars)
BY StepKeepsContract, Park!NextInv DEF PInv

(* The wait group keeps its side of the parking contract: every goready it *)
(* makes is owed to a task that registered and has not been woken since,   *)
(* also while the counter reaches zero again before the wake list of the   *)
(* last time is done (sync.rs:77-90).                                      *)
THEOREM GroupKeepsContract == Spec => KeepsParkContract
BY ParkingInit, ParkingNext, TypeCorrect, PTL DEF Spec, KeepsParkContract, Park!Spec
=============================================================================
