---------------------------- MODULE FifoChannel -----------------------------
(***************************************************************************)
(* What a channel promises, free of tasks that block: one first-in         *)
(* first-out queue of the values sent, each received once, that can be     *)
(* closed.  The values beyond the capacity are offers of senders that have *)
(* not returned yet; closing the channel withdraws them.                   *)
(***************************************************************************)
EXTENDS Naturals, Sequences

CONSTANTS Receivers, Values

VARIABLES
  chan,    \* the values sent and not yet received, oldest first
  got,     \* what each receiver has received
  open,
  cap      \* how many values it holds once it is closed

vars == <<chan, got, open, cap>>

Init ==
  /\ chan = <<>>
  /\ got = [r \in Receivers |-> <<>>]
  /\ open = TRUE
  /\ cap \in Nat

Put(v) ==
  /\ open
  /\ chan' = Append(chan, v)
  /\ UNCHANGED <<got, open>>

Give(r, v) == got' = [got EXCEPT ![r] = Append(@, v)]

Take(r) ==
  /\ chan # <<>>
  /\ Give(r, Head(chan))
  /\ chan' = Tail(chan)
  /\ UNCHANGED open

(* A value passes straight to a receiver only if it overtakes no other.    *)
Handoff(r, v) ==
  /\ open
  /\ chan = <<>>
  /\ Give(r, v)
  /\ UNCHANGED <<chan, open>>

Close ==
  /\ open
  /\ open' = FALSE
  /\ chan' = SubSeq(chan, 1, IF Len(chan) < cap THEN Len(chan) ELSE cap)
  /\ UNCHANGED got

Next ==
  /\ UNCHANGED cap
  /\ \/ \E v \in Values : Put(v) \/ \E r \in Receivers : Handoff(r, v)
     \/ \E r \in Receivers : Take(r)
     \/ Close

Spec == Init /\ [][Next]_vars
=============================================================================
