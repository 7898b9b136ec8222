------------------------------ MODULE SeqLemmas -----------------------------
(***************************************************************************)
(* Facts about the queues and lists of the runtime: what is in a list,     *)
(* that nobody is in it twice, and a queue that consists of two parts.     *)
(***************************************************************************)
EXTENDS SequenceTheorems, TLAPS

(* The empty list holds nobody.                                            *)
LEMMA EmptyList == Range(<<>>) = {} /\ IsInjective(<<>>)
BY DEF Range, IsInjective

(* A list of one.                                                          *)
LEMMA ListOfOne ==
  ASSUME NEW X, NEW x \in X
  PROVE  <<x>> \in Seq(X) /\ Range(<<x>>) = {x} /\ IsInjective(<<x>>)
BY DEF Range, IsInjective

(* Appending adds one element, once if it was not there before.            *)
LEMMA ListAppend ==
  ASSUME NEW X, NEW s \in Seq(X), NEW x \in X
  PROVE  /\ Append(s, x) \in Seq(X)
         /\ Range(Append(s, x)) = Range(s) \cup {x}
         /\ IsInjective(s) /\ x \notin Range(s) => IsInjective(Append(s, x))
<1> DEFINE u == Append(s, x)
<1>1. /\ u \in Seq(X)
      /\ Len(s) \in Nat
      /\ DOMAIN s = 1 .. Len(s)
      /\ DOMAIN u = 1 .. Len(s) + 1
      /\ \A i \in 1 .. Len(s) : u[i] = s[i]
      /\ u[Len(s) + 1] = x
  OBVIOUS
<1> HIDE DEF u
<1>2. Range(u) \subseteq Range(s) \cup {x}
  BY <1>1 DEF Range
<1>3. Range(s) \subseteq Range(u) /\ x \in Range(u)
  BY <1>1 DEF Range
<1>4. IsInjective(s) /\ x \notin Range(s) => IsInjective(u)
  BY <1>1 DEF IsInjective, Range
<1> QED
  BY <1>1, <1>2, <1>3, <1>4 DEF u

(* Taking the head leaves the others.                                      *)
LEMMA ListTail ==
  ASSUME NEW X, NEW s \in Seq(X), s # <<>>
  PROVE  /\ Head(s) \in X
         /\ Head(s) \in Range(s)
         /\ Tail(s) \in Seq(X)
         /\ Range(s) = Range(Tail(s)) \cup {Head(s)}
         /\ IsInjective(s) => /\ IsInjective(Tail(s))
                              /\ Range(Tail(s)) = Range(s) \ {Head(s)}
<1>1. Len(s) \in Nat \ {0} /\ Head(s) = s[1]
  OBVIOUS
<1>2. /\ Tail(s) \in Seq(X)
      /\ Len(Tail(s)) = Len(s) - 1
      /\ \A i \in 1 .. Len(s) - 1 : Tail(s)[i] = s[i + 1]
  BY <1>1
<1>3. Range(Tail(s)) \subseteq Range(s)
  BY <1>1, <1>2 DEF Range
<1>4. IsInjective(s) => Head(s) \notin Range(Tail(s))
  BY <1>1, <1>2 DEF Range, IsInjective
<1>5. ASSUME NEW i \in DOMAIN s, s[i] # Head(s) PROVE s[i] \in Range(Tail(s))
  <2>1. i - 1 \in DOMAIN Tail(s) /\ Tail(s)[i - 1] = s[i]
    BY <1>1, <1>2, <1>5
  <2> QED
    BY <2>1 DEF Range
<1>6. IsInjective(s) => IsInjective(Tail(s))
  BY <1>1, <1>2 DEF IsInjective
<1>7. Head(s) \in Range(s)
  BY <1>1 DEF Range
<1>8. Range(s) \ {Head(s)} \subseteq Range(Tail(s))
  BY <1>5 DEF Range
<1> QED
  BY <1>1, <1>2, <1>3, <1>4, <1>6, <1>7, <1>8

(* Two lists with nobody in common make one without duplicates.            *)
LEMMA ListConcat ==
  ASSUME NEW X, NEW s \in Seq(X), NEW u \in Seq(X)
  PROVE  /\ s \o u \in Seq(X)
         /\ Range(s \o u) = Range(s) \cup Range(u)
         /\ IsInjective(s) /\ IsInjective(u) /\ Range(s) \cap Range(u) = {}
              => IsInjective(s \o u)
<1>1. /\ s \o u \in Seq(X)
      /\ Len(s) \in Nat /\ Len(u) \in Nat
      /\ DOMAIN (s \o u) = 1 .. Len(s) + Len(u)
      /\ \A i \in 1 .. Len(s) + Len(u) :
           (s \o u)[i] = IF i <= Len(s) THEN s[i] ELSE u[i - Len(s)]
  BY ConcatProperties
<1>2. Range(s \o u) = Range(s) \cup Range(u)
  BY RangeConcatenation
<1>3. ASSUME IsInjective(s), IsInjective(u), Range(s) \cap Range(u) = {},
             NEW i \in DOMAIN (s \o u), NEW j \in DOMAIN (s \o u),
             (s \o u)[i] = (s \o u)[j]
      PROVE  i = j
  <2>1. i \in Int /\ j \in Int
    BY <1>1
  <2>2. CASE i <= Len(s) /\ j <= Len(s)
    BY <1>1, <1>3, <2>2 DEF IsInjective
  <2>3. CASE i > Len(s) /\ j > Len(s)
    <3>1. /\ i - Len(s) \in DOMAIN u /\ j - Len(s) \in DOMAIN u
          /\ u[i - Len(s)] = u[j - Len(s)]
      BY <1>1, <1>3, <2>3
    <3>2. i - Len(s) = j - Len(s)
      BY <1>3, <3>1 DEF IsInjective
    <3> QED
      BY <1>1, <2>1, <3>2
  <2>4. ASSUME NEW k \in 1 .. Len(s), NEW l \in Len(s) + 1 .. Len(s) + Len(u)
        PROVE  (s \o u)[k] # (s \o u)[l]
    <3>1. (s \o u)[k] \in Range(s)
      BY <1>1 DEF Range
    <3>2. (s \o u)[l] \in Range(u)
      <4>1. l - Len(s) \in DOMAIN u /\ (s \o u)[l] = u[l - Len(s)]
        BY <1>1
      <4> QED
        BY <4>1 DEF Range
    <3> QED
      BY <1>3, <3>1, <3>2
  <2> QED
    BY <1>1, <1>3, <2>1, <2>2, <2>3, <2>4
<1> QED
  BY <1>1, <1>2, <1>3 DEF IsInjective

-----------------------------------------------------------------------------
(* A queue in two parts: a buffer s, and behind it the line u.             *)

LEMMA AppendToLine ==
  ASSUME NEW X, NEW s \in Seq(X), NEW u \in Seq(X), NEW x \in X
  PROVE  s \o Append(u, x) = Append(s \o u, x)
<1>1. <<x>> \in Seq(X) /\ s \o u \in Seq(X)
  OBVIOUS
<1>2. Append(u, x) = u \o <<x>> /\ Append(s \o u, x) = (s \o u) \o <<x>>
  BY <1>1, AppendIsConcat
<1> QED
  BY <1>1, <1>2, ConcatAssociative

(* Taking from the buffer takes from the queue.                            *)
LEMMA TakeFromBuffer ==
  ASSUME NEW X, NEW s \in Seq(X), NEW u \in Seq(X), s # <<>>
  PROVE  /\ s \o u # <<>>
         /\ Head(s \o u) = Head(s)
         /\ Tail(s \o u) = Tail(s) \o u
<1> DEFINE q == s \o u
<1>1. /\ q \in Seq(X) /\ Len(s) \in Nat \ {0} /\ Len(u) \in Nat
      /\ Len(q) = Len(s) + Len(u)
      /\ \A i \in 1 .. Len(s) + Len(u) : q[i] = IF i <= Len(s) THEN s[i] ELSE u[i - Len(s)]
  BY ConcatProperties
<1> HIDE DEF q
<1>2. q # <<>> /\ q[1] = s[1] /\ Head(q) = q[1] /\ Head(s) = s[1]
  BY <1>1
<1>3. /\ Tail(q) \in Seq(X) /\ Len(Tail(q)) = Len(q) - 1
      /\ \A i \in 1 .. Len(q) - 1 : Tail(q)[i] = q[i + 1]
  BY <1>1, <1>2, HeadTailProperties
<1>4. /\ Tail(s) \in Seq(X) /\ Len(Tail(s)) = Len(s) - 1
      /\ \A i \in 1 .. Len(s) - 1 : Tail(s)[i] = s[i + 1]
  BY <1>1, HeadTailProperties
<1>5. /\ Tail(s) \o u \in Seq(X) /\ Len(Tail(s) \o u) = Len(q) - 1
      /\ \A i \in 1 .. Len(q) - 1 :
           (Tail(s) \o u)[i] = IF i <= Len(s) - 1 THEN Tail(s)[i] ELSE u[i - (Len(s) - 1)]
  BY <1>1, <1>4, ConcatProperties
<1>6. \A i \in 1 .. Len(q) - 1 : Tail(q)[i] = (Tail(s) \o u)[i]
  BY <1>1, <1>3, <1>4, <1>5
<1>7. Tail(q) = Tail(s) \o u
  BY <1>3, <1>5, <1>6, SeqEqual
<1> QED
  BY <1>2, <1>7 DEF q

(* So does taking from the buffer and moving the head of the line to the   *)
(* back of it.                                                             *)
LEMMA TakeAndMoveUp ==
  ASSUME NEW X, NEW s \in Seq(X), NEW u \in Seq(X), s # <<>>, u # <<>>
  PROVE  /\ Head(Append(s, Head(u))) = Head(s \o u)
         /\ Tail(Append(s, Head(u))) \o Tail(u) = Tail(s \o u)
<1>1. /\ Head(u) \in X /\ Tail(u) \in Seq(X) /\ Tail(s) \in Seq(X)
      /\ <<Head(u)>> \in Seq(X)
  BY ListTail
<1>2. /\ Head(Append(s, Head(u))) = Head(s)
      /\ Tail(Append(s, Head(u))) = Append(Tail(s), Head(u))
  BY <1>1, HeadTailAppend
<1>3. Append(Tail(s), Head(u)) = Tail(s) \o <<Head(u)>>
  BY <1>1, AppendIsConcat
<1>4. (Tail(s) \o <<Head(u)>>) \o Tail(u) = Tail(s) \o (<<Head(u)>> \o Tail(u))
  BY <1>1, ConcatAssociative
<1>5. <<Head(u)>> \o Tail(u) = u
  <2>1. /\ Len(u) \in Nat \ {0} /\ Head(u) = u[1]
        /\ Len(Tail(u)) = Len(u) - 1
        /\ \A i \in 1 .. Len(u) - 1 : Tail(u)[i] = u[i + 1]
    BY HeadTailProperties
  <2>2. /\ Len(<<Head(u)>>) = 1 /\ <<Head(u)>>[1] = Head(u)
    OBVIOUS
  <2>3. /\ <<Head(u)>> \o Tail(u) \in Seq(X)
        /\ Len(<<Head(u)>> \o Tail(u)) = Len(u)
        /\ \A i \in 1 .. Len(u) : (<<Head(u)>> \o Tail(u))[i] =
             IF i <= 1 THEN <<Head(u)>>[i] ELSE Tail(u)[i - 1]
    BY <1>1, <2>1, <2>2, ConcatProperties
  <2>4. \A i \in 1 .. Len(u) : (<<Head(u)>> \o Tail(u))[i] = u[i]
    BY <2>1, <2>2, <2>3
  <2> QED
    BY <2>3, <2>4, SeqEqual
<1>6. Tail(Append(s, Head(u))) \o Tail(u) = Tail(s) \o u
  BY <1>2, <1>3, <1>4, <1>5
<1>7. Head(s \o u) = Head(s) /\ Tail(s \o u) = Tail(s) \o u
  BY TakeFromBuffer
<1> QED
  BY <1>2, <1>6, <1>7

(* Cutting the queue off behind the buffer leaves the buffer.              *)
LEMMA CutLine ==
  ASSUME NEW X, NEW s \in Seq(X), NEW u \in Seq(X)
  PROVE  SubSeq(s \o u, 1, Len(s)) = s
<1> DEFINE q == s \o u
           c == SubSeq(q, 1, Len(s))
<1>1. /\ q \in Seq(X) /\ Len(s) \in Nat /\ Len(u) \in Nat
      /\ Len(q) = Len(s) + Len(u)
      /\ \A i \in 1 .. Len(s) : q[i] = s[i]
  BY ConcatProperties
<1> HIDE DEF q
<1>2. \A i \in 1 .. Len(s) : q[i] \in X
  BY <1>1
<1>3. /\ c \in Seq(X)
      /\ Len(c) = IF 1 <= Len(s) THEN Len(s) - 1 + 1 ELSE 0
      /\ \A i \in 1 .. Len(s) - 1 + 1 : c[i] = q[1 + i - 1]
  BY <1>1, <1>2, SubSeqProperties
<1> HIDE DEF c
<1>4. Len(c) = Len(s) /\ \A i \in 1 .. Len(s) : c[i] = s[i]
  BY <1>1, <1>3
<1>5. c = s
  BY <1>3, <1>4, SeqEqual
<1> QED
  BY <1>5 DEF c, q
=============================================================================
