--------------------------- MODULE SequenceLemmas ---------------------------
(* Lemmas on sequences that the proofs about several components use.        *)
EXTENDS Naturals, SequencesExt, SequenceTheorems, TLAPS

\* Taking one element out of a sequence keeps the others, in their order: a packet out of
\* a buffer (module Rdt), a message out of a mailbox (module Pop3Server).
LEMMA RemoveAtLemma ==
  ASSUME NEW S, NEW q \in Seq(S), NEW i \in 1..Len(q)
  PROVE  /\ RemoveAt(q, i) \in Seq(S)
         /\ Len(RemoveAt(q, i)) = Len(q) - 1
         /\ \A j \in 1..(Len(q) - 1) :
              RemoveAt(q, i)[j] = IF j < i THEN q[j] ELSE q[j + 1]
<1>1. SubSeq(q, 1, i - 1) \in Seq(S) /\ SubSeq(q, i + 1, Len(q)) \in Seq(S)
  OBVIOUS
<1>2. Len(SubSeq(q, 1, i - 1)) = i - 1 /\ Len(SubSeq(q, i + 1, Len(q))) = Len(q) - i
  OBVIOUS
<1> DEFINE u == SubSeq(q, 1, i - 1)
           v == SubSeq(q, i + 1, Len(q))
<1>3. \A j \in 1..(i - 1) : u[j] = q[j]
  OBVIOUS
<1>4. \A j \in 1..(Len(q) - i) : v[j] = q[j + i]
  OBVIOUS
<1>5. RemoveAt(q, i) = u \o v
  BY DEF RemoveAt
<1> HIDE DEF u, v
<1>6. u \in Seq(S) /\ v \in Seq(S) /\ Len(u) = i - 1 /\ Len(v) = Len(q) - i
  BY <1>1, <1>2 DEF u, v
<1>7. u \o v \in Seq(S) /\ Len(u \o v) = Len(q) - 1
  <2>1. u \o v \in Seq(S) /\ Len(u \o v) = Len(u) + Len(v)
    BY <1>6, ConcatProperties, Zenon
  <2> QED
    BY <1>6, <2>1
<1>8. ASSUME NEW j \in 1..(Len(q) - 1)
      PROVE  (u \o v)[j] = IF j < i THEN q[j] ELSE q[j + 1]
  <2>1. CASE j < i
    BY <2>1, <1>3, <1>6
  <2>2. CASE ~(j < i)
    <3>1. (u \o v)[j] = v[j - (i - 1)]
      BY <2>2, <1>6
    <3>2. j - (i - 1) \in 1..(Len(q) - i) /\ j - (i - 1) + i = j + 1
      BY <2>2
    <3> QED
      BY <3>1, <3>2, <1>4, <2>2
  <2> QED
    BY <2>1, <2>2
<1> QED
  BY <1>5, <1>7, <1>8

\* What RemoveAt takes out is the element at that place, wherever else it may be.
LEMMA RemoveAtKeepsOthers ==
  ASSUME NEW S, NEW q \in Seq(S), NEW i \in 1..Len(q), NEW x,
         Contains(q, x), ~Contains(RemoveAt(q, i), x)
  PROVE  x = q[i]
<1> SUFFICES ASSUME x # q[i] PROVE FALSE
  OBVIOUS
<1>1. PICK k \in 1..Len(q) : q[k] = x
  BY DEF Contains
<1>2. CASE k < i
  <2>1. k \in 1..(Len(q) - 1)
    BY <1>2
  <2>2. RemoveAt(q, i)[k] = x
    BY <1>1, <1>2, <2>1, RemoveAtLemma
  <2> QED
    BY <2>1, <2>2, RemoveAtLemma DEF Contains
<1>3. CASE k > i
  <2>1. k - 1 \in 1..(Len(q) - 1) /\ ~(k - 1 < i) /\ (k - 1) + 1 = k
    BY <1>3
  <2>2. RemoveAt(q, i)[k - 1] = x
    BY <1>1, <2>1, RemoveAtLemma
  <2> QED
    BY <2>1, <2>2, RemoveAtLemma DEF Contains
<1> QED
  BY <1>1, <1>2, <1>3

\* A sequence of more than one element has another behind its first.
LEMMA LongTail ==
  ASSUME NEW S, NEW q \in Seq(S), q # <<>>, Len(q) # 1
  PROVE  Tail(q) \in Seq(S) /\ Tail(q) # <<>>
<1>1. Len(q) \in Nat /\ Len(q) # 0
  BY EmptySeq
<1>2. Len(Tail(q)) = Len(q) - 1 /\ Tail(q) \in Seq(S)
  BY HeadTailProperties
<1>3. Len(Tail(q)) # 0
  BY <1>1, <1>2
<1> QED
  BY <1>2, <1>3, EmptySeq
=============================================================================
