---------------------------- MODULE SequenceFacts ----------------------------
(***************************************************************************)
(* What the queue operations of the models do to the elements of a queue   *)
(* of event numbers, in the form the other proofs cite.                    *)
(***************************************************************************)
EXTENDS Integers, SequenceTheorems, TLAPS

\* A queue as a function on its positions.
LEMMA QueueDomain ==
  ASSUME NEW q \in Seq(Nat)
  PROVE  Len(q) \in Nat /\ DOMAIN q = 1..Len(q) /\ \A i \in 1..Len(q) : q[i] \in Nat
OBVIOUS

\* What is left when the first k elements are cut off.
LEMMA SuffixFacts ==
  ASSUME NEW q \in Seq(Nat), NEW k \in 0..Len(q), NEW t, t = SubSeq(q, k + 1, Len(q))
  PROVE  t \in Seq(Nat) /\ Len(t) = Len(q) - k /\ \A i \in 1..(Len(q) - k) : t[i] = q[k + i]
<1>1. Len(q) \in Nat /\ k \in Nat /\ k <= Len(q) /\ k + 1 \in Int /\ Len(q) \in Int
  BY QueueDomain
<1>2. \A i \in (k + 1)..Len(q) : q[i] \in Nat
  BY <1>1, QueueDomain
<1>3. /\ SubSeq(q, k + 1, Len(q)) \in Seq(Nat)
      /\ Len(SubSeq(q, k + 1, Len(q))) = IF k + 1 <= Len(q) THEN Len(q) - (k + 1) + 1 ELSE 0
      /\ \A i \in 1..(Len(q) - (k + 1) + 1) : SubSeq(q, k + 1, Len(q))[i] = q[(k + 1) + i - 1]
  BY <1>1, <1>2, SubSeqProperties
<1>4. t \in Seq(Nat) /\ Len(t) = Len(q) - k
  BY <1>1, <1>3
<1>5. ASSUME NEW i \in 1..(Len(q) - k) PROVE t[i] = q[k + i]
  <2>1. i \in 1..(Len(q) - (k + 1) + 1) /\ (k + 1) + i - 1 = k + i
    BY <1>1
  <2>. QED BY <1>3, <2>1
<1>. QED BY <1>4, <1>5

\* The first k elements.
LEMMA PrefixFacts ==
  ASSUME NEW q \in Seq(Nat), NEW k \in 0..Len(q), NEW t, t = SubSeq(q, 1, k)
  PROVE  t \in Seq(Nat) /\ Len(t) = k /\ \A i \in 1..k : t[i] = q[i]
<1>1. Len(q) \in Nat /\ k \in Nat /\ k <= Len(q) /\ k \in Int /\ 1 \in Int
  BY QueueDomain
<1>2. \A i \in 1..k : q[i] \in Nat
  BY <1>1, QueueDomain
<1>3. /\ SubSeq(q, 1, k) \in Seq(Nat)
      /\ Len(SubSeq(q, 1, k)) = IF 1 <= k THEN k - 1 + 1 ELSE 0
      /\ \A i \in 1..(k - 1 + 1) : SubSeq(q, 1, k)[i] = q[1 + i - 1]
  BY <1>1, <1>2, SubSeqProperties
<1>4. t \in Seq(Nat) /\ Len(t) = k
  BY <1>1, <1>3
<1>5. ASSUME NEW i \in 1..k PROVE t[i] = q[i]
  <2>1. i \in 1..(k - 1 + 1) /\ 1 + i - 1 = i
    BY <1>1
  <2>. QED BY <1>3, <2>1
<1>. QED BY <1>4, <1>5

\* Taking the first element off a queue.
LEMMA TailFacts ==
  ASSUME NEW q \in Seq(Nat), q # <<>>, NEW t, t = Tail(q)
  PROVE  /\ Head(q) = q[1] /\ Len(q) >= 1
         /\ t \in Seq(Nat) /\ Len(t) = Len(q) - 1 /\ \A i \in 1..(Len(q) - 1) : t[i] = q[i + 1]
<1>1. Len(q) \in Nat /\ Len(q) >= 1
  BY EmptySeq
<1>2. /\ Tail(q) \in Seq(Nat)
      /\ Len(Tail(q)) = Len(q) - 1
      /\ \A i \in 1..Len(Tail(q)) : Tail(q)[i] = q[i + 1]
  BY HeadTailProperties
<1>. QED BY <1>1, <1>2

\* Putting an element at the end.
LEMMA AppendFacts ==
  ASSUME NEW q \in Seq(Nat), NEW e \in Nat, NEW t, t = Append(q, e)
  PROVE  /\ t \in Seq(Nat) /\ Len(t) = Len(q) + 1
         /\ t[Len(q) + 1] = e /\ \A i \in 1..Len(q) : t[i] = q[i]
<1>1. Len(q) \in Nat
  BY QueueDomain
<1>2. \A i \in 1..Len(q) : Append(q, e)[i] = q[i]
  BY <1>1
<1>3. Append(q, e)[Len(q) + 1] = e
  BY <1>1
<1>. QED BY <1>1, <1>2, <1>3

\* The same for a sequence over any set.
LEMMA AppendElements ==
  ASSUME NEW S, NEW q \in Seq(S), NEW e \in S, NEW t, t = Append(q, e)
  PROVE  /\ t \in Seq(S) /\ Len(t) = Len(q) + 1 /\ Len(q) \in Nat
         /\ DOMAIN q = 1..Len(q) /\ DOMAIN t = 1..(Len(q) + 1)
         /\ t[Len(q) + 1] = e /\ \A i \in 1..Len(q) : t[i] = q[i]
OBVIOUS

\* The elements of a run of consecutive numbers.
LEMMA RangeOfRun ==
  ASSUME NEW q \in Seq(Nat), NEW b \in Nat, \A i \in 1..Len(q) : q[i] = b + i - 1
  PROVE  Range(q) = b..(b + Len(q) - 1)
<1>0. Len(q) \in Nat /\ DOMAIN q = 1..Len(q)
  BY QueueDomain
<1>1. ASSUME NEW s \in Range(q) PROVE s \in b..(b + Len(q) - 1)
  BY <1>0 DEF Range
<1>2. ASSUME NEW s \in b..(b + Len(q) - 1) PROVE s \in Range(q)
  <2>1. s - b + 1 \in DOMAIN q /\ q[s - b + 1] = s
    BY <1>0
  <2>. QED BY <2>1 DEF Range
<1>. QED BY <1>1, <1>2

\* The numbers below a bound, when the bound moves up.
LEMMA NumbersBelow ==
  ASSUME NEW b \in Nat, NEW b2 \in Nat, b <= b2
  PROVE  1..(b - 1) \subseteq 1..(b2 - 1)
OBVIOUS

\* What an interval loses when both its ends move up lies below what it keeps.
LEMMA IntervalAdvance ==
  ASSUME NEW b \in Nat, NEW n \in Nat, NEW b2 \in Nat, NEW n2 \in Nat, b <= b2, n <= n2,
         NEW gone \in b..(n - 1), gone \notin b2..(n2 - 1), NEW kept \in b2..(n2 - 1)
  PROVE  gone < kept
OBVIOUS

\* The elements of a queue with one more at the end.
LEMMA RangeAppend ==
  ASSUME NEW q \in Seq(Nat), NEW e \in Nat
  PROVE  Range(Append(q, e)) = Range(q) \cup {e}
<1>. DEFINE t == Append(q, e)
<1>1. /\ Len(q) \in Nat /\ DOMAIN q = 1..Len(q)
      /\ DOMAIN t = 1..(Len(q) + 1)
      /\ t[Len(q) + 1] = e /\ \A i \in 1..Len(q) : t[i] = q[i]
  BY QueueDomain, AppendFacts
<1>. HIDE DEF t
<1>2. Range(t) \subseteq Range(q) \cup {e}
  BY <1>1 DEF Range
<1>3. e \in Range(t)
  BY <1>1 DEF Range
<1>4. Range(q) \subseteq Range(t)
  BY <1>1 DEF Range
<1>. QED BY <1>2, <1>3, <1>4 DEF t

\* Elements are lost from a queue only where it is cut.
LEMMA RangeSuffix ==
  ASSUME NEW q \in Seq(Nat), NEW k \in 0..Len(q), NEW t, t = SubSeq(q, k + 1, Len(q))
  PROVE  Range(t) \subseteq Range(q) /\ Range(q) \subseteq {q[i] : i \in 1..k} \cup Range(t)
<1>0. Len(q) \in Nat /\ k \in Nat /\ k <= Len(q) /\ DOMAIN q = 1..Len(q)
  BY QueueDomain
<1>1. /\ t \in Seq(Nat) /\ Len(t) = Len(q) - k
      /\ \A i \in 1..(Len(q) - k) : t[i] = q[k + i]
  BY SuffixFacts
<1>1a. DOMAIN t = 1..(Len(q) - k)
  BY <1>1, QueueDomain
<1>2. ASSUME NEW i \in DOMAIN t PROVE t[i] \in Range(q)
  <2>1. i \in 1..(Len(q) - k)
    BY <1>1a
  <2>2. k + i \in DOMAIN q
    BY <1>0, <2>1
  <2>3. t[i] = q[k + i]
    BY <1>1, <2>1
  <2>. QED BY <2>2, <2>3 DEF Range
<1>3. ASSUME NEW j \in DOMAIN q, j \notin 1..k PROVE q[j] \in Range(t)
  <2>1. j \in Nat /\ j > k /\ j <= Len(q)
    BY <1>0, <1>3
  <2>2. j - k \in 1..(Len(q) - k) /\ k + (j - k) = j
    BY <1>0, <2>1
  <2>3. t[j - k] = q[j]
    BY <1>1, <2>2
  <2>. QED BY <1>1a, <2>2, <2>3 DEF Range
<1>. QED BY <1>2, <1>3 DEF Range

\* The elements of a queue without its first.
LEMMA RangeTail ==
  ASSUME NEW q \in Seq(Nat), q # <<>>
  PROVE  /\ Head(q) \in Nat /\ Head(q) \in Range(q)
         /\ Range(Tail(q)) \subseteq Range(q) /\ Range(q) \subseteq {Head(q)} \cup Range(Tail(q))
<1>1. /\ Len(q) \in Nat /\ Len(q) >= 1 /\ Head(q) = q[1] /\ DOMAIN q = 1..Len(q)
      /\ \A i \in 1..Len(q) : q[i] \in Nat
  BY QueueDomain, TailFacts
<1>2. Tail(q) = SubSeq(q, 1 + 1, Len(q)) /\ 1 \in 0..Len(q)
  BY <1>1, TailIsSubSeq
<1>3. {q[i] : i \in 1..1} = {Head(q)}
  BY <1>1
<1>4. Head(q) \in Nat /\ Head(q) \in Range(q)
  BY <1>1 DEF Range
<1>. QED BY <1>2, <1>3, <1>4, RangeSuffix

\* A sequence without its last element.
LEMMA FrontElements ==
  ASSUME NEW S, NEW q \in Seq(S), q # <<>>, NEW t, t = SubSeq(q, 1, Len(q) - 1)
  PROVE  /\ t \in Seq(S) /\ Len(q) \in Nat /\ Len(q) >= 1
         /\ DOMAIN q = 1..Len(q) /\ DOMAIN t = 1..(Len(q) - 1)
         /\ q[Len(q)] \in S /\ \A i \in 1..(Len(q) - 1) : t[i] = q[i]
<1>1. Len(q) \in Nat /\ Len(q) >= 1 /\ DOMAIN q = 1..Len(q)
  BY EmptySeq
<1>2. \A i \in 1..Len(q) : q[i] \in S
  BY <1>1
<1>3. Len(q) - 1 \in Nat /\ Len(q) - 1 \in 0..Len(q) /\ \A i \in 1..(Len(q) - 1) : i \in 1..Len(q)
  BY <1>1
<1>4. /\ SubSeq(q, 1, Len(q) - 1) \in Seq(S)
      /\ Len(SubSeq(q, 1, Len(q) - 1)) = IF 1 <= Len(q) - 1 THEN (Len(q) - 1) - 1 + 1 ELSE 0
      /\ \A i \in 1..((Len(q) - 1) - 1 + 1) : SubSeq(q, 1, Len(q) - 1)[i] = q[1 + i - 1]
  BY <1>1, <1>2, <1>3, SubSeqProperties
<1>5. Len(t) = Len(q) - 1
  BY <1>1, <1>4
<1>6. ASSUME NEW i \in 1..(Len(q) - 1) PROVE t[i] = q[i]
  <2>1. i \in 1..((Len(q) - 1) - 1 + 1) /\ 1 + i - 1 = i
    BY <1>1
  <2>. QED BY <1>4, <2>1
<1>. QED BY <1>1, <1>2, <1>4, <1>5, <1>6
==============================================================================
