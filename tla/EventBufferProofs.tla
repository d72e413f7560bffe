-------------------------- MODULE EventBufferProofs --------------------------
(***************************************************************************)
(* For every capacity: the buffer keeps its numbering contiguous, so the   *)
(* index arithmetic of After and Acked does what their comments say.       *)
(***************************************************************************)
EXTENDS EventBuffer, SequenceFacts

BufInv == BufTypeOK /\ Contiguous

-----------------------------------------------------------------------------
\* The invariant, spelled out over indices; also read from right to left.
LEMMA BufInvIndices ==
  BufInv <=> /\ base \in Nat /\ base >= 1
             /\ events \in Seq(Nat) /\ Len(events) \in Nat /\ Len(events) <= Capacity
             /\ \A i \in 1..Len(events) : events[i] = base + i - 1
<1>1. events \in Seq(Nat) => DOMAIN events = 1..Len(events) /\ Len(events) \in Nat
  OBVIOUS
<1>2. base \in Nat \ {0} <=> base \in Nat /\ base >= 1
  OBVIOUS
<1>. QED BY <1>1, <1>2 DEF BufInv, BufTypeOK, Contiguous

\* The same of the next state.
LEMMA BufInvIndicesNext ==
  BufInv' <=> /\ base' \in Nat /\ base' >= 1
              /\ events' \in Seq(Nat) /\ Len(events') \in Nat /\ Len(events') <= Capacity
              /\ \A i \in 1..Len(events') : events'[i] = base' + i - 1
<1>1. events' \in Seq(Nat) => DOMAIN events' = 1..Len(events') /\ Len(events') \in Nat
  OBVIOUS
<1>2. base' \in Nat \ {0} <=> base' \in Nat /\ base' >= 1
  OBVIOUS
<1>. QED BY <1>1, <1>2 DEF BufInv, BufTypeOK, Contiguous

\* What Add does to a well-formed buffer: one more number is assigned, and an
\* overflow gives up exactly the number base.
LEMMA AddStep ==
  ASSUME BufInv, Add
  PROVE  /\ BufInv'
         /\ NextSeq' = NextSeq + 1
         /\ Overflowing => base' = base + 1
         /\ ~Overflowing => base' = base
<1>. DEFINE grown == Append(events, NextSeq)
<1>0. /\ base \in Nat /\ base >= 1
      /\ events \in Seq(Nat) /\ Len(events) \in Nat /\ Len(events) <= Capacity
      /\ \A i \in 1..Len(events) : events[i] = base + i - 1
      /\ NextSeq = base + Len(events)
  BY BufInvIndices DEF NextSeq
<1>1. /\ grown \in Seq(Nat)
      /\ Len(grown) = Len(events) + 1
      /\ \A i \in 1..Len(grown) : grown[i] = base + i - 1
  BY <1>0
<1>2. CASE Overflowing
  <2>0. base' = base + 1
    BY <1>2 DEF Add
  <2>1. events' = Tail(grown)
    BY <1>2 DEF Add
  <2>2. grown # <<>>
    BY <1>0, <1>1
  <2>. HIDE DEF grown
  <2>3. /\ events' \in Seq(Nat)
        /\ Len(events') = Len(events)
        /\ \A i \in 1..Len(events') : events'[i] = grown[i + 1]
    BY <1>0, <1>1, <2>1, <2>2, HeadTailProperties
  <2>4. \A i \in 1..Len(events') : events'[i] = base' + i - 1
    BY <1>0, <1>1, <2>0, <2>3
  <2>5. BufInv'
    BY <1>0, <2>0, <2>3, <2>4, BufInvIndicesNext
  <2>6. NextSeq' = NextSeq + 1
    BY <1>0, <2>0, <2>3 DEF NextSeq
  <2>. QED BY <1>2, <2>0, <2>5, <2>6
<1>3. CASE ~Overflowing
  <2>1. events' = grown /\ base' = base
    BY <1>3 DEF Add
  <2>. HIDE DEF grown
  <2>2. Len(events) + 1 <= Capacity
    BY <1>0, <1>3, CapacityAssumption DEF Overflowing
  <2>3. BufInv'
    <3>1. /\ events' \in Seq(Nat) /\ Len(events') = Len(events) + 1
          /\ \A i \in 1..Len(events') : events'[i] = base' + i - 1
      BY <1>1, <2>1
    <3>2. base' \in Nat /\ base' >= 1 /\ Len(events') \in Nat /\ Len(events') <= Capacity
      BY <1>0, <2>1, <2>2, <3>1
    <3>. QED BY <3>1, <3>2, BufInvIndicesNext
  <2>4. NextSeq' = NextSeq + 1
    <3>1. Len(events') = Len(events) + 1 /\ base' = base
      BY <1>1, <2>1
    <3>2. base \in Nat /\ Len(events) \in Nat
      BY <1>0
    <3>. QED BY <3>1, <3>2 DEF NextSeq
  <2>. QED BY <1>3, <2>1, <2>3, <2>4
<1>. QED BY <1>2, <1>3

\* What Acked does, whatever number is acknowledged: it advances base past the
\* acknowledged numbers it holds and never past anything else.
LEMMA AckedStep ==
  ASSUME BufInv, NEW a \in Nat, Acked(a)
  PROVE  /\ BufInv'
         /\ NextSeq' = NextSeq
         /\ base <= base'
         /\ base' <= base \/ base' <= a + 1
         /\ base' > a \/ base' = NextSeq
<1>. DEFINE c == Covered(a)
<1>0. /\ base \in Nat /\ base >= 1
      /\ events \in Seq(Nat) /\ Len(events) \in Nat /\ Len(events) <= Capacity
      /\ \A i \in 1..Len(events) : events[i] = base + i - 1
      /\ NextSeq = base + Len(events)
  BY BufInvIndices DEF NextSeq
<1>1. /\ c \in 0..Len(events)
      /\ c = 0 \/ base + c <= a + 1
      /\ base + c > a \/ c = Len(events)
  BY <1>0 DEF Covered, AtMost, AtLeastZero
<1>2. events' = SubSeq(events, c + 1, Len(events))
  BY DEF Acked
<1>2a. base' = base + c
  BY DEF Acked
<1>. HIDE DEF c
<1>3. /\ events' \in Seq(Nat)
      /\ Len(events') = Len(events) - c
      /\ \A i \in 1..(Len(events) - c) : events'[i] = events[c + i]
  BY <1>0, <1>1, <1>2, SuffixFacts
<1>4. ASSUME NEW i \in 1..Len(events') PROVE events'[i] = base' + i - 1
  <2>1. i \in 1..(Len(events) - c) /\ c + i \in 1..Len(events)
    BY <1>0, <1>1, <1>3
  <2>. QED BY <1>0, <1>1, <1>2a, <1>3, <2>1
<1>5. base' \in Nat /\ base' >= 1
  BY <1>0, <1>1, <1>2a
<1>6. Len(events') \in Nat /\ Len(events') <= Capacity
  BY <1>0, <1>1, <1>3, CapacityAssumption
<1>7. BufInv'
  BY <1>3, <1>4, <1>5, <1>6, BufInvIndicesNext
<1>8. NextSeq' = NextSeq
  BY <1>0, <1>1, <1>2a, <1>3 DEF NextSeq
<1>. QED BY <1>0, <1>1, <1>2a, <1>7, <1>8

\* The first number After can return.
FirstAbove(a) == IF a + 1 > base THEN a + 1 ELSE base

\* What After returns, whatever number it is given: consecutive numbers from
\* the first one above `a` that is held up to the newest.
LEMMA AfterValue ==
  ASSUME BufInv, NEW a \in Nat
  PROVE  /\ FirstAbove(a) \in Nat
         /\ After(a) \in Seq(Nat)
         /\ Len(After(a)) = IF FirstAbove(a) > NextSeq THEN 0 ELSE NextSeq - FirstAbove(a)
         /\ \A i \in 1..Len(After(a)) : After(a)[i] = FirstAbove(a) + i - 1
<1>0. /\ base \in Nat /\ base >= 1
      /\ events \in Seq(Nat) /\ Len(events) \in Nat
      /\ \A i \in 1..Len(events) : events[i] = base + i - 1
      /\ NextSeq = base + Len(events)
  BY BufInvIndices DEF NextSeq
<1>. AtLeastZero(a + 1 - base) \in Nat
  BY <1>0 DEF AtLeastZero
<1>1. PICK off \in Nat : off = AtLeastZero(a + 1 - base)
  OBVIOUS
<1>2. FirstAbove(a) = base + off
  BY <1>0, <1>1 DEF AtLeastZero, FirstAbove
<1>3. After(a) = IF off > Len(events) THEN <<>> ELSE SubSeq(events, off + 1, Len(events))
  BY <1>1 DEF After
<1>4. CASE off > Len(events)
  BY <1>0, <1>2, <1>3, <1>4
<1>5. CASE off <= Len(events)
  <2>1. After(a) = SubSeq(events, off + 1, Len(events))
    BY <1>0, <1>3, <1>5
  <2>2. off \in 0..Len(events)
    BY <1>0, <1>5
  <2>3. /\ After(a) \in Seq(Nat)
        /\ Len(After(a)) = Len(events) - off
        /\ \A i \in 1..(Len(events) - off) : After(a)[i] = events[off + i]
    <3>1. events \in Seq(Nat)
      BY <1>0
    <3>2. \A t : t = SubSeq(events, off + 1, Len(events)) =>
            /\ t \in Seq(Nat) /\ Len(t) = Len(events) - off
            /\ \A i \in 1..(Len(events) - off) : t[i] = events[off + i]
      BY <2>2, <3>1, SuffixFacts
    <3>. QED BY <2>1, <3>2
  <2>4. ASSUME NEW i \in 1..Len(After(a)) PROVE After(a)[i] = base + off + i - 1
    <3>1. i \in 1..(Len(events) - off) /\ off + i \in 1..Len(events)
      BY <1>0, <1>5, <2>3
    <3>2. After(a)[i] = events[off + i]
      BY <2>3, <3>1
    <3>. QED BY <1>0, <3>1, <3>2
  <2>5. Len(After(a)) = IF FirstAbove(a) > NextSeq THEN 0 ELSE NextSeq - FirstAbove(a)
    BY <1>0, <1>2, <1>5, <2>3
  <2>. QED BY <1>0, <1>2, <2>3, <2>4, <2>5
<1>. QED BY <1>0, <1>4, <1>5

\* The retained numbers are the interval from base.
LEMMA RetainedRange ==
  ASSUME BufInv
  PROVE  Retained = base..(NextSeq - 1)
BY BufInvIndices, RangeOfRun DEF Retained, NextSeq

\* The same of the next state.
LEMMA RetainedRangeNext ==
  ASSUME BufInv'
  PROVE  Retained' = base'..(NextSeq' - 1)
BY BufInvIndicesNext, RangeOfRun DEF Retained, NextSeq

-----------------------------------------------------------------------------
\* The buffer stays within its capacity and its numbers stay contiguous,
\* whatever its callers do and whatever the server acknowledges.
THEOREM BufferSound == BufSpec => [](BufTypeOK /\ Contiguous)
<1>1. BufInit => BufInv
  BY CapacityAssumption DEF BufInit, BufInv, BufTypeOK, Contiguous
<1>2. BufInv /\ [BufNext]_bufVars => BufInv'
  <2>. SUFFICES ASSUME BufInv, [BufNext]_bufVars PROVE BufInv'
    OBVIOUS
  <2>1. CASE Add
    BY <2>1, AddStep
  <2>2. CASE \E a \in 0..MaxEvents + 1 : Acked(a)
    BY <2>2, AckedStep, MaxEventsAssumption
  <2>3. CASE UNCHANGED bufVars
    BY <2>3 DEF BufInv, BufTypeOK, Contiguous, bufVars
  <2>. QED BY <2>1, <2>2, <2>3 DEF BufNext
<1>. QED BY <1>1, <1>2, PTL DEF BufSpec, BufInv

\* After is exact for every buffer and every acknowledged number.
THEOREM AfterSound == BufSpec => []AfterIsExact
<1>1. BufInv => AfterIsExact
  <2>. SUFFICES ASSUME BufInv, NEW a \in 0..MaxEvents + 1
       PROVE  /\ Range(After(a)) = {s \in Retained : s > a}
              /\ Len(After(a)) > 0 => After(a)[Len(After(a))] = NextSeq - 1
    BY DEF AfterIsExact
  <2>0. a \in Nat /\ base \in Nat /\ NextSeq \in Nat /\ base <= NextSeq
    BY MaxEventsAssumption, BufInvIndices DEF NextSeq
  <2>1. /\ After(a) \in Seq(Nat)
        /\ DOMAIN After(a) = 1..Len(After(a))
        /\ Len(After(a)) \in Nat
        /\ FirstAbove(a) \in Nat
        /\ Len(After(a)) = IF FirstAbove(a) > NextSeq THEN 0 ELSE NextSeq - FirstAbove(a)
        /\ \A i \in 1..Len(After(a)) : After(a)[i] = FirstAbove(a) + i - 1
    BY <2>0, AfterValue, LenProperties
  <2>2. {t \in Retained : t > a} = FirstAbove(a)..(NextSeq - 1)
    BY <2>0, RetainedRange DEF FirstAbove
  <2>3. ASSUME NEW s \in FirstAbove(a)..(NextSeq - 1)
        PROVE  s - FirstAbove(a) + 1 \in DOMAIN After(a)
               /\ After(a)[s - FirstAbove(a) + 1] = s
    <3>1. NextSeq \in Nat /\ FirstAbove(a) \in Nat
      BY <2>0, <2>1
    <3>2. Len(After(a)) = NextSeq - FirstAbove(a)
      BY <2>1, <3>1
    <3>3. s - FirstAbove(a) + 1 \in 1..Len(After(a)) /\ FirstAbove(a) + (s - FirstAbove(a) + 1) - 1 = s
      BY <3>1, <3>2
    <3>. QED BY <2>1, <3>3
  <2>4. ASSUME NEW i \in DOMAIN After(a)
        PROVE  After(a)[i] \in FirstAbove(a)..(NextSeq - 1)
    BY <2>0, <2>1
  <2>5. Range(After(a)) = FirstAbove(a)..(NextSeq - 1)
    BY <2>3, <2>4 DEF Range
  <2>6. Len(After(a)) > 0 => After(a)[Len(After(a))] = NextSeq - 1
    <3>. DEFINE n == Len(After(a))
    <3>1. n \in Nat /\ n > 0 => n \in 1..n /\ n = NextSeq - FirstAbove(a)
      BY <2>0, <2>1
    <3>2. n > 0 => After(a)[n] = FirstAbove(a) + n - 1
      BY <2>1, <3>1
    <3>. HIDE DEF n
    <3>3. n > 0 => After(a)[n] = NextSeq - 1
      BY <2>0, <2>1, <3>1, <3>2 DEF n
    <3>. QED BY <3>3 DEF n
  <2>. QED BY <2>2, <2>5, <2>6
<1>. QED BY <1>1, BufferSound, PTL DEF BufInv

\* A number is never handed out twice and never skipped.
THEOREM NumbersAdvance == BufSpec => SeqNeverRewinds
<1>1. BufInv /\ [BufNext]_bufVars => [NextSeq' \in {NextSeq, NextSeq + 1}]_bufVars
  <2>. SUFFICES ASSUME BufInv, BufNext PROVE NextSeq' \in {NextSeq, NextSeq + 1}
    OBVIOUS
  <2>1. CASE Add
    BY <2>1, AddStep
  <2>2. CASE \E a \in 0..MaxEvents + 1 : Acked(a)
    BY <2>2, AckedStep, MaxEventsAssumption
  <2>. QED BY <2>1, <2>2 DEF BufNext
<1>. QED BY <1>1, BufferSound, PTL DEF BufSpec, BufInv, SeqNeverRewinds

\* Events leave the buffer from the old end only.
THEOREM OldestFirst == BufSpec => OldestLeaveFirst
<1>1. BufInv /\ BufInv' /\ [BufNext]_bufVars
      => [\A gone \in Retained \ Retained', kept \in Retained \cap Retained' : gone < kept]_bufVars
  <2>. SUFFICES ASSUME BufInv, BufInv', BufNext,
                       NEW gone \in Retained \ Retained', NEW kept \in Retained \cap Retained'
       PROVE  gone < kept
    OBVIOUS
  <2>1. base \in Nat /\ base' \in Nat /\ NextSeq \in Nat /\ NextSeq' \in Nat
    BY BufInvIndices, BufInvIndicesNext DEF NextSeq
  <2>2. base' >= base /\ NextSeq' >= NextSeq
    <3>1. CASE Add
      BY <2>1, <3>1, AddStep
    <3>2. CASE \E a \in 0..MaxEvents + 1 : Acked(a)
      BY <2>1, <3>2, AckedStep, MaxEventsAssumption
    <3>. QED BY <3>1, <3>2 DEF BufNext
  <2>3. Retained = base..(NextSeq - 1)
    BY RetainedRange
  <2>4. Retained' = base'..(NextSeq' - 1)
    BY RetainedRangeNext
  <2>. QED BY <2>1, <2>2, <2>3, <2>4, IntervalAdvance
<1>. QED BY <1>1, BufferSound, PTL DEF BufSpec, BufInv, OldestLeaveFirst
==============================================================================
