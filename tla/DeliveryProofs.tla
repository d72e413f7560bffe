--------------------------- MODULE DeliveryProofs ---------------------------
(***************************************************************************)
(* The safety of the delivery path for every number of producers and for   *)
(* every capacity, window, channel size and number of failures.            *)
(***************************************************************************)
EXTENDS Delivery, EventBufferProofs

-----------------------------------------------------------------------------
(* What the queue operations do to Follows.                                *)

\* A queue still follows when more is accounted for.
LEMMA FollowsMono ==
  ASSUME NEW q, NEW A, NEW S, NEW A2, NEW S2, Follows(q, A, S), A \cup S \subseteq A2 \cup S2
  PROVE  Follows(q, A2, S2)
BY DEF Follows

\* An empty queue follows anything.
LEMMA FollowsEmpty ==
  ASSUME NEW A, NEW S
  PROVE  Follows(<<>>, A, S)
BY DEF Follows

\* Cutting the front off: what remains follows if the front is accounted for.
LEMMA FollowsCut ==
  ASSUME NEW q \in Seq(Nat), NEW k \in 0..Len(q), NEW t \in Seq(Nat), Len(t) = Len(q) - k,
         \A i \in 1..(Len(q) - k) : t[i] = q[k + i],
         NEW A, NEW S, NEW A2, NEW S2,
         Follows(q, A, S), A \cup S \cup {q[i] : i \in 1..k} \subseteq A2 \cup S2
  PROVE  Follows(t, A2, S2)
<1>0. Len(q) \in Nat /\ k \in Nat /\ k <= Len(q) /\ DOMAIN q = 1..Len(q)
  BY QueueDomain
<1>1. \A i \in 1..(Len(q) - k) : t[i] = q[k + i]
  OBVIOUS
<1>1a. DOMAIN t = 1..(Len(q) - k)
  BY QueueDomain
<1>1b. \A i \in 1..(Len(q) - k) : k + i \in 1..Len(q)
  BY <1>0
<1>. SUFFICES ASSUME NEW i \in DOMAIN t, NEW s \in 1..(t[i] - 1), s \notin S2, s \notin A2
     PROVE  \E j \in 1..(i - 1) : t[j] = s
  BY DEF Follows
<1>2a. i \in Nat /\ 1 <= i /\ i <= Len(q) - k /\ i \in 1..(Len(q) - k)
  BY <1>0, <1>1a
<1>2b. k + i \in DOMAIN q
  BY <1>0, <1>1b, <1>2a
<1>2. t[i] = q[k + i]
  BY <1>1, <1>2a
<1>3. PICK j \in 1..(k + i - 1) : q[j] = s
  BY <1>2, <1>2b DEF Follows
<1>4. j \notin 1..k
  BY <1>3
<1>5a. j \in Nat /\ k + 1 <= j /\ j <= k + i - 1
  BY <1>0, <1>2a, <1>4
<1>5b. PICK m \in Nat : m = j - k
  BY <1>0, <1>5a
<1>5. j = k + m
  BY <1>0, <1>5a, <1>5b
<1>5c. m \in 1..(i - 1)
  BY <1>0, <1>2a, <1>5a, <1>5
<1>5d. m \in 1..(Len(q) - k)
  BY <1>0, <1>2a, <1>5c
<1>6. t[m] = s
  BY <1>1, <1>3, <1>5, <1>5d
<1>. QED BY <1>5c, <1>6

\* The same of the suffix that SubSeq returns.
LEMMA FollowsSuffix ==
  ASSUME NEW q \in Seq(Nat), NEW k \in 0..Len(q), NEW t, t = SubSeq(q, k + 1, Len(q)),
         NEW A, NEW S, NEW A2, NEW S2,
         Follows(q, A, S), A \cup S \cup {q[i] : i \in 1..k} \subseteq A2 \cup S2
  PROVE  Follows(t, A2, S2)
<1>1. \A u : u = SubSeq(q, k + 1, Len(q)) =>
        /\ u \in Seq(Nat) /\ Len(u) = Len(q) - k
        /\ \A i \in 1..(Len(q) - k) : u[i] = q[k + i]
  BY SuffixFacts
<1>2. \A u \in Seq(Nat) :
        /\ Len(u) = Len(q) - k
        /\ \A i \in 1..(Len(q) - k) : u[i] = q[k + i]
        => Follows(u, A2, S2)
  BY FollowsCut
<1>. QED BY <1>1, <1>2

\* Taking the first number off: the rest follows if that number is accounted for.
LEMMA FollowsTail ==
  ASSUME NEW q \in Seq(Nat), q # <<>>, NEW A, NEW S, NEW A2, NEW S2,
         Follows(q, A, S), A \cup S \cup {Head(q)} \subseteq A2 \cup S2
  PROVE  Follows(Tail(q), A2, S2)
<1>1. Len(q) \in Nat /\ Len(q) >= 1 /\ Head(q) = q[1]
  BY QueueDomain, TailFacts
<1>2. Tail(q) = SubSeq(q, 1 + 1, Len(q)) /\ 1 \in 0..Len(q)
  BY <1>1, TailIsSubSeq
<1>3. {q[i] : i \in 1..1} = {Head(q)}
  BY <1>1
<1>. QED BY <1>2, <1>3, FollowsSuffix

\* Putting a number at the end.
LEMMA FollowsAppend ==
  ASSUME NEW q \in Seq(Nat), NEW e \in Nat, NEW A, NEW S,
         Follows(q, A, S), \A s \in 1..(e - 1) : s \in S \/ s \in A \/ s \in Range(q)
  PROVE  Follows(Append(q, e), A, S)
<1>. DEFINE t == Append(q, e)
<1>1. /\ Len(q) \in Nat /\ DOMAIN q = 1..Len(q)
      /\ DOMAIN t = 1..(Len(q) + 1)
      /\ t[Len(q) + 1] = e /\ \A i \in 1..Len(q) : t[i] = q[i]
  BY QueueDomain, AppendFacts
<1>. HIDE DEF t
<1>. SUFFICES ASSUME NEW i \in DOMAIN t, NEW s \in 1..(t[i] - 1), s \notin S, s \notin A
     PROVE  \E j \in 1..(i - 1) : t[j] = s
  BY DEF Follows, t
<1>2. CASE i \in 1..Len(q)
  <2>1. PICK j \in 1..(i - 1) : q[j] = s
    BY <1>1, <1>2 DEF Follows
  <2>. QED BY <1>1, <1>2, <2>1
<1>3. CASE i = Len(q) + 1
  <2>1. PICK j \in DOMAIN q : q[j] = s
    BY <1>1, <1>3 DEF Range
  <2>. QED BY <1>1, <1>3, <2>1
<1>. QED BY <1>1, <1>2, <1>3

\* Everything below the first number of a queue is accounted for.
LEMMA FollowsHead ==
  ASSUME NEW q \in Seq(Nat), q # <<>>, NEW A, NEW S, Follows(q, A, S)
  PROVE  \A s \in 1..(Head(q) - 1) : s \in S \/ s \in A
<1>1. 1 \in DOMAIN q /\ Head(q) = q[1]
  BY QueueDomain, TailFacts
<1>2. \A j \in 1..(1 - 1) : FALSE
  OBVIOUS
<1>. QED BY <1>1, <1>2 DEF Follows

\* The first k elements of a queue close the gap below each of them.
LEMMA FollowsPrefix ==
  ASSUME NEW q \in Seq(Nat), NEW k \in 0..Len(q), NEW S, Follows(q, {}, S),
         NEW i \in 1..k, NEW s \in 1..(q[i] - 1)
  PROVE  s \in S \/ s \in {q[j] : j \in 1..k}
<1>1. Len(q) \in Nat /\ DOMAIN q = 1..Len(q)
  BY QueueDomain
<1>2. i \in DOMAIN q /\ \A j \in 1..(i - 1) : j \in 1..k
  BY <1>1
<1>3. s \in S \/ \E j \in 1..(i - 1) : q[j] = s
  BY <1>2 DEF Follows
<1>. QED BY <1>2, <1>3

\* A run of consecutive numbers follows what lies below it.
LEMMA FollowsRun ==
  ASSUME NEW q \in Seq(Nat), NEW f \in Nat, \A i \in 1..Len(q) : q[i] = f + i - 1,
         NEW A, NEW S, \A s \in 1..(f - 1) : s \in S
  PROVE  Follows(q, A, S)
<1>1. Len(q) \in Nat /\ DOMAIN q = 1..Len(q)
  BY QueueDomain
<1>. SUFFICES ASSUME NEW i \in DOMAIN q, NEW s \in 1..(q[i] - 1), s \notin S
     PROVE  \E j \in 1..(i - 1) : q[j] = s
  BY DEF Follows
<1>2. i \in Nat /\ i >= 1 /\ i <= Len(q) /\ q[i] = f + i - 1 /\ s \in Nat /\ s >= 1 /\ s >= f
      /\ s <= f + i - 2
  BY <1>1
<1>. DEFINE j == s - f + 1
<1>3. j \in 1..(i - 1) /\ j \in 1..Len(q) /\ f + j - 1 = s
  BY <1>1, <1>2
<1>. HIDE DEF j
<1>. QED BY <1>3

-----------------------------------------------------------------------------
(* The inductive invariant and its preservation, action by action.         *)

\* What the buffer and the server hold between them.
Kept == Contiguous /\ TrimmedIsDurable /\ NoGaps

DInv == TypeOK /\ Kept /\ AcksAreDurable /\ Strengthening

\* TypeOK without the buffer's part, which AddStep and AckedStep establish.
LEMMA KeptFrame ==
  ASSUME Kept, UNCHANGED <<bufVars, durable, dropped>>
  PROVE  Kept'
BY DEF Kept, Contiguous, TrimmedIsDurable, NoGaps, Safe, bufVars

\* Nothing is buffered, connected, sent or stored at the start.
LEMMA InitInv == Init => DInv
<1>. SUFFICES ASSUME Init PROVE DInv
  OBVIOUS
<1>0. BufTypeOK
  BY CapacityAssumption DEF Init, BufInit, BufTypeOK
<1>0a. backoff \in MinBackoff..MaxBackoff
  BY BackoffAssumption DEF Init
<1>0b. wake \in BOOLEAN /\ progress \in BOOLEAN /\ errCh \in BOOLEAN
  BY DEF Init
<1>0c. prod \in [Producers -> {"idle", "added"}]
  BY DEF Init
<1>1. TypeOK
  BY <1>0, <1>0a, <1>0b, <1>0c, WindowAssumption DEF Init, TypeOK
<1>2. Kept
  BY DEF Init, BufInit, Kept, Contiguous, TrimmedIsDurable, NoGaps
<1>3. AcksAreDurable
  BY DEF Init, AcksAreDurable, Range
<1>4. Strengthening
  BY FollowsEmpty DEF Init, Strengthening, InOrder, Placed
<1>. QED BY <1>1, <1>2, <1>3, <1>4 DEF DInv

\* Steps that move control and change no queue and no number.
LEMMA ControlSteps ==
  ASSUME DInv,
         \/ \E p \in Producers : EnqueueWake(p)
         \/ DialOk \/ DialFails \/ Sleep \/ Woken \/ WindowCovered \/ RecvError
  PROVE  DInv'
<1>. USE DEF prodVars, sendVars, chanVars, netVars, srvVars, bufVars
<1>1. TypeOK'
  <2>. USE DEF DInv, TypeOK, BufTypeOK
  <2>1. CASE \E p \in Producers : EnqueueWake(p)
    BY <2>1 DEF EnqueueWake
  <2>2. CASE DialOk
    BY <2>2 DEF DialOk
  <2>3. CASE DialFails
    <3>1. breaks' \in Nat /\ pc' = "sleep" /\ progress' = FALSE
      BY <2>3 DEF DialFails
    <3>. QED BY <2>3, <3>1 DEF DialFails
  <2>4. CASE Sleep
    <3>1. backoff' \in MinBackoff..MaxBackoff
      BY <2>4, BackoffAssumption DEF Sleep, AtMost
    <3>. QED BY <2>4, <3>1 DEF Sleep
  <2>5. CASE Woken
    BY <2>5 DEF Woken
  <2>6. CASE WindowCovered
    BY <2>6 DEF WindowCovered
  <2>7. CASE RecvError
    BY <2>7 DEF RecvError
  <2>. QED BY <2>1, <2>2, <2>3, <2>4, <2>5, <2>6, <2>7
<1>2. UNCHANGED <<bufVars, durable, dropped, acked, acks, ackCh, srv, stale, wire, pending>>
  BY DEF EnqueueWake, DialOk, DialFails, Sleep, Woken, WindowCovered, RecvError
<1>3. Kept'
  BY <1>2, KeptFrame DEF DInv
<1>4. AcksAreDurable'
  BY <1>2 DEF DInv, AcksAreDurable
<1>5. Placed'
  BY <1>2 DEF DInv, Strengthening, Placed, TypeOK,
              EnqueueWake, DialOk, DialFails, Sleep, Woken, WindowCovered, RecvError
<1>6. stream' = stream \/ (pending = <<>> /\ wire = <<>>)
  BY DEF DInv, Strengthening, Placed,
         EnqueueWake, DialOk, DialFails, Sleep, Woken, WindowCovered, RecvError
<1>7. InOrder'
  BY <1>2, <1>6, FollowsEmpty DEF DInv, Strengthening, InOrder
<1>. QED BY <1>1, <1>3, <1>4, <1>5, <1>7 DEF DInv, Strengthening

\* Safe only grows, and with it what Follows allows.
LEMMA InOrderFrame ==
  ASSUME InOrder, durable \cup dropped \subseteq (durable \cup dropped)',
         UNCHANGED <<stale, srv, stream, wire, pending>>
  PROVE  InOrder'
BY FollowsMono DEF InOrder

\* Enqueue adds an event: only the buffer grows.
LEMMA EnqueueAddStep ==
  ASSUME DInv, NEW p \in Producers, EnqueueAdd(p)
  PROVE  DInv'
<1>. USE DEF prodVars, sendVars, chanVars, netVars, srvVars
<1>1. BufInv /\ Add
  BY DEF DInv, TypeOK, Kept, BufInv, EnqueueAdd
<1>2. /\ BufInv'
      /\ Overflowing => base' = base + 1
      /\ ~Overflowing => base' = base
  BY <1>1, AddStep
<1>3. base \in Nat /\ dropped \in SUBSET Nat
  BY DEF DInv, TypeOK, BufTypeOK
<1>4. /\ dropped' \in SUBSET Nat
      /\ dropped \subseteq dropped'
      /\ durable' = durable
      /\ base' = base \/ (base' = base + 1 /\ base \in dropped')
  BY <1>2, <1>3 DEF EnqueueAdd
<1>5. prod' \in [Producers -> {"idle", "added"}]
  BY DEF DInv, TypeOK, EnqueueAdd
<1>6. TypeOK'
  BY <1>2, <1>4, <1>5 DEF DInv, TypeOK, BufInv, EnqueueAdd
<1>7. TrimmedIsDurable'
  BY <1>3, <1>4 DEF DInv, Kept, TrimmedIsDurable, Safe
<1>8. NoGaps'
  BY <1>4 DEF DInv, Kept, NoGaps, Safe
<1>9. AcksAreDurable'
  BY DEF DInv, AcksAreDurable, EnqueueAdd
<1>10. InOrder'
  BY <1>4, InOrderFrame DEF DInv, Strengthening, EnqueueAdd
<1>11. Placed'
  BY DEF DInv, Strengthening, Placed, EnqueueAdd
<1>. QED BY <1>2, <1>6, <1>7, <1>8, <1>9, <1>10, <1>11 DEF DInv, Kept, BufInv, Strengthening

\* runConnection returns: its channels are gone with it.
LEMMA ReturnErrorStep ==
  ASSUME DInv, SendFails \/ TakeError
  PROVE  DInv'
<1>. USE DEF prodVars, sendVars, chanVars, netVars, srvVars, bufVars
<1>1. ReturnError /\ stream # "up"
  BY DEF SendFails, TakeError, DInv, Strengthening, Placed
<1>2. srv = <<>> /\ wire = <<>>
  BY <1>1 DEF DInv, Strengthening, Placed
<1>3. /\ UNCHANGED <<bufVars, durable, dropped, acked, srv, stale>>
      /\ pending' = <<>> /\ wire' = <<>> /\ acks' = <<>> /\ ackCh' = <<>>
      /\ stream' = "none" /\ pc' = "sleep" /\ errCh' = FALSE
  BY <1>1 DEF ReturnError
<1>4. TypeOK'
  <2>1. BufTypeOK'
    BY <1>3 DEF DInv, TypeOK, BufTypeOK
  <2>2. /\ Len(ackCh') <= AckChanCap /\ ackCh' \in Seq(Nat)
        /\ Len(pending') <= SendWindow /\ pending' \in Seq(Nat)
    BY <1>3, WindowAssumption
  <2>3. wire' \in Seq(Nat) /\ acks' \in Seq(Nat)
    BY <1>3
  <2>3a. errCh' \in BOOLEAN
    BY <1>3
  <2>4. reader' = "off" /\ UNCHANGED <<wake, prod, last, backoff, progress, breaks>>
    BY <1>1 DEF ReturnError
  <2>. QED BY <1>3, <2>1, <2>2, <2>3, <2>3a, <2>4 DEF DInv, TypeOK
<1>5. Kept'
  BY <1>3, KeptFrame DEF DInv
<1>6. AcksAreDurable'
  BY <1>3 DEF DInv, AcksAreDurable, Range
<1>7. InOrder'
  BY <1>3 DEF DInv, Strengthening, InOrder
<1>8. Placed'
  BY <1>2, <1>3 DEF Placed
<1>. QED BY <1>4, <1>5, <1>6, <1>7, <1>8 DEF DInv, Strengthening

\* The sender writes one event to the stream.
LEMMA SendStep ==
  ASSUME DInv, Send
  PROVE  DInv'
<1>. USE DEF prodVars, sendVars, chanVars, netVars, srvVars, bufVars
<1>0. /\ pending \in Seq(Nat) /\ pending # <<>> /\ Len(pending) <= SendWindow
      /\ wire \in Seq(Nat) /\ srv \in Seq(Nat) /\ SendWindow \in Nat
  BY WindowAssumption DEF DInv, TypeOK, Strengthening, Placed, Send
<1>1. /\ Head(pending) \in Nat
      /\ pending' = Tail(pending) /\ pending' \in Seq(Nat) /\ Len(pending') = Len(pending) - 1
      /\ Len(pending) \in Nat
  BY <1>0, QueueDomain, TailFacts, RangeTail DEF Send
<1>2. wire' \in Seq(Nat)
  BY <1>0, <1>1, AppendFacts DEF Send
<1>3. UNCHANGED <<bufVars, durable, dropped, acked, acks, ackCh, errCh, srv, stale, stream>>
  BY DEF Send
<1>4. TypeOK'
  <2>1. Len(pending') <= SendWindow
    BY <1>0, <1>1
  <2>2. pc' \in {"send", "wait"}
    BY DEF Send
  <2>. QED BY <1>1, <1>2, <2>1, <2>2 DEF DInv, TypeOK, BufTypeOK, Send
<1>5. Kept'
  BY <1>3, KeptFrame DEF DInv
<1>6. AcksAreDurable'
  BY <1>3 DEF DInv, AcksAreDurable
<1>7. InOrder'
  <2>1. CASE stream = "up"
    <3>1. wire' = Append(wire, Head(pending))
      BY <2>1 DEF Send
    <3>2. /\ Follows(wire, Range(srv), durable \cup dropped)
          /\ Follows(pending, Range(srv) \cup Range(wire), durable \cup dropped)
      BY <2>1 DEF DInv, Strengthening, InOrder
    <3>3. Follows(wire', Range(srv), durable \cup dropped)
      <4>1. \A s \in 1..(Head(pending) - 1) :
              s \in durable \cup dropped \/ s \in Range(srv) \cup Range(wire)
        BY <1>0, <3>2, FollowsHead
      <4>2. \A s \in 1..(Head(pending) - 1) :
              s \in durable \cup dropped \/ s \in Range(srv) \/ s \in Range(wire)
        BY <4>1
      <4>. QED BY <1>0, <1>1, <3>1, <3>2, <4>2, FollowsAppend
    <3>4. Range(wire') = Range(wire) \cup {Head(pending)}
      BY <1>0, <1>1, <3>1, RangeAppend
    <3>5. Follows(pending', Range(srv) \cup Range(wire'), durable \cup dropped)
      <4>1. Range(srv) \cup Range(wire) \cup (durable \cup dropped) \cup {Head(pending)}
              \subseteq Range(srv) \cup Range(wire') \cup (durable \cup dropped)
        BY <3>4
      <4>. QED BY <1>0, <1>1, <3>2, <4>1, FollowsTail
    <3>. QED BY <1>3, <3>3, <3>5 DEF DInv, Strengthening, InOrder
  <2>2. CASE stream # "up"
    BY <1>3, <2>2 DEF DInv, Strengthening, InOrder
  <2>. QED BY <2>1, <2>2
<1>8. Placed'
  <2>1. pending' = <<>> <=> Len(pending) = 1
    <3>1. pending' # <<>> => Len(pending') # 0
      BY <1>1, EmptySeq
    <3>2. pending' = <<>> => Len(pending') = 0
      OBVIOUS
    <3>. QED BY <1>1, <3>1, <3>2
  <2>2. pc' = "send" <=> pending' # <<>>
    BY <2>1 DEF Send
  <2>3. pc' \notin {"dial", "sleep"}
    BY DEF Send
  <2>. QED BY <1>3, <2>2, <2>3 DEF DInv, Strengthening, Placed, Send
<1>. QED BY <1>4, <1>5, <1>6, <1>7, <1>8 DEF DInv, Strengthening

\* The sender asks the buffer for what comes after its cursor.
LEMMA FetchStep ==
  ASSUME DInv, Fetch
  PROVE  DInv'
<1>. USE DEF prodVars, sendVars, chanVars, netVars, srvVars, bufVars
<1>. DEFINE n == AtMost(Len(After(acked)), SendWindow)
<1>0. /\ BufInv /\ acked \in Nat /\ pending = <<>> /\ base \in Nat
      /\ SendWindow \in Nat /\ SendWindow >= 1
  BY WindowAssumption DEF DInv, Kept, TypeOK, BufTypeOK, BufInv, Strengthening, Placed, Fetch
<1>1. /\ FirstAbove(acked) \in Nat
      /\ After(acked) \in Seq(Nat)
      /\ \A i \in 1..Len(After(acked)) : After(acked)[i] = FirstAbove(acked) + i - 1
  BY <1>0, AfterValue
<1>2. UNCHANGED <<bufVars, durable, dropped, acked, acks, ackCh, errCh, srv, stale, wire, stream>>
  BY DEF Fetch
<1>3. CASE After(acked) = <<>>
  <2>1. pc' = "idle" /\ UNCHANGED <<pending, last>>
    BY <1>3 DEF Fetch
  <2>2. TypeOK'
    BY <2>1 DEF DInv, TypeOK, BufTypeOK, Fetch
  <2>3. InOrder'
    BY <1>2, <2>1, InOrderFrame DEF DInv, Strengthening
  <2>4. Placed'
    BY <1>0, <1>2, <2>1 DEF DInv, Strengthening, Placed
  <2>5. Kept' /\ AcksAreDurable'
    BY <1>2, KeptFrame DEF DInv, AcksAreDurable
  <2>. QED BY <2>2, <2>3, <2>4, <2>5 DEF DInv, Strengthening
<1>4. CASE After(acked) # <<>>
  <2>1. pc' = "send" /\ pending' = SubSeq(After(acked), 1, n) /\ last' = After(acked)[n]
    BY <1>4 DEF Fetch
  <2>2. Len(After(acked)) \in Nat /\ Len(After(acked)) >= 1
    BY <1>1, <1>4, EmptySeq
  <2>3. n \in 1..Len(After(acked)) /\ n <= SendWindow /\ n \in 0..Len(After(acked))
    BY <1>0, <2>2 DEF AtMost
  <2>. HIDE DEF n
  <2>4. pending' \in Seq(Nat) /\ Len(pending') = n /\ \A i \in 1..n : pending'[i] = After(acked)[i]
    BY <1>1, <2>1, <2>3, PrefixFacts
  <2>5. \A i \in 1..Len(pending') : pending'[i] = FirstAbove(acked) + i - 1
    <3>1. ASSUME NEW i \in 1..n PROVE pending'[i] = FirstAbove(acked) + i - 1
      <4>1. i \in 1..Len(After(acked))
        BY <2>2, <2>3
      <4>2. pending'[i] = After(acked)[i]
        BY <2>4
      <4>. QED BY <1>1, <4>1, <4>2
    <3>. QED BY <2>4, <3>1
  <2>6. TypeOK'
    <3>1. last' \in Nat
      BY <1>1, <2>1, <2>3, QueueDomain
    <3>. QED BY <2>1, <2>3, <2>4, <3>1 DEF DInv, TypeOK, BufTypeOK, Fetch
  <2>7. \A s \in 1..(FirstAbove(acked) - 1) : s \in durable \cup dropped
    <3>1. \A s \in 1..(base - 1) : s \in durable \cup dropped
      BY DEF DInv, Kept, TrimmedIsDurable, Safe
    <3>2. \A s \in 1..acked : s \in durable \cup dropped
      <4>1. acked \in durable \/ acked = 0
        BY DEF DInv, AcksAreDurable
      <4>2. CASE acked \in durable
        BY <4>2 DEF DInv, Kept, NoGaps, Safe
      <4>3. CASE acked = 0
        BY <4>3
      <4>. QED BY <4>1, <4>2, <4>3
    <3>3. \/ FirstAbove(acked) = acked + 1
          \/ FirstAbove(acked) = base
      BY DEF FirstAbove
    <3>4. (acked + 1) - 1 = acked
      BY <1>0
    <3>. QED BY <3>1, <3>2, <3>3, <3>4
  <2>8. Follows(pending', Range(srv) \cup Range(wire), durable \cup dropped)
    BY <1>1, <2>4, <2>5, <2>7, FollowsRun
  <2>9. InOrder'
    BY <1>2, <2>8 DEF DInv, Strengthening, InOrder
  <2>10. pending' # <<>>
    BY <2>3, <2>4, EmptySeq
  <2>11. Placed'
    BY <1>2, <2>1, <2>10 DEF DInv, Strengthening, Placed
  <2>12. Kept' /\ AcksAreDurable'
    BY <1>2, KeptFrame DEF DInv, AcksAreDurable
  <2>. QED BY <2>6, <2>9, <2>11, <2>12 DEF DInv, Strengthening
<1>. QED BY <1>3, <1>4

\* The sender takes an acknowledgement out of the channel.
LEMMA TakeAckStep ==
  ASSUME DInv, TakeAck
  PROVE  DInv'
<1>. USE DEF prodVars, sendVars, chanVars, netVars, srvVars, bufVars
<1>1. ackCh \in Seq(Nat) /\ ackCh # <<>> /\ ackCh' = Tail(ackCh)
  BY DEF DInv, TypeOK, TakeAck
<1>2. /\ Head(ackCh) \in Nat /\ Head(ackCh) \in Range(ackCh) /\ Range(ackCh') \subseteq Range(ackCh)
      /\ ackCh' \in Seq(Nat) /\ Len(ackCh') = Len(ackCh) - 1 /\ Len(ackCh) \in Nat
  BY <1>1, RangeTail, TailFacts, QueueDomain
<1>3. UNCHANGED <<bufVars, durable, dropped, acks, errCh, srv, stale, wire, stream, pending>>
  BY DEF TakeAck
<1>4. acked' = acked \/ acked' = Head(ackCh)
  BY DEF TakeAck
<1>5. pc = "wait" /\ pc' \in {"wait", "trim"}
  BY DEF TakeAck
<1>6. progress' = progress \/ progress' = TRUE
  BY DEF TakeAck
<1>7. TypeOK'
  <2>1. acked' \in Nat /\ progress' \in BOOLEAN
    BY <1>2, <1>4, <1>6 DEF DInv, TypeOK
  <2>2. Len(ackCh') <= AckChanCap
    BY <1>2, WindowAssumption DEF DInv, TypeOK
  <2>. QED BY <1>2, <1>3, <1>5, <2>1, <2>2 DEF DInv, TypeOK, BufTypeOK, TakeAck
<1>8. Kept'
  BY <1>3, KeptFrame DEF DInv
<1>9. AcksAreDurable'
  BY <1>2, <1>3, <1>4 DEF DInv, AcksAreDurable
<1>10. InOrder'
  BY <1>3, InOrderFrame DEF DInv, Strengthening
<1>11. Placed'
  BY <1>3, <1>5 DEF DInv, Strengthening, Placed
<1>. QED BY <1>7, <1>8, <1>9, <1>10, <1>11 DEF DInv, Strengthening

\* What lies below a trimmed base was below it before or is acknowledged.
LEMMA BelowTrim ==
  ASSUME NEW b \in Nat, NEW b2 \in Nat, NEW a \in Nat, b2 <= b \/ b2 <= a + 1,
         NEW s \in 1..(b2 - 1)
  PROVE  s \in 1..(b - 1) \/ s \in 1..a
OBVIOUS

\* The buffer gives up what the server has acknowledged.
LEMMA TrimStep ==
  ASSUME DInv, Trim
  PROVE  DInv'
<1>. USE DEF prodVars, sendVars, chanVars, netVars, srvVars
<1>1. BufInv /\ acked \in Nat /\ base \in Nat /\ Acked(acked)
  BY DEF DInv, Kept, TypeOK, BufTypeOK, BufInv, Trim
<1>2. BufInv' /\ (base' <= base \/ base' <= acked + 1)
  BY <1>1, AckedStep
<1>3. UNCHANGED <<durable, dropped, acked, acks, ackCh, errCh, srv, stale, wire, stream, pending>>
  BY DEF Trim
<1>4. pc = "trim" /\ pc' = "wait"
  BY DEF Trim
<1>5. TypeOK'
  BY <1>2, <1>3, <1>4 DEF DInv, TypeOK, BufInv, Trim
<1>6. TrimmedIsDurable'
  <2>1. \A s \in 1..(base - 1) : s \in durable \cup dropped
    BY DEF DInv, Kept, TrimmedIsDurable, Safe
  <2>2. \A s \in 1..acked : s \in durable \cup dropped
    <3>1. acked \in durable \/ acked = 0
      BY DEF DInv, AcksAreDurable
    <3>2. CASE acked \in durable
      BY <3>2 DEF DInv, Kept, NoGaps, Safe
    <3>3. CASE acked = 0
      BY <3>3
    <3>. QED BY <3>1, <3>2, <3>3
  <2>3. base' \in Nat
    BY <1>2 DEF BufInv, BufTypeOK
  <2>4. \A s \in 1..(base' - 1) : s \in 1..(base - 1) \/ s \in 1..acked
    BY <1>1, <1>2, <2>3, BelowTrim
  <2>. QED BY <1>3, <2>1, <2>2, <2>4 DEF TrimmedIsDurable, Safe
<1>7. NoGaps'
  BY <1>3 DEF DInv, Kept, NoGaps, Safe
<1>8. AcksAreDurable'
  BY <1>3 DEF DInv, AcksAreDurable
<1>9. InOrder'
  BY <1>3, InOrderFrame DEF DInv, Strengthening
<1>10. Placed'
  BY <1>3, <1>4 DEF DInv, Strengthening, Placed
<1>. QED BY <1>2, <1>5, <1>6, <1>7, <1>8, <1>9, <1>10 DEF DInv, Kept, BufInv, Strengthening

\* The reader goroutine hands an acknowledgement on.
LEMMA RecvAckStep ==
  ASSUME DInv, RecvAck
  PROVE  DInv'
<1>. USE DEF prodVars, sendVars, chanVars, netVars, srvVars, bufVars
<1>1. /\ acks \in Seq(Nat) /\ acks # <<>> /\ acks' = Tail(acks)
      /\ ackCh \in Seq(Nat) /\ ackCh' = Append(ackCh, Head(acks)) /\ Len(ackCh) < AckChanCap
  BY DEF DInv, TypeOK, RecvAck
<1>2. /\ Head(acks) \in Nat /\ Head(acks) \in Range(acks) /\ Range(acks') \subseteq Range(acks)
      /\ acks' \in Seq(Nat)
  BY <1>1, RangeTail, TailFacts
<1>3. /\ Range(ackCh') = Range(ackCh) \cup {Head(acks)}
      /\ ackCh' \in Seq(Nat) /\ Len(ackCh') = Len(ackCh) + 1 /\ Len(ackCh) \in Nat
  BY <1>1, <1>2, RangeAppend, AppendFacts, QueueDomain
<1>4. UNCHANGED <<bufVars, durable, dropped, acked, errCh, srv, stale, wire, stream, pending, pc>>
  BY DEF RecvAck
<1>5. TypeOK'
  <2>1. Len(ackCh') <= AckChanCap
    BY <1>1, <1>3, WindowAssumption
  <2>. QED BY <1>2, <1>3, <1>4, <2>1 DEF DInv, TypeOK, BufTypeOK, RecvAck
<1>6. Kept'
  BY <1>4, KeptFrame DEF DInv
<1>7. AcksAreDurable'
  BY <1>2, <1>3, <1>4 DEF DInv, AcksAreDurable
<1>8. InOrder'
  BY <1>4, InOrderFrame DEF DInv, Strengthening
<1>9. Placed'
  BY <1>4 DEF DInv, Strengthening, Placed
<1>. QED BY <1>5, <1>6, <1>7, <1>8, <1>9 DEF DInv, Strengthening

\* The server takes one event from the stream.
LEMMA ServerReceiveStep ==
  ASSUME DInv, ServerReceive
  PROVE  DInv'
<1>. USE DEF prodVars, sendVars, chanVars, netVars, srvVars, bufVars
<1>1. /\ stream = "up" /\ wire \in Seq(Nat) /\ wire # <<>> /\ wire' = Tail(wire)
      /\ srv \in Seq(Nat) /\ srv' = Append(srv, Head(wire))
  BY DEF DInv, TypeOK, ServerReceive
<1>2. /\ Head(wire) \in Nat /\ Range(wire) \subseteq {Head(wire)} \cup Range(wire')
      /\ wire' \in Seq(Nat)
  BY <1>1, RangeTail, TailFacts
<1>3. Range(srv') = Range(srv) \cup {Head(wire)} /\ srv' \in Seq(Nat)
  BY <1>1, <1>2, RangeAppend, AppendFacts
<1>4. UNCHANGED <<bufVars, durable, dropped, acked, acks, ackCh, errCh, stale, stream, pending, pc>>
  BY DEF ServerReceive
<1>5. TypeOK'
  BY <1>2, <1>3, <1>4 DEF DInv, TypeOK, BufTypeOK, ServerReceive
<1>6. Kept'
  BY <1>4, KeptFrame DEF DInv
<1>7. AcksAreDurable'
  BY <1>4 DEF DInv, AcksAreDurable
<1>8. InOrder'
  <2>1. /\ Follows(srv, {}, durable \cup dropped)
        /\ Follows(wire, Range(srv), durable \cup dropped)
        /\ Follows(pending, Range(srv) \cup Range(wire), durable \cup dropped)
    BY <1>1 DEF DInv, Strengthening, InOrder
  <2>2. Follows(srv', {}, durable \cup dropped)
    <3>1. \A s \in 1..(Head(wire) - 1) : s \in durable \cup dropped \/ s \in Range(srv)
      BY <1>1, <2>1, FollowsHead
    <3>2. \A s \in 1..(Head(wire) - 1) : s \in durable \cup dropped \/ s \in {} \/ s \in Range(srv)
      BY <3>1
    <3>. QED BY <1>1, <1>2, <2>1, <3>2, FollowsAppend
  <2>3. Follows(wire', Range(srv'), durable \cup dropped)
    <3>1. Range(srv) \cup (durable \cup dropped) \cup {Head(wire)}
            \subseteq Range(srv') \cup (durable \cup dropped)
      BY <1>3
    <3>. QED BY <1>1, <2>1, <3>1, FollowsTail
  <2>4. Follows(pending', Range(srv') \cup Range(wire'), durable \cup dropped)
    <3>1. (Range(srv) \cup Range(wire)) \cup (durable \cup dropped)
            \subseteq (Range(srv') \cup Range(wire')) \cup (durable \cup dropped)
      BY <1>2, <1>3
    <3>. QED BY <1>4, <2>1, <3>1, FollowsMono
  <2>. QED BY <1>4, <2>2, <2>3, <2>4 DEF DInv, Strengthening, InOrder
<1>9. Placed'
  BY <1>1, <1>4 DEF DInv, Strengthening, Placed
<1>. QED BY <1>5, <1>6, <1>7, <1>8, <1>9 DEF DInv, Strengthening

\* The server stores what it received, and acknowledges it.
LEMMA ServerPersistStep ==
  ASSUME DInv, ServerPersist
  PROVE  DInv'
<1>. USE DEF prodVars, sendVars, chanVars, netVars, srvVars, bufVars
<1>1. PICK n \in 1..Len(srv) :
        /\ durable' = durable \cup {srv[i] : i \in 1..n}
        /\ srv' = SubSeq(srv, n + 1, Len(srv))
        /\ \E a \in durable' : acks' = Append(acks, a)
  BY DEF ServerPersist
<1>1a. srv' = SubSeq(srv, n + 1, Len(srv))
  BY <1>1
<1>2. PICK a \in durable' : acks' = Append(acks, a)
  BY <1>1
<1>3. /\ stream = "up" /\ srv \in Seq(Nat) /\ acks \in Seq(Nat) /\ durable \in SUBSET Nat
      /\ Len(srv) \in Nat
  BY QueueDomain DEF DInv, TypeOK, ServerPersist
<1>4. n \in Nat /\ n \in 0..Len(srv)
  BY <1>3
<1>5. \A i \in 1..n : srv[i] \in Nat
  BY <1>3, QueueDomain
<1>6. durable' \in SUBSET Nat /\ a \in Nat
  BY <1>1, <1>2, <1>3, <1>5
<1>7. /\ srv' \in Seq(Nat)
      /\ Range(srv') \subseteq Range(srv)
      /\ Range(srv) \subseteq {srv[i] : i \in 1..n} \cup Range(srv')
  <2>1. srv' \in Seq(Nat)
    BY <1>1a, <1>3, <1>4, SuffixFacts
  <2>2. Range(srv') \subseteq Range(srv) /\ Range(srv) \subseteq {srv[i] : i \in 1..n} \cup Range(srv')
    <3>1. \A t : t = SubSeq(srv, n + 1, Len(srv))
                => Range(t) \subseteq Range(srv) /\ Range(srv) \subseteq {srv[i] : i \in 1..n} \cup Range(t)
      BY <1>3, <1>4, RangeSuffix
    <3>. QED BY <1>1a, <3>1
  <2>. QED BY <2>1, <2>2
<1>8. acks' \in Seq(Nat) /\ Range(acks') = Range(acks) \cup {a}
  BY <1>2, <1>3, <1>6, RangeAppend, AppendFacts
<1>9. UNCHANGED <<bufVars, dropped, acked, ackCh, errCh, stale, wire, stream, pending, pc>>
  BY DEF ServerPersist
<1>10. durable \cup dropped \subseteq (durable \cup dropped)'
  BY <1>1, <1>9
<1>11. TypeOK'
  BY <1>6, <1>7, <1>8, <1>9 DEF DInv, TypeOK, BufTypeOK, ServerPersist
<1>12. TrimmedIsDurable'
  BY <1>9, <1>10 DEF DInv, Kept, TrimmedIsDurable, Safe
<1>13. NoGaps'
  <2>. SUFFICES ASSUME NEW d \in durable', NEW s \in 1..d
       PROVE  s \in durable' \cup dropped'
    BY DEF NoGaps, Safe
  <2>1. CASE d \in durable
    BY <1>10, <2>1 DEF DInv, Kept, NoGaps, Safe
  <2>2. CASE d \in {srv[i] : i \in 1..n}
    <3>1. PICK i \in 1..n : d = srv[i]
      BY <2>2
    <3>2. s = d \/ s \in 1..(srv[i] - 1)
      BY <1>5, <3>1
    <3>3. Follows(srv, {}, durable \cup dropped)
      BY DEF DInv, Strengthening, InOrder
    <3>4. s \in 1..(srv[i] - 1) => s \in durable \cup dropped \/ s \in {srv[j] : j \in 1..n}
      BY <1>3, <1>4, <3>3, FollowsPrefix
    <3>. QED BY <1>1, <1>10, <3>2, <3>4
  <2>. QED BY <1>1, <2>1, <2>2
<1>14. Contiguous'
  BY <1>9 DEF DInv, Kept, Contiguous
<1>15. AcksAreDurable'
  BY <1>1, <1>8, <1>9 DEF DInv, AcksAreDurable
<1>16. InOrder'
  <2>1. /\ Follows(stale, {}, durable \cup dropped)
        /\ Follows(srv, {}, durable \cup dropped)
        /\ Follows(wire, Range(srv), durable \cup dropped)
        /\ Follows(pending, Range(srv) \cup Range(wire), durable \cup dropped)
    BY <1>3 DEF DInv, Strengthening, InOrder
  <2>2. Follows(stale', {}, (durable \cup dropped)')
    BY <1>9, <1>10, <2>1, FollowsMono
  <2>3. Follows(srv', {}, (durable \cup dropped)')
    <3>1. {} \cup (durable \cup dropped) \cup {srv[i] : i \in 1..n}
            \subseteq {} \cup (durable \cup dropped)'
      BY <1>1, <1>10
    <3>2. \A t, S2 : t = SubSeq(srv, n + 1, Len(srv))
                    /\ {} \cup (durable \cup dropped) \cup {srv[i] : i \in 1..n} \subseteq {} \cup S2
                    => Follows(t, {}, S2)
      BY <1>3, <1>4, <2>1, FollowsSuffix
    <3>. QED BY <1>1a, <3>1, <3>2
  <2>4. Follows(wire', Range(srv'), (durable \cup dropped)')
    <3>1. Range(srv) \cup (durable \cup dropped) \subseteq Range(srv') \cup (durable \cup dropped)'
      BY <1>1, <1>7, <1>10
    <3>. QED BY <1>9, <2>1, <3>1, FollowsMono
  <2>5. Follows(pending', Range(srv') \cup Range(wire'), (durable \cup dropped)')
    <3>1. (Range(srv) \cup Range(wire)) \cup (durable \cup dropped)
            \subseteq (Range(srv') \cup Range(wire')) \cup (durable \cup dropped)'
      BY <1>1, <1>7, <1>9, <1>10
    <3>. QED BY <1>9, <2>1, <3>1, FollowsMono
  <2>. QED BY <2>2, <2>3, <2>4, <2>5 DEF InOrder
<1>17. Placed'
  BY <1>3, <1>9 DEF DInv, Strengthening, Placed
<1>. QED BY <1>11, <1>12, <1>13, <1>14, <1>15, <1>16, <1>17 DEF DInv, Kept, Strengthening

\* A server that answers for a connection that is gone stores events too.
LEMMA ServerPersistStaleStep ==
  ASSUME DInv, ServerPersistStale
  PROVE  DInv'
<1>. USE DEF prodVars, sendVars, chanVars, netVars, srvVars, bufVars
<1>1. /\ stale \in Seq(Nat) /\ stale # <<>> /\ stale' = Tail(stale)
      /\ durable' = durable \cup {Head(stale)} /\ durable \in SUBSET Nat
      /\ Follows(stale, {}, durable \cup dropped)
  BY DEF DInv, TypeOK, Strengthening, InOrder, ServerPersistStale
<1>2. Head(stale) \in Nat /\ stale' \in Seq(Nat)
  BY <1>1, RangeTail, TailFacts
<1>3. UNCHANGED <<bufVars, dropped, acked, acks, ackCh, errCh, srv, wire, stream, pending, pc>>
  BY DEF ServerPersistStale
<1>4. durable \cup dropped \subseteq (durable \cup dropped)'
  BY <1>1, <1>3
<1>5. TypeOK'
  <2>1. durable' \in SUBSET Nat
    BY <1>1, <1>2
  <2>. QED BY <1>2, <1>3, <2>1 DEF DInv, TypeOK, BufTypeOK, ServerPersistStale
<1>6. TrimmedIsDurable' /\ Contiguous'
  BY <1>3, <1>4 DEF DInv, Kept, TrimmedIsDurable, Safe, Contiguous
<1>7. NoGaps'
  <2>. SUFFICES ASSUME NEW d \in durable', NEW s \in 1..d
       PROVE  s \in durable' \cup dropped'
    BY DEF NoGaps, Safe
  <2>1. CASE d \in durable
    BY <1>4, <2>1 DEF DInv, Kept, NoGaps, Safe
  <2>2. CASE d = Head(stale)
    <3>1. s = d \/ s \in 1..(Head(stale) - 1)
      BY <1>2, <2>2
    <3>2. s \in 1..(Head(stale) - 1) => s \in durable \cup dropped
      BY <1>1, FollowsHead
    <3>. QED BY <1>1, <1>4, <2>2, <3>1, <3>2
  <2>. QED BY <1>1, <2>1, <2>2
<1>8. AcksAreDurable'
  BY <1>1, <1>3 DEF DInv, AcksAreDurable
<1>9. InOrder'
  <2>1. Follows(stale', {}, (durable \cup dropped)')
    <3>1. {} \cup (durable \cup dropped) \cup {Head(stale)} \subseteq {} \cup (durable \cup dropped)'
      BY <1>1, <1>4
    <3>. QED BY <1>1, <3>1, FollowsTail
  <2>2. \A q, A : Follows(q, A, durable \cup dropped) => Follows(q, A, (durable \cup dropped)')
    BY <1>4, FollowsMono
  <2>. QED BY <1>3, <2>1, <2>2 DEF DInv, Strengthening, InOrder
<1>10. Placed'
  BY <1>3 DEF DInv, Strengthening, Placed
<1>. QED BY <1>5, <1>6, <1>7, <1>8, <1>9, <1>10 DEF DInv, Kept, Strengthening

\* The stream ends, with everything in flight on it: the connection broke, or
\* the client rejected one of its own events.
LEMMA BreakStep ==
  ASSUME DInv, Break \/ SendRejected
  PROVE  DInv'
<1>. USE DEF prodVars, sendVars, chanVars, netVars, srvVars, bufVars
<1>0. /\ StreamEnds
      /\ breaks' = breaks + 1 \/ breaks' = breaks
  BY DEF Break, SendRejected
<1>1. PICK n \in 0..Len(acks) : acks' = SubSeq(acks, 1, n)
  BY <1>0 DEF StreamEnds
<1>2. acks \in Seq(Nat)
  BY DEF DInv, TypeOK
<1>3. /\ acks' \in Seq(Nat) /\ Len(acks') = n /\ DOMAIN acks' = 1..n
      /\ \A i \in 1..n : acks'[i] = acks[i]
  BY <1>1, <1>2, PrefixFacts, QueueDomain
<1>4. Range(acks') \subseteq Range(acks)
  <2>1. Len(acks) \in Nat /\ DOMAIN acks = 1..Len(acks)
    BY <1>2, QueueDomain
  <2>2. \A i \in 1..n : i \in DOMAIN acks
    BY <2>1
  <2>. QED BY <1>3, <2>2 DEF Range
<1>5. /\ stream = "up" /\ stream' = "broken" /\ wire' = <<>> /\ srv' = <<>>
      /\ stale' = srv \/ stale' = <<>>
      /\ breaks' \in Nat
  BY <1>0 DEF DInv, TypeOK, StreamEnds
<1>6. UNCHANGED <<bufVars, durable, dropped, acked, ackCh, errCh, pending, pc>>
  BY <1>0 DEF StreamEnds
<1>7. TypeOK'
  <2>1. wire' \in Seq(Nat) /\ srv' \in Seq(Nat) /\ stale' \in Seq(Nat) /\ breaks' \in Nat
    <3>1. srv \in Seq(Nat) /\ <<>> \in Seq(Nat)
      BY EmptySeq DEF DInv, TypeOK
    <3>2. wire' \in Seq(Nat) /\ srv' \in Seq(Nat)
      BY <1>5, <3>1
    <3>3. stale' \in Seq(Nat)
      BY <1>5, <3>1
    <3>4. breaks' \in Nat
      BY <1>5
    <3>. QED BY <3>2, <3>3, <3>4
  <2>. QED BY <1>0, <1>3, <1>5, <1>6, <2>1 DEF DInv, TypeOK, BufTypeOK, StreamEnds
<1>8. Kept'
  BY <1>6, KeptFrame DEF DInv
<1>9. AcksAreDurable'
  BY <1>4, <1>6 DEF DInv, AcksAreDurable
<1>10. InOrder'
  BY <1>5, <1>6, FollowsEmpty DEF DInv, Strengthening, InOrder
<1>11. Placed'
  BY <1>5, <1>6 DEF DInv, Strengthening, Placed
<1>. QED BY <1>7, <1>8, <1>9, <1>10, <1>11 DEF DInv, Strengthening

\* A step that changes nothing.
LEMMA StutterStep ==
  ASSUME DInv, UNCHANGED vars
  PROVE  DInv'
<1>. USE DEF vars, prodVars, sendVars, chanVars, netVars, srvVars, bufVars
<1>1. Kept'
  BY KeptFrame DEF DInv
<1>2. TypeOK' /\ AcksAreDurable'
  BY DEF DInv, TypeOK, BufTypeOK, AcksAreDurable
<1>3. InOrder' /\ Placed'
  BY InOrderFrame DEF DInv, Strengthening, Placed
<1>. QED BY <1>1, <1>2, <1>3 DEF DInv, Strengthening

\* The invariant holds of every reachable state.
THEOREM Invariance == Spec => []DInv
<1>1. DInv /\ [Next]_vars => DInv'
  <2>. SUFFICES ASSUME DInv, [Next]_vars PROVE DInv'
    OBVIOUS
  <2>1. CASE \E p \in Producers : EnqueueAdd(p) \/ EnqueueWake(p)
    BY <2>1, EnqueueAddStep, ControlSteps
  <2>2. CASE Sender
    BY <2>2, ControlSteps, FetchStep, SendStep, BreakStep, ReturnErrorStep, TakeAckStep,
          TrimStep DEF Sender
  <2>3. CASE Receiver
    BY <2>3, RecvAckStep, ControlSteps DEF Receiver
  <2>4. CASE Server
    BY <2>4, ServerReceiveStep, ServerPersistStep, ServerPersistStaleStep DEF Server
  <2>5. CASE Break
    BY <2>5, BreakStep
  <2>6. CASE UNCHANGED vars
    BY <2>6, StutterStep
  <2>. QED BY <2>1, <2>2, <2>3, <2>4, <2>5, <2>6 DEF Next
<1>. QED BY <1>1, InitInv, PTL DEF Spec

\* For every number of producers, every capacity, window and channel size, and
\* any number of failures: the variables keep their types and bounds.
THEOREM TypeCorrect == Spec => []TypeOK
<1>1. DInv => TypeOK
  BY DEF DInv
<1>. QED BY <1>1, Invariance, PTL

\* No event leaves the replay buffer unless it is durable at the server or an
\* overflow gave it up.
THEOREM NothingTrimmedEarly == Spec => []TrimmedIsDurable
<1>1. DInv => TrimmedIsDurable
  BY DEF DInv, Kept
<1>. QED BY <1>1, Invariance, PTL

\* The server's record has no holes other than the events the client dropped,
\* so an acknowledgement of n stands for all that precedes n.
THEOREM NoGapsEver == Spec => []NoGaps
<1>1. DInv => NoGaps
  BY DEF DInv, Kept
<1>. QED BY <1>1, Invariance, PTL

\* Every acknowledgement in flight, and the watermark, stand for stored events.
THEOREM AcksNeverLie == Spec => []AcksAreDurable
<1>1. DInv => AcksAreDurable
  BY DEF DInv
<1>. QED BY <1>1, Invariance, PTL
-----------------------------------------------------------------------------
(* The wake channel.                                                       *)

\* enqueue appends before it pokes, and the sender looks into the buffer after
\* it took the token: only Fetch puts the sender to sleep, on an empty rest.
LEMMA WakeupStep ==
  ASSUME DInv, NoLostWakeup, [Next]_vars
  PROVE  NoLostWakeup'
<1>. USE DEF prodVars, sendVars, chanVars, netVars, srvVars, bufVars
<1>0. SUFFICES ASSUME pc' = "idle", After(acked)' # <<>>
      PROVE  wake' \/ \E p \in Producers : prod'[p] = "added"
  BY DEF NoLostWakeup
<1>1. ASSUME NEW p \in Producers, EnqueueAdd(p)
      PROVE  prod'[p] = "added"
  BY <1>1 DEF EnqueueAdd, DInv, TypeOK
<1>2. ASSUME NEW p \in Producers, EnqueueWake(p)
      PROVE  wake'
  BY <1>2 DEF EnqueueWake
<1>3. CASE Sender
  <2>1. ~(DialOk \/ DialFails \/ Sleep \/ Woken \/ WindowCovered)
    BY <1>0 DEF DialOk, DialFails, Sleep, Woken, WindowCovered
  <2>2. ~(SendFails \/ TakeError \/ Send \/ Trim)
    BY <1>0 DEF SendFails, TakeError, ReturnError, Send, Trim
  <2>3. ~(TakeAck \/ SendRejected)
    BY <1>0 DEF TakeAck, SendRejected, StreamEnds
  <2>4. ~Fetch
    <3>1. Fetch => After(acked) = <<>> /\ UNCHANGED <<base, events, acked>>
      BY <1>0 DEF Fetch
    <3>2. UNCHANGED <<base, events, acked>> => After(acked)' = After(acked)
      BY DEF After
    <3>. QED BY <1>0, <3>1, <3>2
  <2>. QED BY <1>3, <2>1, <2>2, <2>3, <2>4 DEF Sender
<1>4. ASSUME UNCHANGED <<base, events, acked, pc, wake, prod>>
      PROVE  wake' \/ \E p \in Producers : prod'[p] = "added"
  <2>1. After(acked)' = After(acked)
    BY <1>4 DEF After
  <2>. QED BY <1>0, <1>4, <2>1 DEF NoLostWakeup
<1>5. Receiver \/ Server \/ Break \/ UNCHANGED vars
        => UNCHANGED <<base, events, acked, pc, wake, prod>>
  BY DEF Receiver, RecvAck, RecvError, Server, ServerReceive, ServerPersist,
         ServerPersistStale, Break, StreamEnds, vars
<1>. QED BY <1>1, <1>2, <1>3, <1>4, <1>5 DEF Next

\* However producers, sender and failures interleave, the sender never sleeps
\* on the wake channel over an event that nobody is going to wake it for.
THEOREM SleepsOnlyWhenDone == Spec => []NoLostWakeup
<1>1. Init => NoLostWakeup
  BY DEF Init, NoLostWakeup
<1>. QED BY <1>1, WakeupStep, Invariance, PTL DEF Spec
-----------------------------------------------------------------------------
(* The delivery path implements the abstract log.                          *)

\* The numbers on their way to the server, or there.
Numbers == Range(pending) \cup Range(wire) \cup Range(srv) \cup Range(stale) \cup durable

\* Nothing is sent or stored that was not accepted, and what an overflow
\* dropped is gone from the buffer: the abstract log has no other numbers to
\* store, and none to release that is not durable.
Assigned ==
  /\ Numbers \subseteq 1..(NextSeq - 1)
  /\ dropped \subseteq 1..(base - 1)

\* The buffer's numbers as integers, for steps that count.
LEMMA BufferNumbers ==
  ASSUME DInv
  PROVE  BufInv /\ base \in Nat /\ base >= 1 /\ NextSeq \in Nat /\ base <= NextSeq
<1>1. BufInv
  BY DEF DInv, Kept, TypeOK, BufInv
<1>. QED BY <1>1, BufInvIndices DEF NextSeq

\* Steps that put no new number on its way.
LEMMA AssignedFrame ==
  ASSUME DInv, Assigned, Numbers' \subseteq Numbers, UNCHANGED <<bufVars, dropped>>
  PROVE  Assigned'
BY DEF Assigned, NextSeq, bufVars

\* What each step adds to the numbers on their way.
LEMMA AssignedStep ==
  ASSUME DInv, Assigned, [Next]_vars
  PROVE  Assigned'
<1>. USE DEF prodVars, sendVars, chanVars, netVars, srvVars, bufVars
<1>0. BufInv /\ base \in Nat /\ base >= 1 /\ NextSeq \in Nat /\ base <= NextSeq
  BY BufferNumbers
<1>t. /\ pending \in Seq(Nat) /\ wire \in Seq(Nat) /\ srv \in Seq(Nat) /\ stale \in Seq(Nat)
      /\ acked \in Nat
  BY DEF DInv, TypeOK
<1>e. Range(<<>>) = {}
  BY DEF Range
<1>1. ASSUME NEW p \in Producers, EnqueueAdd(p)
      PROVE  Assigned'
  <2>1. NextSeq' = NextSeq + 1 /\ (Overflowing => base' = base + 1) /\ (~Overflowing => base' = base)
    BY <1>0, <1>1, AddStep DEF EnqueueAdd
  <2>2. Numbers' = Numbers
    BY <1>1 DEF EnqueueAdd, Numbers
  <2>3. Numbers' \subseteq 1..(NextSeq' - 1)
    BY <1>0, <2>1, <2>2 DEF Assigned
  <2>4. dropped' \subseteq 1..(base' - 1)
    BY <1>0, <1>1, <2>1 DEF EnqueueAdd, Assigned
  <2>. QED BY <2>3, <2>4 DEF Assigned
<1>2. CASE Fetch
  <2>1. CASE After(acked) = <<>>
    <3>1. UNCHANGED <<bufVars, dropped>> /\ Numbers' = Numbers
      BY <1>2, <2>1 DEF Fetch, Numbers
    <3>. QED BY <3>1, AssignedFrame
  <2>2. CASE After(acked) # <<>>
    <3>. DEFINE n == AtMost(Len(After(acked)), SendWindow)
    <3>1. /\ FirstAbove(acked) \in Nat
          /\ After(acked) \in Seq(Nat)
          /\ Len(After(acked)) = IF FirstAbove(acked) > NextSeq THEN 0 ELSE NextSeq - FirstAbove(acked)
          /\ \A i \in 1..Len(After(acked)) : After(acked)[i] = FirstAbove(acked) + i - 1
      BY <1>0, <1>t, AfterValue
    <3>2. Len(After(acked)) \in Nat /\ Len(After(acked)) >= 1
      BY <2>2, <3>1, EmptySeq
    <3>3. n \in 0..Len(After(acked))
      BY <3>2, WindowAssumption DEF AtMost
    <3>4. pending' = SubSeq(After(acked), 1, n) /\ UNCHANGED <<bufVars, dropped, wire, srv, stale, durable>>
      BY <1>2, <2>2 DEF Fetch
    <3>. HIDE DEF n
    <3>5. pending' \in Seq(Nat) /\ Len(pending') = n /\ \A i \in 1..n : pending'[i] = After(acked)[i]
      BY <3>1, <3>3, <3>4, PrefixFacts
    <3>6. FirstAbove(acked) >= 1
      BY <1>0, <1>t DEF FirstAbove
    <3>7. ASSUME NEW i \in DOMAIN pending' PROVE pending'[i] \in 1..(NextSeq - 1)
      <4>1. i \in 1..n
        BY <3>5, QueueDomain
      <4>2. i \in 1..Len(After(acked)) /\ pending'[i] = After(acked)[i]
        BY <3>2, <3>3, <3>5, <4>1
      <4>3. pending'[i] = FirstAbove(acked) + i - 1 /\ i <= NextSeq - FirstAbove(acked)
        BY <1>0, <3>1, <3>2, <4>2
      <4>. QED BY <1>0, <3>1, <3>2, <3>6, <4>2, <4>3
    <3>8. Range(pending') \subseteq 1..(NextSeq - 1)
      BY <3>7 DEF Range
    <3>9. Numbers' \subseteq 1..(NextSeq - 1)
      BY <3>4, <3>8 DEF Numbers, Assigned
    <3>. QED BY <3>4, <3>9 DEF Assigned, NextSeq
  <2>. QED BY <2>1, <2>2
<1>3. CASE Send
  <2>1. /\ pending # <<>> /\ pending' = Tail(pending)
        /\ wire' = wire \/ wire' = Append(wire, Head(pending))
        /\ UNCHANGED <<bufVars, dropped, srv, stale, durable>>
    BY <1>3 DEF Send, DInv, Strengthening, Placed
  <2>2. Head(pending) \in Nat /\ Head(pending) \in Range(pending) /\ Range(pending') \subseteq Range(pending)
    BY <1>t, <2>1, RangeTail
  <2>3. Range(wire') \subseteq Range(wire) \cup {Head(pending)}
    <3>1. Range(Append(wire, Head(pending))) = Range(wire) \cup {Head(pending)}
      BY <1>t, <2>2, RangeAppend
    <3>. QED BY <2>1, <3>1
  <2>4. Numbers' \subseteq Numbers
    BY <2>1, <2>2, <2>3 DEF Numbers
  <2>. QED BY <2>1, <2>4, AssignedFrame
<1>4. CASE Trim
  <2>1. BufInv' /\ NextSeq' = NextSeq /\ base <= base'
    BY <1>0, <1>4, <1>t, AckedStep DEF Trim
  <2>2. base' \in Nat
    BY <2>1, BufInvIndicesNext
  <2>3. UNCHANGED <<dropped, pending, wire, srv, stale, durable>>
    BY <1>4 DEF Trim
  <2>4. Numbers' = Numbers
    BY <2>3 DEF Numbers
  <2>5. Numbers' \subseteq 1..(NextSeq' - 1)
    BY <2>1, <2>4 DEF Assigned
  <2>6. dropped' \subseteq 1..(base' - 1)
    <3>1. dropped \subseteq 1..(base - 1) /\ dropped' = dropped
      BY <2>3 DEF Assigned
    <3>2. base \in Nat /\ base' \in Nat /\ base <= base'
      BY <1>0, <2>1, <2>2
    <3>3. 1..(base - 1) \subseteq 1..(base' - 1)
      BY <3>2, NumbersBelow
    <3>. QED BY <3>1, <3>3
  <2>. QED BY <2>5, <2>6 DEF Assigned
<1>5. CASE ServerReceive
  <2>1. /\ wire # <<>> /\ wire' = Tail(wire) /\ srv' = Append(srv, Head(wire))
        /\ UNCHANGED <<bufVars, dropped, pending, stale, durable>>
    BY <1>5 DEF ServerReceive
  <2>2. Head(wire) \in Nat /\ Head(wire) \in Range(wire) /\ Range(wire') \subseteq Range(wire)
    BY <1>t, <2>1, RangeTail
  <2>3. Range(srv') = Range(srv) \cup {Head(wire)}
    BY <1>t, <2>1, <2>2, RangeAppend
  <2>4. Numbers' \subseteq Numbers
    BY <2>1, <2>2, <2>3 DEF Numbers
  <2>. QED BY <2>1, <2>4, AssignedFrame
<1>6. CASE ServerPersist
  <2>1. PICK n \in 1..Len(srv) :
          /\ durable' = durable \cup {srv[i] : i \in 1..n}
          /\ srv' = SubSeq(srv, n + 1, Len(srv))
    BY <1>6 DEF ServerPersist
  <2>2. Len(srv) \in Nat /\ DOMAIN srv = 1..Len(srv) /\ n \in 0..Len(srv)
    BY <1>t, QueueDomain
  <2>3. {srv[i] : i \in 1..n} \subseteq Range(srv)
    BY <2>2 DEF Range
  <2>4. \A t : t = SubSeq(srv, n + 1, Len(srv)) => Range(t) \subseteq Range(srv)
    BY <1>t, <2>2, RangeSuffix
  <2>5. UNCHANGED <<bufVars, dropped, pending, wire, stale>>
    BY <1>6 DEF ServerPersist
  <2>6. Range(srv') \subseteq Range(srv) /\ durable' \subseteq durable \cup Range(srv)
    BY <2>1, <2>3, <2>4
  <2>7. Numbers' \subseteq Numbers
    BY <2>5, <2>6 DEF Numbers
  <2>. QED BY <2>5, <2>7, AssignedFrame
<1>7. CASE ServerPersistStale
  <2>1. /\ stale # <<>> /\ stale' = Tail(stale) /\ durable' = durable \cup {Head(stale)}
        /\ UNCHANGED <<bufVars, dropped, pending, wire, srv>>
    BY <1>7 DEF ServerPersistStale
  <2>2. Head(stale) \in Range(stale) /\ Range(stale') \subseteq Range(stale)
    BY <1>t, <2>1, RangeTail
  <2>3. Numbers' \subseteq Numbers
    BY <2>1, <2>2 DEF Numbers
  <2>. QED BY <2>1, <2>3, AssignedFrame
<1>8. CASE Break \/ SendRejected
  <2>1. /\ wire' = <<>> /\ srv' = <<>> /\ (stale' = srv \/ stale' = <<>>)
        /\ UNCHANGED <<bufVars, dropped, pending, durable>>
    BY <1>8 DEF Break, SendRejected, StreamEnds
  <2>2. Numbers' \subseteq Numbers
    BY <1>e, <2>1 DEF Numbers
  <2>. QED BY <2>1, <2>2, AssignedFrame
<1>9. CASE SendFails \/ TakeError
  <2>1. /\ wire' = <<>> /\ pending' = <<>>
        /\ UNCHANGED <<bufVars, dropped, srv, stale, durable>>
    BY <1>9 DEF SendFails, TakeError, ReturnError
  <2>2. Numbers' \subseteq Numbers
    BY <1>e, <2>1 DEF Numbers
  <2>. QED BY <2>1, <2>2, AssignedFrame
<1>10. ASSUME \/ \E p \in Producers : EnqueueWake(p)
              \/ DialOk \/ DialFails \/ Sleep \/ Woken \/ TakeAck \/ WindowCovered
              \/ Receiver \/ UNCHANGED vars
       PROVE  Assigned'
  <2>1. UNCHANGED <<bufVars, dropped, pending, wire, srv, stale, durable>>
    BY <1>10 DEF EnqueueWake, DialOk, DialFails, Sleep, Woken, TakeAck, WindowCovered, Receiver,
                 RecvAck, RecvError, vars
  <2>2. Numbers' = Numbers
    BY <2>1 DEF Numbers
  <2>. QED BY <2>1, <2>2, AssignedFrame
<1>. QED BY <1>1, <1>2, <1>3, <1>4, <1>5, <1>6, <1>7, <1>8, <1>9, <1>10
         DEF Next, Sender, Server

\* Whatever the failures and replays, no number is sent or stored that the
\* buffer did not hand out, and what was dropped has left the buffer.
THEOREM OnlyAccepted == Spec => []Assigned
<1>1. Init => Assigned
  BY DEF Init, BufInit, Assigned, Numbers, Range
<1>. QED BY <1>1, AssignedStep, Invariance, PTL DEF Spec

\* An enqueue is accepted by the abstract log; the event an overflow gives up
\* is the oldest retained, or the new one if the buffer holds no other.
LEMMA EnqueueAccepts ==
  ASSUME DInv, DInv', NEW p \in Producers, EnqueueAdd(p)
  PROVE  Log!Accept
<1>. USE DEF prodVars, sendVars, chanVars, netVars, srvVars
<1>0. /\ BufInv /\ base \in Nat /\ base >= 1 /\ NextSeq \in Nat /\ base <= NextSeq
      /\ BufInv' /\ Add
  BY BufferNumbers DEF DInv, Kept, TypeOK, BufInv, EnqueueAdd
<1>1. /\ NextSeq' = NextSeq + 1
      /\ (Overflowing => base' = base + 1) /\ (~Overflowing => base' = base)
  BY <1>0, AddStep
<1>2. Retained = base..(NextSeq - 1) /\ Retained' = base'..(NextSeq' - 1)
  BY <1>0, RetainedRange, RetainedRangeNext
<1>3. durable' = durable /\ dropped' = IF Overflowing THEN dropped \cup {base} ELSE dropped
  BY DEF EnqueueAdd
<1>4. (NextSeq' - 1) = (NextSeq - 1) + 1 /\ (NextSeq - 1) + 1 = NextSeq
  BY <1>0, <1>1
<1>5. CASE ~Overflowing
  <2>1. Retained' = Retained \cup {NextSeq}
    BY <1>0, <1>1, <1>2, <1>5
  <2>. QED BY <1>3, <1>4, <1>5, <2>1 DEF Log!Accept
<1>6. CASE Overflowing
  <2>1. Retained' = (Retained \cup {NextSeq}) \ {base}
    BY <1>0, <1>1, <1>2, <1>6
  <2>2. base \in Retained \cup {NextSeq} /\ \A s \in Retained : base <= s
    BY <1>0, <1>2
  <2>. QED BY <1>3, <1>4, <1>6, <2>1, <2>2 DEF Log!Accept
<1>. QED BY <1>5, <1>6

\* A server that stores a prefix of what it received leaves no gap behind.
LEMMA ServerPersists ==
  ASSUME DInv, Assigned, ServerPersist
  PROVE  Log!Persist
<1>. USE DEF prodVars, sendVars, chanVars, netVars, srvVars, bufVars
<1>1. PICK n \in 1..Len(srv) : durable' = durable \cup {srv[i] : i \in 1..n}
  BY DEF ServerPersist
<1>2. srv \in Seq(Nat) /\ Follows(srv, {}, durable \cup dropped)
  BY DEF DInv, TypeOK, Strengthening, InOrder
<1>3. Len(srv) \in Nat /\ DOMAIN srv = 1..Len(srv) /\ n \in 0..Len(srv)
  BY <1>2, QueueDomain
<1>. DEFINE stored == {srv[i] : i \in 1..n}
<1>4. stored \in SUBSET (1..(NextSeq - 1))
  BY <1>3 DEF Range, Assigned, Numbers
<1>5. ASSUME NEW s \in stored, NEW r \in 1..s
      PROVE  r \in durable \cup dropped \cup stored
  <2>1. PICK i \in 1..n : s = srv[i]
    OBVIOUS
  <2>2. r = s \/ r \in 1..(srv[i] - 1)
    BY <1>2, <1>3, <2>1, QueueDomain
  <2>3. r \in 1..(srv[i] - 1) => r \in durable \cup dropped \/ r \in {srv[j] : j \in 1..n}
    BY <1>2, <1>3, FollowsPrefix
  <2>. QED BY <2>2, <2>3
<1>6. NextSeq' = NextSeq /\ Retained' = Retained /\ dropped' = dropped
  BY DEF ServerPersist, NextSeq, Retained
<1>. QED BY <1>1, <1>4, <1>5, <1>6 DEF Log!Persist

\* Nor does a handler that outlived its stream.
LEMMA StalePersists ==
  ASSUME DInv, Assigned, ServerPersistStale
  PROVE  Log!Persist
<1>. USE DEF prodVars, sendVars, chanVars, netVars, srvVars, bufVars
<1>1. /\ stale \in Seq(Nat) /\ stale # <<>> /\ Follows(stale, {}, durable \cup dropped)
      /\ durable' = durable \cup {Head(stale)}
  BY DEF DInv, TypeOK, Strengthening, InOrder, ServerPersistStale
<1>2. Head(stale) \in Nat /\ Head(stale) \in Range(stale)
  BY <1>1, RangeTail
<1>3. {Head(stale)} \in SUBSET (1..(NextSeq - 1))
  BY <1>2 DEF Assigned, Numbers
<1>4. ASSUME NEW r \in 1..Head(stale)
      PROVE  r \in durable \cup dropped \cup {Head(stale)}
  <2>1. r = Head(stale) \/ r \in 1..(Head(stale) - 1)
    BY <1>2
  <2>2. \A s \in 1..(Head(stale) - 1) : s \in durable \cup dropped \/ s \in {}
    BY <1>1, FollowsHead
  <2>. QED BY <2>1, <2>2
<1>5. NextSeq' = NextSeq /\ Retained' = Retained /\ dropped' = dropped
  BY DEF ServerPersistStale, NextSeq, Retained
<1>. QED BY <1>1, <1>3, <1>4, <1>5 DEF Log!Persist

\* Trimming releases durable events only: what lies up to the watermark is
\* stored or was dropped, and what was dropped is not retained.
LEMMA TrimReleases ==
  ASSUME DInv, Assigned, Trim
  PROVE  Log!Release
<1>. USE DEF prodVars, sendVars, chanVars, netVars, srvVars
<1>1. /\ BufInv /\ base \in Nat /\ base >= 1 /\ NextSeq \in Nat /\ base <= NextSeq
      /\ acked \in Nat /\ Acked(acked)
  BY BufferNumbers DEF DInv, TypeOK, Trim
<1>2. /\ BufInv' /\ NextSeq' = NextSeq /\ base <= base'
      /\ base' <= base \/ base' <= acked + 1
  BY <1>1, AckedStep
<1>3. base' \in Nat
  BY <1>2, BufInvIndicesNext
<1>4. Retained = base..(NextSeq - 1) /\ Retained' = base'..(NextSeq' - 1)
  BY <1>1, <1>2, RetainedRange, RetainedRangeNext
<1>. DEFINE freed == {s \in Retained : s < base'}
<1>5. Retained' = Retained \ freed
  BY <1>1, <1>2, <1>3, <1>4
<1>6. ASSUME NEW s \in freed PROVE s \in durable
  <2>0. s \in base..(NextSeq - 1) /\ s < base'
    BY <1>4
  <2>1. s \in 1..acked /\ s >= base
    BY <1>1, <1>2, <1>3, <2>0
  <2>2. s \notin dropped
    BY <1>1, <2>1 DEF Assigned
  <2>3. acked \in durable
    BY <2>1 DEF DInv, AcksAreDurable
  <2>. QED BY <2>1, <2>2, <2>3 DEF DInv, Kept, NoGaps, Safe
<1>7. freed \in SUBSET (Retained \cap durable)
  BY <1>6
<1>8. durable' = durable /\ dropped' = dropped
  BY DEF Trim
<1>. HIDE DEF freed
<1>. QED BY <1>2, <1>5, <1>7, <1>8 DEF Log!Release

\* Every other step is invisible to the abstract log.
LEMMA OthersStutter ==
  ASSUME \/ \E p \in Producers : EnqueueWake(p)
         \/ DialOk \/ DialFails \/ Sleep \/ Fetch \/ Woken \/ Send \/ SendRejected
         \/ SendFails \/ TakeAck \/ TakeError \/ WindowCovered
         \/ Receiver \/ ServerReceive \/ Break \/ UNCHANGED vars
  PROVE  UNCHANGED Log!logVars
<1>. USE DEF prodVars, sendVars, chanVars, netVars, srvVars, bufVars
<1>1. UNCHANGED <<base, events, durable, dropped>>
  BY DEF EnqueueWake, DialOk, DialFails, Sleep, Fetch, Woken, Send, SendRejected, SendFails,
         TakeAck, TakeError, ReturnError, WindowCovered, Receiver, RecvAck, RecvError,
         ServerReceive, Break, StreamEnds, vars
<1>. QED BY <1>1 DEF Log!logVars, NextSeq, Retained

\* For every number of producers, every capacity, window and channel size and
\* any failures, what the buffer, the sender, the receiver and the server do is
\* what AtLeastOnceLog promises: in order, at least once, and only the oldest
\* events ever given up.
THEOREM Implements == Spec => ImplementsLog
<1>1. Init => Log!Init
  BY DEF Init, BufInit, Log!Init, NextSeq, Retained, Range
<1>2. DInv /\ Assigned /\ DInv' /\ [Next]_vars => [Log!Next]_(Log!logVars)
  <2>. SUFFICES ASSUME DInv, Assigned, DInv', [Next]_vars
                PROVE  Log!Next \/ UNCHANGED Log!logVars
    OBVIOUS
  <2>1. ASSUME NEW p \in Producers, EnqueueAdd(p) PROVE Log!Next
    BY <2>1, EnqueueAccepts DEF Log!Next
  <2>2. CASE ServerPersist \/ ServerPersistStale
    BY <2>2, ServerPersists, StalePersists DEF Log!Next
  <2>3. CASE Trim
    BY <2>3, TrimReleases DEF Log!Next
  <2>. QED BY <2>1, <2>2, <2>3, OthersStutter DEF Next, Sender, Server
<1>. QED BY <1>1, <1>2, Invariance, OnlyAccepted, PTL DEF Spec, ImplementsLog, Log!Spec
=============================================================================
