------------------------- MODULE ClientSpansProofs -------------------------
(***************************************************************************)
(* The layers around user code and the calls it makes, for any number of   *)
(* goroutines, any depth of layers and any number of spans and retries:    *)
(* the registry names the open spans, a panic is never masked, request     *)
(* spans ship, a shipped span is final unless gin code left it in          *)
(* c.Request, and the spans of a call tell its result and join a trace     *)
(* that their goroutine has at hand.                                       *)
(*                                                                         *)
(* The invariant says of each goroutine what its own stack and the         *)
(* contexts it was handed promise.  What makes it inductive is that the    *)
(* goroutines' stacks share no span, and that a step of one writes only    *)
(* spans of its own stack or ended ones left behind in gin, of which the   *)
(* others' promises say only that they are ended.                          *)
(***************************************************************************)
EXTENDS ClientSpans, SequenceFacts

-----------------------------------------------------------------------------
(* The invariant.                                                          *)

\* The types, the registry's entries as plain numbers.
Typed ==
  /\ enabled \in BOOLEAN
  /\ frames \in [Goroutines -> Seq(Frames)]
  /\ mode \in [Goroutines -> {"idle", "run", "return", "error", "panic", "recorded"}]
  /\ response \in [Goroutines -> {0, 200, 500}]
  /\ ambient \in [Goroutines -> Seq(Nat)]
  /\ request \in [Goroutines -> Nat]
  /\ spans \in Seq(Spans)
  /\ panicked \subseteq DOMAIN spans /\ torn \subseteq DOMAIN spans

\* The spans of a stack of frames.
SpansIn(stack) == {stack[i].span : i \in DOMAIN stack} \ {0}

\* Inner frames have later spans.
Rising(stack) ==
  \A i, j \in DOMAIN stack : i < j /\ stack[j].span # 0 => stack[i].span < stack[j].span

\* The registry of a goroutine: the spans of its stack, in order.
Increasing(q) == \A i, j \in DOMAIN q : i < j => q[i] < q[j]

\* The ended spans that gin code may still reach.
LeftBehind == {id \in DOMAIN spans : spans[id].layer = "gin" /\ spans[id].ended}

\* No engine is among the outermost i layers.
Plain(stack, i) == \A j \in DOMAIN stack : j <= i => stack[j].layer # "engine"

\* c is none, or the span of one of the outermost i layers;
Among(stack, i, c) == c = 0 \/ \E j \in DOMAIN stack : j <= i /\ stack[j].span = c

\* and the innermost of them.
Latest(stack, i, c) == Among(stack, i, c) /\ \A j \in DOMAIN stack : j <= i => stack[j].span <= c

\* A context carries a span of the layers around it or one left behind, and
\* outside an engine the innermost; a gin layer is in an engine.
CarriedAt(stack, left, i) ==
  /\ Among(stack, i, stack[i].context) \/ stack[i].context \in left
  /\ stack[i].layer = "gin" => ~Plain(stack, i)
  /\ Plain(stack, i) => Latest(stack, i, stack[i].context)

\* c.Request carries none, one left behind, or the span of a gin layer or of a
\* layer around the engine.
Requested(stack, left, r) ==
  /\ Plain(stack, Len(stack)) => r = 0
  /\ \/ r = 0 \/ r \in left
     \/ \E i \in DOMAIN stack :
          /\ stack[i].span = r
          /\ stack[i].layer = "gin" \/ \E j \in DOMAIN stack : j > i /\ stack[j].layer = "engine"

Handed(g) ==
  /\ \A i \in DOMAIN frames[g] : CarriedAt(frames[g], LeftBehind, i)
  /\ Requested(frames[g], LeftBehind, request[g])

\* A frame's span is open and of the frame's layer; a middleware has one only
\* if the SDK is enabled; an error of the epilogue is not in it yet; and once a
\* panic hit it without leaving it, the panic or an earlier error is in it.
Open(frame) ==
  frame.span # 0 =>
    /\ frame.span \in DOMAIN spans
    /\ frame.layer \in {"http", "gin", "trace"} /\ spans[frame.span].layer = frame.layer
    /\ frame.layer # "trace" => enabled
    /\ ~spans[frame.span].ended /\ spans[frame.span].error # "http"
    /\ frame.span \in panicked => spans[frame.span].error \in {"app", "panic"}

\* What runs is possible in the innermost frame.
Possible(g) ==
  /\ mode[g] \in {"return", "error", "recorded"} => frames[g] # <<>>
  /\ mode[g] = "recorded" =>
       Top(g).layer = "gin" /\ Top(g).span # 0 /\ spans[Top(g).span].status # 0

Stack(g) ==
  /\ Rising(frames[g])
  /\ \A i \in DOMAIN frames[g] : Open(frames[g][i])
  /\ Range(ambient[g]) = SpansOf(g)
  /\ Increasing(ambient[g])
  /\ Possible(g)
  /\ Handed(g)

\* The goroutines share no open span.
Private == \A g, h \in Goroutines : g # h => SpansOf(g) \cap SpansOf(h) = {}

\* A span outside all stacks is as it should be shipped, or was lost for the
\* one reason there is.
Fine(id) ==
  /\ spans[id].ended => spans[id].layer = "trace" \/ spans[id].status # 0
  /\ spans[id].ended /\ id \in panicked => spans[id].error \in {"app", "panic"}
  /\ spans[id].layer \in {"http", "gin"} =>
       spans[id].ended \/ (spans[id].layer = "http" /\ id \in torn)

RInv ==
  /\ Typed
  /\ \A g \in Goroutines : Stack(g)
  /\ Private
  /\ \A id \in DOMAIN spans \ OpenSpans : Fine(id)

-----------------------------------------------------------------------------
\* The spans of a call.
Clients == [parent : Nat, error : BOOLEAN, status : {0, 200, 500}, ended : BOOLEAN]

Calls == [api : APIs \cup {"none"}, caps : SUBSET {"conn", "stmt"},
          via : {"none", "hook", "conn", "stmt"}, tries : Nat, on : BOOLEAN,
          result : {"none", "ok", "error", "failed", "notfound"}, opened : Seq(Clients)]

\* The attempts that are over failed, and are finished; if the SDK was enabled
\* throughout, the span of the attempt that is in the base is open.
Attempting(c) ==
  /\ \A i \in DOMAIN c.opened : c.opened[i].ended => c.opened[i].status # 200
  /\ \A i \in DOMAIN c.opened : ~c.opened[i].ended => i = Len(c.opened)
  /\ c.on => c.opened # <<>> /\ ~c.opened[Len(c.opened)].ended

\* What ResultTold says of a call that has returned.
Returned(c) ==
  /\ \A i \in DOMAIN c.opened : c.opened[i].ended /\ (c.opened[i].error => c.opened[i].status # 200)
  /\ c.result \in {"ok", "notfound"} /\ c.on =>
       {i \in DOMAIN c.opened : c.opened[i].status = 200} = {Len(c.opened)}
  /\ c.result \in {"error", "failed"} => \A i \in DOMAIN c.opened : c.opened[i].status # 200

\* The spans of a call join the trace of the context, or start one of their own.
Joins(c, context) ==
  \A i \in DOMAIN c.opened :
    c.opened[i].parent = context \/ (c.opened[i].parent = 0 /\ c.api \in {"sql", "stmt"})

\* database/sql enters connections and statements only for its own interfaces.
ViaOK(c) == (c.via = "conn" => c.api = "sql") /\ (c.via = "stmt" => c.api \in {"sql", "stmt"})

CallOK(c, context) ==
  /\ c \in Calls /\ ViaOK(c) /\ Joins(c, context)
  /\ c.api # "none" /\ c.result = "none" => Attempting(c)
  /\ c.result # "none" => Returned(c)

\* Between two attempts: what was tried is over and failed.
Between(c, context) ==
  /\ c \in Calls /\ ViaOK(c) /\ Joins(c, context)
  /\ c.api \in APIs /\ c.result = "none"
  /\ \A i \in DOMAIN c.opened : c.opened[i].ended /\ c.opened[i].status # 200

CInv ==
  /\ RInv
  /\ call \in [Goroutines -> Calls]
  /\ \A g \in Goroutines : CallOK(call[g], ContextSpan(g))

-----------------------------------------------------------------------------
(* The registry's stack: pushes and pops of a rising sequence.             *)

\* The last entry is the greatest.
LEMMA IncreasingLast ==
  ASSUME NEW q \in Seq(Nat), q # <<>>, Increasing(q)
  PROVE  /\ q[Len(q)] \in Range(q) /\ q[Len(q)] \in Nat
         /\ \A x \in Range(q) : x \in Nat /\ x <= q[Len(q)]
<1>1. Len(q) \in Nat /\ Len(q) >= 1 /\ DOMAIN q = 1..Len(q) /\ \A i \in 1..Len(q) : q[i] \in Nat
  BY QueueDomain, EmptySeq
<1>2. ASSUME NEW i \in DOMAIN q PROVE q[i] \in Nat /\ q[i] <= q[Len(q)]
  <2>1. CASE i = Len(q)
    BY <1>1, <2>1
  <2>2. CASE i # Len(q)
    <3>1. i < Len(q) /\ Len(q) \in DOMAIN q
      BY <1>1, <2>2
    <3>2. q[i] < q[Len(q)] /\ q[i] \in Nat /\ q[Len(q)] \in Nat
      BY <1>1, <3>1 DEF Increasing
    <3>. QED BY <3>2
  <2>. QED BY <2>1, <2>2
<1>. QED BY <1>1, <1>2 DEF Range

\* A pop takes exactly that one away.
LEMMA IncreasingFront ==
  ASSUME NEW q \in Seq(Nat), q # <<>>, Increasing(q), NEW t, t = SubSeq(q, 1, Len(q) - 1)
  PROVE  t \in Seq(Nat) /\ Increasing(t) /\ Range(t) = Range(q) \ {q[Len(q)]}
<1>1. /\ t \in Seq(Nat) /\ Len(q) \in Nat /\ Len(q) >= 1
      /\ DOMAIN q = 1..Len(q) /\ DOMAIN t = 1..(Len(q) - 1)
      /\ \A i \in 1..(Len(q) - 1) : t[i] = q[i]
  BY FrontElements
<1>2. \A i \in 1..Len(q) : q[i] \in Nat
  BY QueueDomain
<1>3. \A i \in 1..(Len(q) - 1) : i \in 1..Len(q) /\ i < Len(q)
  BY <1>1
<1>4. Increasing(t)
  BY <1>1, <1>3 DEF Increasing
<1>5. ASSUME NEW x \in Range(t) PROVE x \in Range(q) /\ x # q[Len(q)]
  <2>1. PICK i \in 1..(Len(q) - 1) : x = q[i]
    BY <1>1 DEF Range
  <2>2. i \in DOMAIN q /\ Len(q) \in DOMAIN q /\ i < Len(q)
    BY <1>1, <1>3
  <2>3. q[i] < q[Len(q)] /\ q[i] \in Nat /\ q[Len(q)] \in Nat
    BY <1>1, <1>2, <2>2 DEF Increasing
  <2>. QED BY <2>1, <2>2, <2>3 DEF Range
<1>6. ASSUME NEW x \in Range(q), x # q[Len(q)] PROVE x \in Range(t)
  <2>1. PICK i \in 1..Len(q) : x = q[i]
    BY <1>1 DEF Range
  <2>2. i \in 1..(Len(q) - 1)
    BY <1>1, <1>6, <2>1
  <2>. QED BY <1>1, <2>1, <2>2 DEF Range
<1>. QED BY <1>1, <1>4, <1>5, <1>6

\* A push of a greater one.
LEMMA IncreasingAppend ==
  ASSUME NEW q \in Seq(Nat), Increasing(q), NEW e \in Nat, \A x \in Range(q) : x < e,
         NEW t, t = Append(q, e)
  PROVE  t \in Seq(Nat) /\ Increasing(t) /\ Range(t) = Range(q) \cup {e}
<1>1. /\ t \in Seq(Nat) /\ Len(q) \in Nat /\ DOMAIN q = 1..Len(q) /\ DOMAIN t = 1..(Len(q) + 1)
      /\ t[Len(q) + 1] = e /\ \A i \in 1..Len(q) : t[i] = q[i]
  BY AppendElements
<1>2. \A i \in DOMAIN q : q[i] < e
  BY DEF Range
<1>3. Increasing(t)
  <2>. SUFFICES ASSUME NEW i \in DOMAIN t, NEW j \in DOMAIN t, i < j
       PROVE  t[i] < t[j]
    BY DEF Increasing
  <2>1. i \in 1..Len(q) /\ (j \in 1..Len(q) \/ j = Len(q) + 1)
    BY <1>1
  <2>. QED BY <1>1, <1>2, <2>1 DEF Increasing
<1>4. Range(t) = Range(q) \cup {e}
  BY RangeAppend
<1>. QED BY <1>1, <1>3, <1>4

-----------------------------------------------------------------------------
(* The stack of frames: what entering and leaving a layer do to its spans. *)

\* A span of the innermost frame is the latest of the stack.
LEMMA StackTop ==
  ASSUME NEW s \in Seq(Frames), s # <<>>, Rising(s), s[Len(s)].span # 0
  PROVE  /\ s[Len(s)].span \in SpansIn(s)
         /\ \A x \in SpansIn(s) : x \in Nat /\ x <= s[Len(s)].span
<1>1. Len(s) \in Nat /\ Len(s) >= 1 /\ DOMAIN s = 1..Len(s) /\ Len(s) \in DOMAIN s
  BY EmptySeq
<1>2. \A i \in DOMAIN s : s[i].span \in Nat
  <2>1. \A i \in DOMAIN s : s[i] \in Frames
    OBVIOUS
  <2>. QED BY <2>1 DEF Frames
<1>3. \A i \in DOMAIN s : i # Len(s) => i < Len(s)
  BY <1>1
<1>4. \A i \in DOMAIN s : s[i].span <= s[Len(s)].span
  BY <1>1, <1>2, <1>3 DEF Rising
<1>. QED BY <1>1, <1>2, <1>4 DEF SpansIn

\* Leaving the innermost frame takes its span away and no other.
LEMMA StackFront ==
  ASSUME NEW s \in Seq(Frames), s # <<>>, Rising(s), NEW t, t = SubSeq(s, 1, Len(s) - 1)
  PROVE  /\ t \in Seq(Frames) /\ Rising(t)
         /\ s[Len(s)] \in Frames /\ Len(s) \in DOMAIN s
         /\ \A i \in DOMAIN t : i \in DOMAIN s /\ t[i] = s[i] /\ t[i] \in Frames
         /\ SpansIn(t) = SpansIn(s) \ {s[Len(s)].span}
<1>1. /\ t \in Seq(Frames) /\ Len(s) \in Nat /\ Len(s) >= 1
      /\ DOMAIN s = 1..Len(s) /\ DOMAIN t = 1..(Len(s) - 1)
      /\ s[Len(s)] \in Frames /\ \A i \in 1..(Len(s) - 1) : t[i] = s[i]
  BY FrontElements
<1>2. \A i \in 1..Len(s) : s[i] \in Frames /\ s[i].span \in Nat
  BY <1>1 DEF Frames
<1>3. Len(s) \in DOMAIN s /\ \A i \in DOMAIN t : i \in DOMAIN s /\ i < Len(s) /\ t[i] = s[i]
  BY <1>1
<1>4. Rising(t)
  BY <1>3 DEF Rising
<1>5. \A i \in DOMAIN t : t[i] \in Frames
  BY <1>1, <1>2, <1>3
<1>6. ASSUME NEW x \in SpansIn(t) PROVE x \in SpansIn(s) /\ x # s[Len(s)].span
  <2>1. PICK i \in DOMAIN t : x = s[i].span /\ x # 0
    BY <1>3 DEF SpansIn
  <2>2. s[Len(s)].span # 0 => s[i].span < s[Len(s)].span
    BY <1>3 DEF Rising
  <2>. QED BY <1>1, <1>2, <1>3, <2>1, <2>2 DEF SpansIn
<1>7. ASSUME NEW x \in SpansIn(s), x # s[Len(s)].span PROVE x \in SpansIn(t)
  <2>1. PICK i \in DOMAIN s : x = s[i].span /\ x # 0
    BY DEF SpansIn
  <2>2. i \in DOMAIN t
    BY <1>1, <1>7, <2>1
  <2>. QED BY <1>3, <2>1, <2>2 DEF SpansIn
<1>. QED BY <1>1, <1>3, <1>4, <1>5, <1>6, <1>7

\* Entering one adds its span, which must be later than those of the stack.
LEMMA StackAppend ==
  ASSUME NEW s \in Seq(Frames), Rising(s), NEW f \in Frames,
         f.span # 0 => \A x \in SpansIn(s) : x < f.span,
         NEW t, t = Append(s, f)
  PROVE  /\ t \in Seq(Frames) /\ Rising(t) /\ t # <<>>
         /\ \A i \in DOMAIN t : (i \in DOMAIN s /\ t[i] = s[i]) \/ t[i] = f
         /\ SpansIn(t) = SpansIn(s) \cup ({f.span} \ {0})
<1>1. /\ t \in Seq(Frames) /\ Len(t) = Len(s) + 1 /\ Len(s) \in Nat
      /\ DOMAIN s = 1..Len(s) /\ DOMAIN t = 1..(Len(s) + 1)
      /\ t[Len(s) + 1] = f /\ \A i \in 1..Len(s) : t[i] = s[i]
  BY AppendElements
<1>2. \A i \in DOMAIN s : s[i].span \in Nat /\ i \in DOMAIN t /\ i < Len(s) + 1
  <2>1. \A i \in DOMAIN s : s[i] \in Frames
    OBVIOUS
  <2>. QED BY <1>1, <2>1 DEF Frames
<1>3. f.span \in Nat /\ Len(s) + 1 \in DOMAIN t
  BY <1>1 DEF Frames
<1>4. \A i \in DOMAIN t : (i \in DOMAIN s /\ t[i] = s[i]) \/ (i = Len(s) + 1 /\ t[i] = f)
  BY <1>1
<1>5. ASSUME f.span # 0, NEW i \in DOMAIN s PROVE s[i].span < f.span
  <2>1. CASE s[i].span = 0
    BY <1>3, <1>5, <2>1
  <2>2. CASE s[i].span # 0
    BY <1>5, <2>2 DEF SpansIn
  <2>. QED BY <2>1, <2>2
<1>6. Rising(t)
  <2>. SUFFICES ASSUME NEW i \in DOMAIN t, NEW j \in DOMAIN t, i < j, t[j].span # 0
       PROVE  t[i].span < t[j].span
    BY DEF Rising
  <2>1. i \in DOMAIN s
    BY <1>1
  <2>2. CASE j \in DOMAIN s
    BY <1>1, <2>1, <2>2 DEF Rising
  <2>3. CASE j = Len(s) + 1
    BY <1>1, <1>5, <2>1, <2>3
  <2>. QED BY <1>4, <2>2, <2>3
<1>7. SpansIn(t) \subseteq SpansIn(s) \cup ({f.span} \ {0})
  BY <1>4 DEF SpansIn
<1>8. SpansIn(s) \subseteq SpansIn(t)
  BY <1>2, <1>1 DEF SpansIn
<1>9. {f.span} \ {0} \subseteq SpansIn(t)
  BY <1>1, <1>3 DEF SpansIn
<1>10. t # <<>>
  BY <1>1, EmptySeq
<1>. QED BY <1>1, <1>4, <1>6, <1>7, <1>8, <1>9, <1>10
-----------------------------------------------------------------------------
(* The contexts: what entering and leaving a layer do to them.             *)

\* What a context may carry is decided by the layers around it.
LEMMA CarriedPrefix ==
  ASSUME NEW s \in Seq(Frames), NEW t \in Seq(Frames), NEW left, NEW left2, left \subseteq left2,
         NEW i \in DOMAIN s, i \in DOMAIN t,
         \A j \in DOMAIN s : j <= i => t[j] = s[j],
         CarriedAt(s, left, i)
  PROVE  CarriedAt(t, left2, i)
<1>1. DOMAIN s = 1..Len(s) /\ DOMAIN t = 1..Len(t) /\ Len(s) \in Nat /\ Len(t) \in Nat
  OBVIOUS
<1>2. i \in Nat /\ i <= i /\ t[i] = s[i]
  BY <1>1
<1>3. \A j : (j \in DOMAIN s /\ j <= i) <=> (j \in DOMAIN t /\ j <= i)
  BY <1>1
<1>4. \A j \in DOMAIN t : j <= i => j \in DOMAIN s /\ t[j] = s[j]
  BY <1>3
<1>5. Plain(t, i) <=> Plain(s, i)
  BY <1>3, <1>4 DEF Plain
<1>6. \A c : Among(s, i, c) => Among(t, i, c)
  BY <1>3 DEF Among
<1>7. \A c : Latest(s, i, c) => Latest(t, i, c)
  BY <1>4, <1>6 DEF Latest
<1>. QED BY <1>2, <1>5, <1>6, <1>7 DEF CarriedAt

\* More spans may be left behind.
LEMMA HandedKept ==
  ASSUME NEW s \in Seq(Frames), NEW left, NEW left2, left \subseteq left2, NEW r,
         \A i \in DOMAIN s : CarriedAt(s, left, i), Requested(s, left, r)
  PROVE  (\A i \in DOMAIN s : CarriedAt(s, left2, i)) /\ Requested(s, left2, r)
<1>1. \A i \in DOMAIN s : CarriedAt(s, left2, i)
  BY CarriedPrefix
<1>2. Requested(s, left2, r)
  BY DEF Requested
<1>. QED BY <1>1, <1>2

\* Leaving the innermost layer: a gin layer leaves its span behind in
\* c.Request, and the engine takes c.Request with it.
LEMMA HandedFront ==
  ASSUME NEW s \in Seq(Frames), s # <<>>, NEW left, NEW left2, left \subseteq left2, NEW r, NEW r2,
         \A i \in DOMAIN s : CarriedAt(s, left, i), Requested(s, left, r),
         NEW t, t = SubSeq(s, 1, Len(s) - 1),
         s[Len(s)].layer = "gin" => s[Len(s)].span \in left2 \cup {0},
         r2 = IF s[Len(s)].layer = "engine" THEN 0 ELSE r
  PROVE  (\A i \in DOMAIN t : CarriedAt(t, left2, i)) /\ Requested(t, left2, r2)
<1>0. /\ t \in Seq(Frames) /\ Len(s) \in Nat /\ Len(s) >= 1
      /\ DOMAIN s = 1..Len(s) /\ DOMAIN t = 1..(Len(s) - 1)
      /\ \A i \in 1..(Len(s) - 1) : t[i] = s[i]
  BY FrontElements
<1>1. /\ t \in Seq(Frames) /\ Len(s) \in Nat /\ Len(s) >= 1 /\ Len(t) = Len(s) - 1
      /\ DOMAIN s = 1..Len(s) /\ DOMAIN t = 1..(Len(s) - 1)
      /\ \A i \in 1..(Len(s) - 1) : t[i] = s[i]
  <2>. DEFINE n == Len(s) - 1
              m == Len(t)
  <2>1. n \in Nat /\ m \in Nat /\ 1..m = 1..n
    BY <1>0
  <2>. HIDE DEF n, m
  <2>2. m = n
    <3>1. n < m => m \in 1..m /\ m \notin 1..n
      BY ONLY <2>1
    <3>2. m < n => n \in 1..n /\ n \notin 1..m
      BY ONLY <2>1
    <3>. QED BY ONLY <2>1, <3>1, <3>2
  <2>. QED BY <1>0, <2>2 DEF n, m
<1>2. \A i \in DOMAIN t : i \in DOMAIN s /\ i <= Len(t) /\ t[i] = s[i]
  BY <1>1
<1>3. ASSUME NEW i \in DOMAIN t PROVE CarriedAt(t, left2, i)
  <2>1. i \in DOMAIN s /\ \A j \in DOMAIN s : j <= i => t[j] = s[j]
    BY <1>1
  <2>. QED BY <1>1, <2>1, CarriedPrefix
<1>4. CASE s[Len(s)].layer = "engine"
  BY <1>3, <1>4 DEF Requested
<1>5. CASE s[Len(s)].layer # "engine"
  <2>1. r2 = r
    BY <1>5
  <2>2. Plain(t, Len(t)) => Plain(s, Len(s))
    <3>. SUFFICES ASSUME Plain(t, Len(t)), NEW j \in DOMAIN s PROVE s[j].layer # "engine"
      BY DEF Plain
    <3>1. j = Len(s) \/ j \in DOMAIN t
      BY <1>1
    <3>. QED BY <1>2, <1>5, <3>1 DEF Plain
  <2>3. Plain(t, Len(t)) => r2 = 0
    BY <2>1, <2>2 DEF Requested
  <2>4. \/ r = 0 \/ r \in left
        \/ \E i \in DOMAIN s :
             /\ s[i].span = r
             /\ s[i].layer = "gin" \/ \E j \in DOMAIN s : j > i /\ s[j].layer = "engine"
    BY DEF Requested
  <2>5. ASSUME NEW i \in DOMAIN s, s[i].span = r,
               s[i].layer = "gin" \/ \E j \in DOMAIN s : j > i /\ s[j].layer = "engine"
        PROVE  \/ r = 0 \/ r \in left2
               \/ \E k \in DOMAIN t :
                    /\ t[k].span = r
                    /\ t[k].layer = "gin" \/ \E j \in DOMAIN t : j > k /\ t[j].layer = "engine"
    <3>1. CASE i = Len(s)
      <4>1. ~ \E j \in DOMAIN s : j > i
        BY <1>1, <3>1
      <4>. QED BY <2>5, <3>1, <4>1
    <3>2. CASE i # Len(s)
      <4>1. i \in DOMAIN t /\ t[i] = s[i]
        BY <1>1, <3>2
      <4>2. ASSUME NEW j \in DOMAIN s, j > i, s[j].layer = "engine"
            PROVE  j \in DOMAIN t /\ t[j] = s[j]
        BY <1>1, <1>5, <4>2
      <4>. QED BY <2>5, <4>1, <4>2
    <3>. QED BY <3>1, <3>2
  <2>. QED BY <1>3, <2>1, <2>3, <2>4, <2>5 DEF Requested
<1>. QED BY <1>4, <1>5

\* Entering a layer: its context is as it should be, and c.Request is a new
\* engine's, or a gin layer's, or what it was.
LEMMA HandedAppend ==
  ASSUME NEW s \in Seq(Frames), NEW f \in Frames, NEW left, NEW left2, left \subseteq left2, NEW r, NEW r2,
         \A i \in DOMAIN s : CarriedAt(s, left, i), Requested(s, left, r),
         NEW t, t = Append(s, f),
         f.layer = "gin" => ~Plain(s, Len(s)),
         f.context = f.span \/ f.context \in left2 \/ Among(s, Len(s), f.context),
         f.layer # "engine" /\ Plain(s, Len(s)) =>
           /\ f.context = f.span \/ (f.span = 0 /\ Among(s, Len(s), f.context))
           /\ \A j \in DOMAIN s : s[j].span <= f.context,
         \/ r2 = r
         \/ f.layer = "gin" /\ r2 = f.span
         \/ f.layer = "engine" /\ (r2 \in left2 \/ Among(s, Len(s), r2))
  PROVE  (\A i \in DOMAIN t : CarriedAt(t, left2, i)) /\ Requested(t, left2, r2)
<1>. DEFINE n == Len(s) + 1
<1>1. /\ t \in Seq(Frames) /\ Len(t) = n /\ Len(s) \in Nat
      /\ DOMAIN s = 1..Len(s) /\ DOMAIN t = 1..n
      /\ t[n] = f /\ \A i \in 1..Len(s) : t[i] = s[i]
  BY AppendElements
<1>2. /\ \A i \in DOMAIN s : i \in DOMAIN t /\ i <= Len(s) /\ i <= n /\ n > i /\ i # n /\ t[i] = s[i]
      /\ n \in DOMAIN t /\ n <= n
      /\ \A i \in DOMAIN t : i \in DOMAIN s \/ i = n
  BY <1>1
<1>. HIDE DEF n
<1>3. ASSUME NEW i \in DOMAIN s PROVE CarriedAt(t, left2, i)
  <2>1. i \in DOMAIN t /\ \A j \in DOMAIN s : j <= i => t[j] = s[j]
    BY <1>2
  <2>. QED BY <1>1, <2>1, CarriedPrefix
<1>4. \A c : Among(s, Len(s), c) => Among(t, n, c)
  BY <1>2 DEF Among
<1>5. Plain(t, n) <=> Plain(s, Len(s)) /\ f.layer # "engine"
  <2>1. Plain(t, n) => Plain(s, Len(s)) /\ f.layer # "engine"
    BY <1>1, <1>2 DEF Plain
  <2>2. Plain(s, Len(s)) /\ f.layer # "engine" => Plain(t, n)
    <3>. SUFFICES ASSUME Plain(s, Len(s)), f.layer # "engine", NEW j \in DOMAIN t
         PROVE  t[j].layer # "engine"
      BY DEF Plain
    <3>. QED BY <1>1, <1>2 DEF Plain
  <2>. QED BY <2>1, <2>2
<1>6. Among(t, n, f.span)
  BY <1>1, <1>2 DEF Among
<1>7. CarriedAt(t, left2, n)
  <2>1. Among(t, n, f.context) \/ f.context \in left2
    BY <1>4, <1>6
  <2>2. ASSUME Plain(t, n) PROVE Latest(t, n, f.context)
    <3>1. Plain(s, Len(s)) /\ f.layer # "engine"
      BY <1>5, <2>2
    <3>2. Among(t, n, f.context)
      BY <1>4, <1>6, <3>1
    <3>3. f.span <= f.context
      <4>1. f.span \in Nat /\ f.context \in Nat
        BY DEF Frames
      <4>. QED BY <3>1, <4>1
    <3>4. \A j \in DOMAIN t : t[j].span <= f.context
      BY <1>1, <1>2, <3>1, <3>3
    <3>. QED BY <3>2, <3>4 DEF Latest
  <2>3. f.layer = "gin" => ~Plain(t, n)
    BY <1>5
  <2>. QED BY <1>1, <2>1, <2>2, <2>3 DEF CarriedAt
<1>8. \A i \in DOMAIN t : CarriedAt(t, left2, i)
  BY <1>2, <1>3, <1>7
<1>9. Requested(t, left2, r2)
  <2>1. CASE r2 = r
    <3>1. Plain(t, n) => r2 = 0
      BY <1>5, <2>1 DEF Requested
    <3>2. \/ r = 0 \/ r \in left2
          \/ \E i \in DOMAIN t :
               /\ t[i].span = r
               /\ t[i].layer = "gin" \/ \E j \in DOMAIN t : j > i /\ t[j].layer = "engine"
      BY <1>2 DEF Requested
    <3>. QED BY <1>1, <2>1, <3>1, <3>2 DEF Requested
  <2>2. CASE f.layer = "gin" /\ r2 = f.span
    BY <1>1, <1>2, <1>5, <2>2 DEF Requested
  <2>3. CASE f.layer = "engine" /\ (r2 \in left2 \/ Among(s, Len(s), r2))
    <3>1. ~Plain(t, n)
      BY <1>5, <2>3
    <3>2. \/ r2 = 0 \/ r2 \in left2
          \/ \E i \in DOMAIN s : s[i].span = r2
      BY <2>3 DEF Among
    <3>3. ASSUME NEW i \in DOMAIN s, s[i].span = r2
          PROVE  \E k \in DOMAIN t : t[k].span = r2 /\ \E j \in DOMAIN t : j > k /\ t[j].layer = "engine"
      BY <1>1, <1>2, <2>3, <3>3
    <3>. QED BY <1>1, <3>1, <3>2, <3>3 DEF Requested
  <2>. QED BY <2>1, <2>2, <2>3
<1>. QED BY <1>8, <1>9

-----------------------------------------------------------------------------
(* What is written into a span.                                            *)

\* RecordError keeps the first error and changes nothing else.
LEMMA WithErrorFacts ==
  ASSUME NEW s \in Spans, NEW e \in {"app", "http", "panic"}, NEW r, r = WithError(s, e)
  PROVE  /\ r \in Spans /\ r.layer = s.layer /\ r.ended = s.ended /\ r.status = s.status
         /\ s.error # "none" => r.error = s.error
         /\ s.error = "none" => r.error = e
BY DEF WithError, Spans

\* A panic is a 500 as well.
LEMMA WithPanicFacts ==
  ASSUME NEW s \in Spans, NEW r, r = WithPanic(s)
  PROVE  /\ r \in Spans /\ r.layer = s.layer /\ r.ended = s.ended /\ r.status = 500
         /\ s.error # "none" => r.error = s.error
         /\ s.error = "none" => r.error = "panic"
<1>. DEFINE w == WithError(s, "panic")
<1>1. /\ w \in Spans /\ w.layer = s.layer /\ w.ended = s.ended
      /\ s.error # "none" => w.error = s.error
      /\ s.error = "none" => w.error = "panic"
  BY WithErrorFacts
<1>. HIDE DEF w
<1>2. r = [w EXCEPT !.status = 500]
  BY DEF WithPanic, w
<1>. QED BY <1>1, <1>2 DEF Spans

\* End, and the status before it.
Ended(f) == [f EXCEPT !.ended = TRUE]
EndedWith(f, c) == [f EXCEPT !.status = c, !.ended = TRUE]

\* Ending a span changes nothing else of it.
LEMMA EndFacts ==
  ASSUME NEW f \in Spans
  PROVE  /\ Ended(f) \in Spans /\ Ended(f).layer = f.layer /\ Ended(f).ended
         /\ Ended(f).error = f.error /\ Ended(f).status = f.status
<1>1. Ended(f) \in Spans
  BY DEF Ended, Spans
<1>2. Ended(f).layer = f.layer
  BY DEF Ended, Spans
<1>3. Ended(f).ended = TRUE
  BY DEF Ended, Spans
<1>4. Ended(f).error = f.error
  BY DEF Ended, Spans
<1>5. Ended(f).status = f.status
  BY DEF Ended, Spans
<1>. QED BY <1>1, <1>2, <1>3, <1>4, <1>5

\* Ending it with a status.
LEMMA EndWithFacts ==
  ASSUME NEW f \in Spans, NEW c \in {0, 200, 500}
  PROVE  /\ EndedWith(f, c) \in Spans /\ EndedWith(f, c).layer = f.layer /\ EndedWith(f, c).ended
         /\ EndedWith(f, c).error = f.error /\ EndedWith(f, c).status = c
<1>1. EndedWith(f, c) \in Spans
  <2>. DEFINE e == [f EXCEPT !.status = c]
  <2>1. e \in Spans
    BY DEF Spans
  <2>2. EndedWith(f, c) = [e EXCEPT !.ended = TRUE]
    BY Zenon DEF EndedWith
  <2>3. [e EXCEPT !.ended = TRUE] \in Spans
    BY <2>1 DEF Spans
  <2>. QED BY <2>2, <2>3
<1>2. EndedWith(f, c).layer = f.layer
  BY DEF EndedWith, Spans
<1>3. EndedWith(f, c).ended = TRUE
  BY DEF EndedWith, Spans
<1>4. EndedWith(f, c).error = f.error
  BY DEF EndedWith, Spans
<1>5. EndedWith(f, c).status = c
  BY DEF EndedWith, Spans
<1>. QED BY <1>1, <1>2, <1>3, <1>4, <1>5

\* The epilogues end the span and keep an error that is there.
LEMMA CloseFacts ==
  ASSUME NEW g \in Goroutines, response \in [Goroutines -> {0, 200, 500}], NEW s \in Spans,
         NEW r, r = IF s.layer = "trace" THEN CloseTrace(g, s) ELSE CloseRequest(g, s)
  PROVE  /\ r \in Spans /\ r.layer = s.layer /\ r.ended
         /\ s.layer = "trace" \/ r.status # 0
         /\ s.error # "none" => r.error = s.error
<1>1. \A e \in {"app", "http", "panic"} :
        /\ WithError(s, e) \in Spans /\ WithError(s, e).layer = s.layer
        /\ s.error # "none" => WithError(s, e).error = s.error
  BY WithErrorFacts
<1>2. Status(g) \in {200, 500}
  BY DEF Status
<1>3. \A e \in {"app", "http", "panic"} : \A f \in {WithError(s, e), s} :
        f \in Spans /\ f.layer = s.layer /\ (s.error # "none" => f.error = s.error)
  BY <1>1
<1>4. CASE s.layer = "trace"
  <2>1. r = [(IF mode[g] = "error" THEN WithError(s, "app") ELSE s) EXCEPT !.ended = TRUE]
    BY <1>4 DEF CloseTrace
  <2>2. PICK f : f \in {WithError(s, "app"), s} /\ r = Ended(f)
    BY <2>1 DEF Ended
  <2>3. f \in Spans /\ f.layer = s.layer /\ (s.error # "none" => f.error = s.error)
    BY <1>3, <2>2
  <2>4. r \in Spans /\ r.layer = f.layer /\ r.ended /\ r.error = f.error
    BY <2>2, <2>3, EndFacts
  <2>. QED BY <1>4, <2>3, <2>4
<1>5. CASE s.layer # "trace"
  <2>1. PICK f : /\ f \in {WithError(s, "app"), WithError(s, "http"), s}
                 /\ r = EndedWith(f, Status(g))
    BY <1>5 DEF CloseRequest, EndedWith
  <2>2. f \in Spans /\ f.layer = s.layer /\ (s.error # "none" => f.error = s.error)
    BY <1>3, <2>1
  <2>3. r \in Spans /\ r.layer = f.layer /\ r.ended /\ r.error = f.error /\ r.status = Status(g)
    BY <1>2, <2>1, <2>2, EndWithFacts
  <2>. QED BY <1>2, <2>2, <2>3
<1>. QED BY <1>4, <1>5

\* Writing one span leaves the others alone.
LEMMA SpanWrite ==
  ASSUME NEW q \in Seq(Spans), NEW id \in DOMAIN q, NEW r \in Spans, NEW t, t = [q EXCEPT ![id] = r]
  PROVE  /\ t \in Seq(Spans) /\ DOMAIN t = DOMAIN q /\ t[id] = r
         /\ \A j \in DOMAIN q : j # id => t[j] = q[j]
<1>1. DOMAIN q = 1..Len(q)
  OBVIOUS
<1>2. t \in Seq(Spans)
  BY <1>1, ExceptSeq
<1>. QED BY <1>2

-----------------------------------------------------------------------------
(* What the invariant says of one goroutine.                               *)

\* Its stack as a sequence, and its spans as open ones.
LEMMA StackFacts ==
  ASSUME RInv, NEW g \in Goroutines
  PROVE  /\ frames[g] \in Seq(Frames) /\ Rising(frames[g])
         /\ ambient[g] \in Seq(Nat) /\ Increasing(ambient[g])
         /\ Range(ambient[g]) = SpansOf(g) /\ SpansOf(g) = SpansIn(frames[g])
         /\ \A i \in DOMAIN frames[g] : frames[g][i] \in Frames /\ Open(frames[g][i])
         /\ \A id \in SpansOf(g) :
              /\ id \in DOMAIN spans /\ id # 0 /\ spans[id] \in Spans
              /\ ~spans[id].ended /\ spans[id].error # "http"
              /\ id \in panicked => spans[id].error \in {"app", "panic"}
         /\ Handed(g)
<1>1. frames[g] \in Seq(Frames) /\ ambient[g] \in Seq(Nat) /\ spans \in Seq(Spans)
  BY DEF RInv, Typed
<1>2. \A i \in DOMAIN frames[g] : frames[g][i] \in Frames
  BY <1>1
<1>3. \A id \in DOMAIN spans : spans[id] \in Spans
  BY <1>1
<1>4. Stack(g)
  BY DEF RInv
<1>5. \A id \in SpansOf(g) : \E i \in DOMAIN frames[g] : id = frames[g][i].span /\ id # 0
  BY DEF SpansOf
<1>6. SpansOf(g) = SpansIn(frames[g])
  BY DEF SpansOf, SpansIn
<1>7. ASSUME NEW id \in SpansOf(g)
      PROVE  /\ id \in DOMAIN spans /\ id # 0 /\ spans[id] \in Spans
             /\ ~spans[id].ended /\ spans[id].error # "http"
             /\ id \in panicked => spans[id].error \in {"app", "panic"}
  BY <1>3, <1>4, <1>5 DEF Stack, Open
<1>. QED BY <1>1, <1>2, <1>4, <1>6, <1>7 DEF Stack

\* The innermost frame.
LEMMA TopFacts ==
  ASSUME RInv, NEW g \in Goroutines, frames[g] # <<>>
  PROVE  /\ Top(g) \in Frames /\ Open(Top(g)) /\ Top(g).span \in Nat
         /\ Top(g).span # 0 => Top(g).span \in SpansOf(g) /\ Top(g).layer \in {"http", "gin", "trace"}
<1>1. frames[g] \in Seq(Frames) /\ \A i \in DOMAIN frames[g] : frames[g][i] \in Frames /\ Open(frames[g][i])
  BY StackFacts
<1>2. Len(frames[g]) \in DOMAIN frames[g]
  BY <1>1, EmptySeq
<1>3. Top(g) \in Frames /\ Open(Top(g))
  BY <1>1, <1>2 DEF Top
<1>4. Top(g).span # 0 => Top(g).span \in SpansOf(g)
  BY <1>2 DEF Top, SpansOf
<1>. QED BY <1>3, <1>4 DEF Open, Frames

\* Outside an engine no layer is one.
LEMMA NoEngine ==
  ASSUME RInv, NEW g \in Goroutines, ~InEngine(g)
  PROVE  Plain(frames[g], Len(frames[g])) /\ \A i \in DOMAIN frames[g] : Plain(frames[g], i)
BY DEF InEngine, Plain

\* The contexts a goroutine has at hand carry spans of its own, or ones left
\* behind, which only an engine has.
LEMMA AtHandFacts ==
  ASSUME RInv, NEW g \in Goroutines, NEW x \in AtHand(g)
  PROVE  /\ x = 0 \/ x \in SpansOf(g) \/ x \in LeftBehind
         /\ ~InEngine(g) => x = 0 \/ x \in SpansOf(g)
<1>1. /\ \A i \in DOMAIN frames[g] : CarriedAt(frames[g], LeftBehind, i)
      /\ Requested(frames[g], LeftBehind, request[g])
  BY StackFacts DEF Handed
<1>2. \A i \in DOMAIN frames[g] : \A c : Among(frames[g], i, c) => c = 0 \/ c \in SpansOf(g)
  BY DEF Among, SpansOf
<1>3. CASE x = request[g]
  <2>1. x = 0 \/ x \in SpansOf(g) \/ x \in LeftBehind
    BY <1>1, <1>3 DEF Requested, SpansOf
  <2>2. ~InEngine(g) => x = 0
    BY <1>1, <1>3, NoEngine DEF Requested
  <2>. QED BY <2>1, <2>2
<1>4. ASSUME NEW i \in DOMAIN frames[g], x = frames[g][i].context
      PROVE  /\ x = 0 \/ x \in SpansOf(g) \/ x \in LeftBehind
             /\ ~InEngine(g) => x = 0 \/ x \in SpansOf(g)
  <2>1. CarriedAt(frames[g], LeftBehind, i)
    BY <1>1
  <2>2. x = 0 \/ x \in SpansOf(g) \/ x \in LeftBehind
    BY <1>2, <1>4, <2>1 DEF CarriedAt
  <2>3. ASSUME ~InEngine(g) PROVE x = 0 \/ x \in SpansOf(g)
    <3>1. Plain(frames[g], i)
      BY <2>3, NoEngine
    <3>. QED BY <1>2, <1>4, <2>1, <3>1 DEF CarriedAt, Latest
  <2>. QED BY <2>2, <2>3
<1>. QED BY <1>3, <1>4 DEF AtHand

\* The span of the context is at hand, and outside an engine the innermost.
LEMMA Context ==
  ASSUME RInv, NEW g \in Goroutines
  PROVE  /\ ContextSpan(g) = 0 \/ ContextSpan(g) \in AtHand(g)
         /\ ~InEngine(g) => Latest(frames[g], Len(frames[g]), ContextSpan(g))
<1>1. frames[g] \in Seq(Frames) /\ Handed(g)
  BY StackFacts
<1>2. CASE frames[g] = <<>>
  <2>1. ContextSpan(g) = 0 /\ DOMAIN frames[g] = {}
    BY <1>2 DEF ContextSpan
  <2>. QED BY <2>1 DEF Latest, Among
<1>3. CASE frames[g] # <<>>
  <2>1. Len(frames[g]) \in DOMAIN frames[g]
    BY <1>1, <1>3, EmptySeq
  <2>2. ContextSpan(g) \in AtHand(g)
    BY <1>3, <2>1 DEF ContextSpan, AtHand, Top
  <2>3. ASSUME ~InEngine(g) PROVE Latest(frames[g], Len(frames[g]), ContextSpan(g))
    <3>1. \A i \in DOMAIN frames[g] :
            frames[g][i].layer \notin {"gin", "engine"} /\ CarriedAt(frames[g], LeftBehind, i)
      BY <1>1, <2>3, NoEngine DEF Handed, CarriedAt, InEngine
    <3>2. ContextSpan(g) = frames[g][Len(frames[g])].context
      BY <1>3, <3>1 DEF ContextSpan, HandlesGin, Top
    <3>3. Plain(frames[g], Len(frames[g]))
      BY <2>3, NoEngine
    <3>. QED BY <2>1, <3>1, <3>2, <3>3 DEF CarriedAt
  <2>. QED BY <2>2, <2>3
<1>. QED BY <1>2, <1>3

\* So the registry has it on top.
LEMMA ContextOnTop ==
  ASSUME RInv, NEW g \in Goroutines, ~InEngine(g)
  PROVE  ContextSpan(g) = IF ambient[g] = <<>> THEN 0 ELSE ambient[g][Len(ambient[g])]
<1>. DEFINE x == ambient[g][Len(ambient[g])]
            c == ContextSpan(g)
<1>1. /\ ambient[g] \in Seq(Nat) /\ Increasing(ambient[g]) /\ Range(ambient[g]) = SpansOf(g)
      /\ frames[g] \in Seq(Frames)
  BY StackFacts
<1>2. Latest(frames[g], Len(frames[g]), c)
  BY Context
<1>. HIDE DEF c
<1>3. \A i \in DOMAIN frames[g] : i <= Len(frames[g])
  BY <1>1
<1>4. (c = 0 \/ c \in SpansOf(g)) /\ \A y \in SpansOf(g) : y <= c
  BY <1>2, <1>3 DEF Latest, Among, SpansOf
<1>5. 0 \notin SpansOf(g)
  BY DEF SpansOf
<1>6. CASE ambient[g] = <<>>
  <2>1. SpansOf(g) = {}
    BY <1>1, <1>6 DEF Range
  <2>. QED BY <1>4, <1>6, <2>1 DEF c
<1>7. CASE ambient[g] # <<>>
  <2>1. x \in SpansOf(g) /\ \A y \in SpansOf(g) : y \in Nat /\ y <= x
    BY <1>1, <1>7, IncreasingLast
  <2>2. c \in SpansOf(g)
    <3>1. x \in Nat /\ x <= c /\ x # 0
      BY <1>4, <1>5, <2>1
    <3>2. c # 0
      BY <3>1
    <3>. QED BY <1>4, <3>2
  <2>3. c \in Nat /\ x \in Nat /\ c <= x /\ x <= c
    BY <1>4, <2>1, <2>2
  <2>. QED BY <1>7, <2>3 DEF c
<1>. QED BY <1>6, <1>7

\* Spans are numbers.
LEMMA ContextNat ==
  ASSUME RInv, NEW g \in Goroutines
  PROVE  ContextSpan(g) \in Nat
<1>1. \A id \in SpansOf(g) \cup LeftBehind : id \in DOMAIN spans
  BY StackFacts DEF LeftBehind
<1>2. spans \in Seq(Spans)
  BY DEF RInv, Typed
<1>3. DOMAIN spans \subseteq Nat
  BY <1>2
<1>. QED BY <1>1, <1>3, Context, AtHandFacts

-----------------------------------------------------------------------------
(* Steps.                                                                  *)

\* The one write to a span that is not on the stack: an error or a panic of
\* gin code, in a span that was left behind for it.
Rewritten(g, id) ==
  /\ id \in LeftBehind /\ id \in AtHand(g)
  /\ spans'[id].layer = spans[id].layer /\ spans'[id].ended
  /\ spans[id].status # 0 => spans'[id].status # 0
  /\ spans[id].error # "none" => spans'[id].error = spans[id].error

\* A span that is not on g's stack.
Spared(g, id) ==
  /\ spans'[id] = spans[id] \/ Rewritten(g, id)
  /\ id \in panicked' => id \in panicked

\* A step of g leaves the other goroutines and their spans alone.
Touches(g) ==
  /\ enabled' = enabled
  /\ \A h \in Goroutines \ {g} :
       /\ frames'[h] = frames[h] /\ request'[h] = request[h]
       /\ ambient'[h] = ambient[h] /\ mode'[h] = mode[h]
  /\ DOMAIN spans \subseteq DOMAIN spans'
  /\ \A id \in DOMAIN spans \ SpansOf(g) : Spared(g, id)
  /\ panicked \subseteq panicked' /\ torn \subseteq torn'

\* The spans that g may leave behind: its own and those it starts.
Left(g) == (SpansOf(g) \cup (DOMAIN spans' \ DOMAIN spans)) \ SpansOf(g)'

Settles(g) ==
  /\ Typed'
  /\ Touches(g)
  /\ Stack(g)'
  /\ SpansOf(g)' \subseteq SpansOf(g) \cup (DOMAIN spans' \ DOMAIN spans)
  /\ \A id \in Left(g) : Fine(id)'

\* A span of g that stays open and tells of a panic that hit it.
StaysOpen(id) ==
  /\ spans'[id].layer = spans[id].layer
  /\ ~spans'[id].ended /\ spans'[id].error # "http"
  /\ id \in panicked' => spans'[id].error \in {"app", "panic"}

\* What is left behind stays so.
LEMMA BehindGrows ==
  ASSUME RInv, NEW g \in Goroutines, DOMAIN spans \subseteq DOMAIN spans',
         \A id \in DOMAIN spans \ SpansOf(g) : Spared(g, id)
  PROVE  LeftBehind \subseteq LeftBehind'
<1>1. \A id \in LeftBehind : id \in DOMAIN spans \ SpansOf(g)
  BY StackFacts DEF LeftBehind
<1>. QED BY <1>1 DEF LeftBehind, Spared, Rewritten

\* A step that keeps to its own stack keeps the invariant.
LEMMA Settled ==
  ASSUME RInv, NEW g \in Goroutines, Settles(g)
  PROVE  RInv'
<1>1. \A h \in Goroutines \ {g} : SpansOf(h)' = SpansOf(h)
  BY DEF Settles, Touches, SpansOf
<1>2. \A h \in Goroutines : SpansOf(h) \subseteq DOMAIN spans
  BY StackFacts
<1>3. \A h \in Goroutines \ {g} : \A id \in SpansOf(h) : id \in DOMAIN spans \ SpansOf(g)
  BY <1>2 DEF RInv, Private
<1>4. ASSUME NEW h \in Goroutines \ {g}, NEW id \in SpansOf(h)
      PROVE  /\ id \in DOMAIN spans' /\ spans'[id] = spans[id]
             /\ id \in panicked' => id \in panicked
  <2>1. ~spans[id].ended
    BY StackFacts
  <2>2. Spared(g, id) /\ id \in DOMAIN spans'
    BY <1>3 DEF Settles, Touches
  <2>. QED BY <2>1, <2>2 DEF Spared, Rewritten, LeftBehind
<1>5. LeftBehind \subseteq LeftBehind'
  BY BehindGrows DEF Settles, Touches
<1>6. ASSUME NEW h \in Goroutines \ {g} PROVE Stack(h)'
  <2>1. /\ Stack(h) /\ frames'[h] = frames[h] /\ request'[h] = request[h]
        /\ ambient'[h] = ambient[h] /\ mode'[h] = mode[h]
    BY DEF RInv, Settles, Touches
  <2>2. \A i \in DOMAIN frames[h] : frames[h][i].span # 0 => frames[h][i].span \in SpansOf(h)
    BY DEF SpansOf
  <2>3. ASSUME NEW i \in DOMAIN frames[h] PROVE Open(frames[h][i])'
    <3>1. Open(frames[h][i])
      BY <2>1 DEF Stack
    <3>2. frames[h][i].span # 0 =>
            /\ frames[h][i].span \in DOMAIN spans' /\ spans'[frames[h][i].span] = spans[frames[h][i].span]
            /\ frames[h][i].span \in panicked' => frames[h][i].span \in panicked
      BY <1>4, <2>2
    <3>3. enabled' = enabled /\ frames'[h] = frames[h]
      BY <2>1 DEF Settles, Touches
    <3>. QED BY <3>1, <3>2, <3>3 DEF Open
  <2>4. Possible(h)'
    <3>1. CASE mode[h] = "recorded"
      <4>1. Possible(h) /\ frames[h] # <<>> /\ Top(h).span # 0 /\ Top(h)' = Top(h)
        BY <2>1, <3>1 DEF Stack, Possible, Top
      <4>2. Top(h).span \in SpansOf(h)
        BY <4>1, TopFacts
      <4>3. spans'[Top(h).span] = spans[Top(h).span]
        BY <1>4, <4>2
      <4>. QED BY <2>1, <4>1, <4>3 DEF Possible
    <3>2. CASE mode[h] # "recorded"
      BY <2>1, <3>2 DEF Stack, Possible
    <3>. QED BY <3>1, <3>2
  <2>5. Rising(frames'[h]) /\ Increasing(ambient'[h]) /\ Range(ambient'[h]) = SpansOf(h)'
    BY <1>1, <2>1 DEF Stack
  <2>6. Handed(h)'
    <3>1. frames[h] \in Seq(Frames) /\ Handed(h)
      BY StackFacts
    <3>2. /\ \A i \in DOMAIN frames[h] : CarriedAt(frames[h], LeftBehind', i)
          /\ Requested(frames[h], LeftBehind', request[h])
      BY <1>5, <3>1, HandedKept DEF Handed
    <3>. QED BY <2>1, <3>2 DEF Handed
  <2>. QED BY <2>1, <2>3, <2>4, <2>5, <2>6 DEF Stack
<1>7. \A h \in Goroutines : Stack(h)'
  BY <1>6 DEF Settles
<1>8. Private'
  <2>. SUFFICES ASSUME NEW a \in Goroutines, NEW b \in Goroutines, a # b,
                       NEW x, x \in SpansOf(a)', x \in SpansOf(b)'
       PROVE  FALSE
    BY DEF Private
  <2>1. SpansOf(g)' \subseteq SpansOf(g) \cup (DOMAIN spans' \ DOMAIN spans)
    BY DEF Settles
  <2>2. CASE a # g /\ b # g
    BY <1>1, <2>2 DEF RInv, Private
  <2>3. CASE a = g
    BY <1>1, <1>2, <2>1, <2>3 DEF RInv, Private
  <2>4. CASE b = g
    BY <1>1, <1>2, <2>1, <2>4 DEF RInv, Private
  <2>. QED BY <2>2, <2>3, <2>4
<1>9. ASSUME NEW id \in DOMAIN spans' \ OpenSpans' PROVE Fine(id)'
  <2>1. \A h \in Goroutines : id \notin SpansOf(h)'
    BY DEF OpenSpans
  <2>2. CASE id \in SpansOf(g) \/ id \notin DOMAIN spans
    BY <2>1, <2>2 DEF Settles, Left
  <2>3. CASE id \in DOMAIN spans \ SpansOf(g)
    <3>1. id \notin OpenSpans
      BY <1>1, <2>1, <2>3 DEF OpenSpans
    <3>2. Fine(id)
      BY <2>3, <3>1 DEF RInv
    <3>3. Spared(g, id) /\ panicked \subseteq panicked' /\ torn \subseteq torn'
      BY <2>3 DEF Settles, Touches
    <3>4. CASE spans'[id] = spans[id]
      BY <3>2, <3>3, <3>4 DEF Fine, Spared
    <3>5. CASE Rewritten(g, id)
      <4>1. /\ spans[id].layer = "gin" /\ spans[id].ended /\ spans[id].status # 0
            /\ spans'[id].layer = "gin" /\ spans'[id].ended /\ spans'[id].status # 0
        BY <3>2, <3>5 DEF Rewritten, LeftBehind, Fine
      <4>2. id \in panicked' => spans'[id].error \in {"app", "panic"}
        BY <3>2, <3>3, <3>5, <4>1 DEF Rewritten, Fine, Spared
      <4>. QED BY <4>1, <4>2 DEF Fine
    <3>. QED BY <3>3, <3>4, <3>5 DEF Spared
  <2>. QED BY <2>2, <2>3
<1>. QED BY <1>7, <1>8, <1>9 DEF RInv, Settles

\* A step within the innermost layer, which enters and leaves none.
LEMMA Within ==
  ASSUME RInv, NEW g \in Goroutines, Typed',
         enabled' = enabled, frames' = frames, request' = request, ambient' = ambient,
         DOMAIN spans' = DOMAIN spans,
         \A h \in Goroutines \ {g} : mode'[h] = mode[h],
         \A id \in DOMAIN spans \ SpansOf(g) : Spared(g, id),
         panicked \subseteq panicked', torn' = torn,
         \A id \in SpansOf(g) : StaysOpen(id),
         Possible(g)'
  PROVE  Settles(g)
<1>1. SpansOf(g)' = SpansOf(g)
  BY DEF SpansOf
<1>2. Touches(g)
  BY DEF Touches
<1>3. \A i \in DOMAIN frames[g] : frames[g][i].span # 0 => frames[g][i].span \in SpansOf(g)
  BY DEF SpansOf
<1>4. ASSUME NEW i \in DOMAIN frames[g] PROVE Open(frames[g][i])'
  <2>1. Open(frames[g][i])
    BY StackFacts
  <2>. QED BY <1>3, <2>1 DEF Open, StaysOpen
<1>5. Handed(g)'
  <2>1. frames[g] \in Seq(Frames) /\ Handed(g)
    BY StackFacts
  <2>2. LeftBehind \subseteq LeftBehind'
    BY BehindGrows
  <2>3. /\ \A i \in DOMAIN frames[g] : CarriedAt(frames[g], LeftBehind', i)
        /\ Requested(frames[g], LeftBehind', request[g])
    BY <2>1, <2>2, HandedKept DEF Handed
  <2>. QED BY <2>3 DEF Handed
<1>6. Stack(g)'
  <2>1. Rising(frames'[g]) /\ Increasing(ambient'[g]) /\ Range(ambient'[g]) = SpansOf(g)'
    BY <1>1 DEF RInv, Stack
  <2>. QED BY <1>4, <1>5, <2>1 DEF Stack
<1>7. Left(g) = {}
  BY <1>1 DEF Left
<1>. QED BY <1>1, <1>2, <1>6, <1>7 DEF Settles

\* Leaving a layer takes its frame away, and an engine c.Request.
LEMMA LeaveFacts ==
  ASSUME RInv, NEW g \in Goroutines, frames[g] # <<>>, Leave(g)
  PROVE  /\ frames' \in [Goroutines -> Seq(Frames)] /\ request' \in [Goroutines -> Nat]
         /\ \A h \in Goroutines \ {g} : frames'[h] = frames[h] /\ request'[h] = request[h]
         /\ Rising(frames'[g])
         /\ \A i \in DOMAIN frames'[g] :
              i \in DOMAIN frames[g] /\ frames'[g][i] = frames[g][i] /\ frames'[g][i] \in Frames
         /\ SpansOf(g)' = SpansOf(g) \ {Top(g).span}
         /\ frames'[g] = SubSeq(frames[g], 1, Len(frames[g]) - 1)
         /\ request'[g] = IF Top(g).layer = "engine" THEN 0 ELSE request[g]
<1>. DEFINE t == SubSeq(frames[g], 1, Len(frames[g]) - 1)
<1>1. frames \in [Goroutines -> Seq(Frames)] /\ request \in [Goroutines -> Nat]
  BY DEF RInv, Typed
<1>2. frames[g] \in Seq(Frames) /\ Rising(frames[g]) /\ SpansOf(g) = SpansIn(frames[g])
  BY StackFacts
<1>3. /\ t \in Seq(Frames) /\ Rising(t)
      /\ \A i \in DOMAIN t : i \in DOMAIN frames[g] /\ t[i] = frames[g][i] /\ t[i] \in Frames
      /\ SpansIn(t) = SpansIn(frames[g]) \ {frames[g][Len(frames[g])].span}
  BY <1>2, StackFront
<1>4. frames' = [frames EXCEPT ![g] = t]
  BY DEF Leave
<1>5. /\ request' \in [Goroutines -> Nat]
      /\ request'[g] = IF Top(g).layer = "engine" THEN 0 ELSE request[g]
      /\ \A h \in Goroutines \ {g} : request'[h] = request[h]
  BY <1>1 DEF Leave
<1>6. t = SubSeq(frames[g], 1, Len(frames[g]) - 1)
  OBVIOUS
<1>. HIDE DEF t
<1>7. frames' \in [Goroutines -> Seq(Frames)] /\ frames'[g] = t
      /\ \A h \in Goroutines \ {g} : frames'[h] = frames[h]
  BY <1>1, <1>3, <1>4
<1>8. SpansOf(g)' = SpansIn(t)
  BY <1>7 DEF SpansOf, SpansIn
<1>. QED BY <1>2, <1>3, <1>5, <1>6, <1>7, <1>8 DEF Top

\* The pop takes the span of the innermost frame off the registry, if it has one.
LEMMA PopFacts ==
  ASSUME RInv, NEW g \in Goroutines, frames[g] # <<>>, Pop(g)
  PROVE  /\ ambient' \in [Goroutines -> Seq(Nat)]
         /\ \A h \in Goroutines \ {g} : ambient'[h] = ambient[h]
         /\ Increasing(ambient'[g])
         /\ Range(ambient'[g]) = SpansOf(g) \ {Top(g).span}
<1>1. ambient \in [Goroutines -> Seq(Nat)]
  BY DEF RInv, Typed
<1>2. /\ frames[g] \in Seq(Frames) /\ Rising(frames[g]) /\ SpansOf(g) = SpansIn(frames[g])
      /\ ambient[g] \in Seq(Nat) /\ Increasing(ambient[g]) /\ Range(ambient[g]) = SpansOf(g)
  BY StackFacts
<1>3. CASE Top(g).span = 0
  <2>1. ambient' = ambient
    BY <1>3 DEF Pop
  <2>2. 0 \notin SpansOf(g)
    BY DEF SpansOf
  <2>. QED BY <1>1, <1>2, <1>3, <2>1, <2>2
<1>4. CASE Top(g).span # 0
  <2>. DEFINE t == SubSeq(ambient[g], 1, Len(ambient[g]) - 1)
              x == ambient[g][Len(ambient[g])]
  <2>1. Top(g).span \in SpansOf(g) /\ \A y \in SpansOf(g) : y \in Nat /\ y <= Top(g).span
    BY <1>2, <1>4, StackTop DEF Top
  <2>2. ambient[g] # <<>>
    BY <1>2, <2>1 DEF Range
  <2>3. x \in SpansOf(g) /\ \A y \in SpansOf(g) : y \in Nat /\ y <= x
    BY <1>2, <2>2, IncreasingLast
  <2>4. x = Top(g).span
    BY <2>1, <2>3
  <2>5. t \in Seq(Nat) /\ Increasing(t) /\ Range(t) = Range(ambient[g]) \ {x}
    BY <1>2, <2>2, IncreasingFront
  <2>6. ambient' = [ambient EXCEPT ![g] = t]
    BY <1>4, <2>2 DEF Pop
  <2>. HIDE DEF t, x
  <2>7. ambient' \in [Goroutines -> Seq(Nat)] /\ ambient'[g] = t
        /\ \A h \in Goroutines \ {g} : ambient'[h] = ambient[h]
    BY <1>1, <2>5, <2>6
  <2>. QED BY <1>2, <2>4, <2>5, <2>7
<1>. QED BY <1>3, <1>4

\* A step that leaves the innermost layer, with its span as it should be.
LEMMA Leaving ==
  ASSUME RInv, NEW g \in Goroutines, frames[g] # <<>>, Leave(g), Pop(g), Typed',
         enabled' = enabled,
         \A h \in Goroutines \ {g} : mode'[h] = mode[h],
         mode'[g] \in {"run", "panic"},
         DOMAIN spans \subseteq DOMAIN spans',
         \A id \in DOMAIN spans \ SpansOf(g) : Spared(g, id),
         panicked \subseteq panicked', torn \subseteq torn',
         \A id \in SpansOf(g) \ {Top(g).span} : StaysOpen(id),
         \A id \in {Top(g).span} \ {0} : Fine(id)' /\ spans'[id].layer = spans[id].layer,
         \A id \in DOMAIN spans' \ DOMAIN spans : Fine(id)'
  PROVE  Settles(g)
<1>1. /\ \A h \in Goroutines \ {g} : frames'[h] = frames[h] /\ request'[h] = request[h]
      /\ Rising(frames'[g])
      /\ \A i \in DOMAIN frames'[g] :
           i \in DOMAIN frames[g] /\ frames'[g][i] = frames[g][i] /\ frames'[g][i] \in Frames
      /\ SpansOf(g)' = SpansOf(g) \ {Top(g).span}
  BY LeaveFacts
<1>2. /\ \A h \in Goroutines \ {g} : ambient'[h] = ambient[h]
      /\ Increasing(ambient'[g])
      /\ Range(ambient'[g]) = SpansOf(g) \ {Top(g).span}
  BY PopFacts
<1>3. Touches(g)
  BY <1>1, <1>2 DEF Touches
<1>4. ASSUME NEW i \in DOMAIN frames'[g] PROVE Open(frames[g][i])'
  <2>1. i \in DOMAIN frames[g] /\ frames'[g][i] = frames[g][i] /\ Open(frames[g][i])
    BY <1>1, StackFacts
  <2>2. frames[g][i].span # 0 => frames[g][i].span \in SpansOf(g)'
    BY <2>1 DEF SpansOf
  <2>3. frames[g][i].span # 0 => StaysOpen(frames[g][i].span)
    BY <1>1, <2>2
  <2>4. frames[g][i].span # 0 => frames[g][i].span \in DOMAIN spans'
    BY <2>1 DEF Open
  <2>. QED BY <2>1, <2>3, <2>4 DEF Open, StaysOpen
<1>5. Possible(g)'
  BY DEF Possible
<1>6. Handed(g)'
  <2>. DEFINE q == frames[g]
  <2>1. /\ q \in Seq(Frames)
        /\ \A i \in DOMAIN q : CarriedAt(q, LeftBehind, i)
        /\ Requested(q, LeftBehind, request[g])
    BY StackFacts DEF Handed
  <2>2. LeftBehind \subseteq LeftBehind'
    BY BehindGrows
  <2>3. ASSUME Top(g).layer = "gin", Top(g).span # 0 PROVE Top(g).span \in LeftBehind'
    <3>1. Top(g).span \in DOMAIN spans' /\ spans[Top(g).span].layer = "gin"
      BY <2>3, TopFacts DEF Open
    <3>2. Top(g).span \in {Top(g).span} \ {0}
      BY <2>3
    <3>3. PICK top \in {Top(g).span} \ {0} : top = Top(g).span
      BY <3>2
    <3>4. Fine(top)' /\ spans'[top].layer = spans[top].layer
      OBVIOUS
    <3>. QED BY <3>1, <3>3, <3>4 DEF Fine, LeftBehind
  <2>4. q[Len(q)].layer = "gin" => q[Len(q)].span \in LeftBehind' \cup {0}
    BY <2>3 DEF Top
  <2>5. /\ frames'[g] = SubSeq(q, 1, Len(q) - 1)
        /\ request'[g] = IF q[Len(q)].layer = "engine" THEN 0 ELSE request[g]
    BY LeaveFacts DEF Top
  <2>. HIDE DEF q
  <2>6. q # <<>>
    BY DEF q
  <2>7. /\ \A i \in DOMAIN frames'[g] : CarriedAt(frames'[g], LeftBehind', i)
        /\ Requested(frames'[g], LeftBehind', request'[g])
    BY <2>1, <2>2, <2>4, <2>5, <2>6, HandedFront
  <2>. QED BY <2>7 DEF Handed
<1>7. Stack(g)'
  BY <1>1, <1>2, <1>4, <1>5, <1>6 DEF Stack
<1>8. \A id \in Left(g) : Fine(id)'
  <2>1. \A id \in Left(g) : id \in DOMAIN spans' \ DOMAIN spans \/ (id \in SpansOf(g) /\ id = Top(g).span)
    BY <1>1 DEF Left
  <2>2. 0 \notin SpansOf(g)
    BY DEF SpansOf
  <2>. QED BY <2>1, <2>2
<1>9. SpansOf(g)' \subseteq SpansOf(g)
  BY <1>1
<1>. QED BY <1>3, <1>7, <1>8, <1>9 DEF Settles

\* Entering a layer adds its frame.
LEMMA EnterFacts ==
  ASSUME RInv, NEW g \in Goroutines, NEW f \in Frames,
         f.span # 0 => \A x \in SpansOf(g) : x < f.span,
         frames' = [frames EXCEPT ![g] = Append(@, f)]
  PROVE  /\ frames' \in [Goroutines -> Seq(Frames)]
         /\ \A h \in Goroutines \ {g} : frames'[h] = frames[h]
         /\ Rising(frames'[g])
         /\ \A i \in DOMAIN frames'[g] :
              \/ i \in DOMAIN frames[g] /\ frames'[g][i] = frames[g][i]
              \/ frames'[g][i] = f
         /\ SpansOf(g)' = SpansOf(g) \cup ({f.span} \ {0})
<1>. DEFINE t == Append(frames[g], f)
<1>1. frames \in [Goroutines -> Seq(Frames)]
  BY DEF RInv, Typed
<1>2. frames[g] \in Seq(Frames) /\ Rising(frames[g]) /\ SpansOf(g) = SpansIn(frames[g])
  BY StackFacts
<1>3. f.span # 0 => \A x \in SpansIn(frames[g]) : x < f.span
  BY <1>2
<1>4. frames' = [frames EXCEPT ![g] = t] /\ t = Append(frames[g], f)
  OBVIOUS
<1>. HIDE DEF t
<1>5. /\ t \in Seq(Frames) /\ Rising(t)
      /\ \A i \in DOMAIN t : (i \in DOMAIN frames[g] /\ t[i] = frames[g][i]) \/ t[i] = f
      /\ SpansIn(t) = SpansIn(frames[g]) \cup ({f.span} \ {0})
  <2>1. t \in Seq(Frames) /\ Rising(t)
    BY <1>2, <1>3, <1>4, StackAppend
  <2>2. \A i \in DOMAIN t : (i \in DOMAIN frames[g] /\ t[i] = frames[g][i]) \/ t[i] = f
    BY <1>2, <1>3, <1>4, StackAppend
  <2>3. SpansIn(t) = SpansIn(frames[g]) \cup ({f.span} \ {0})
    BY <1>2, <1>3, <1>4, StackAppend
  <2>. QED BY <2>1, <2>2, <2>3
<1>6. /\ frames' \in [Goroutines -> Seq(Frames)] /\ frames'[g] = t
      /\ \A h \in Goroutines \ {g} : frames'[h] = frames[h]
  BY <1>1, <1>4, <1>5
<1>7. SpansOf(g)' = SpansIn(t)
  BY <1>6 DEF SpansOf, SpansIn
<1>. QED BY <1>2, <1>5, <1>6, <1>7

\* Starting a span: it is new, open and clean.
LEMMA NewSpanFacts ==
  ASSUME NEW q \in Seq(Spans), NEW n \in Spans, NEW t, t = Append(q, n), NEW id, id = Len(q) + 1
  PROVE  /\ t \in Seq(Spans) /\ t[id] = n /\ \A j \in DOMAIN q : t[j] = q[j]
         /\ DOMAIN t = DOMAIN q \cup {id}
         /\ id \in Nat /\ id # 0 /\ id \notin DOMAIN q /\ \A j \in DOMAIN q : j \in Nat /\ j < id
<1>1. /\ t \in Seq(Spans) /\ Len(q) \in Nat /\ DOMAIN q = 1..Len(q) /\ DOMAIN t = 1..(Len(q) + 1)
      /\ t[Len(q) + 1] = n /\ \A i \in 1..Len(q) : t[i] = q[i]
  BY AppendElements
<1>. QED BY <1>1

\* The push puts it on the registry.
LEMMA PushFacts ==
  ASSUME RInv, NEW g \in Goroutines, NEW id \in Nat, \A x \in SpansOf(g) : x < id, Push(g, id)
  PROVE  /\ ambient' \in [Goroutines -> Seq(Nat)]
         /\ \A h \in Goroutines \ {g} : ambient'[h] = ambient[h]
         /\ Increasing(ambient'[g]) /\ Range(ambient'[g]) = SpansOf(g) \cup {id}
<1>. DEFINE q == Append(ambient[g], id)
<1>1. ambient \in [Goroutines -> Seq(Nat)]
  BY DEF RInv, Typed
<1>2. ambient[g] \in Seq(Nat) /\ Increasing(ambient[g]) /\ Range(ambient[g]) = SpansOf(g)
  BY StackFacts
<1>3. q \in Seq(Nat) /\ Increasing(q) /\ Range(q) = Range(ambient[g]) \cup {id}
  BY <1>2, IncreasingAppend
<1>4. ambient' = [ambient EXCEPT ![g] = q]
  BY DEF Push
<1>. HIDE DEF q
<1>5. /\ ambient' \in [Goroutines -> Seq(Nat)] /\ ambient'[g] = q
      /\ \A h \in Goroutines \ {g} : ambient'[h] = ambient[h]
  BY <1>1, <1>3, <1>4
<1>. QED BY <1>2, <1>3, <1>5

\* A step that enters a layer, with a frame whose span, if it has one, is new.
LEMMA Entering ==
  ASSUME RInv, NEW g \in Goroutines, NEW f \in Frames,
         frames' = [frames EXCEPT ![g] = Append(@, f)],
         mode'[g] = "run", \A h \in Goroutines \ {g} : mode'[h] = mode[h],
         enabled' = enabled, panicked' = panicked, torn' = torn, Typed',
         f.layer = "gin" => InEngine(g),
         (f.span # 0 /\ f.context = f.span) \/ (f.span = 0 /\ f.context = ContextSpan(g)),
         \/ request'[g] = request[g]
         \/ f.layer = "gin" /\ request'[g] = f.span
         \/ f.layer = "engine" /\ request'[g] = ContextSpan(g),
         f.span # 0 => \A x \in SpansOf(g) : x < f.span,
         f.span # 0 => /\ f.span \notin DOMAIN spans /\ f.layer \in {"http", "gin", "trace"}
                       /\ f.layer # "trace" => enabled
                       /\ spans'[f.span].layer = f.layer /\ ~spans'[f.span].ended
                       /\ spans'[f.span].error = "none",
         DOMAIN spans' = DOMAIN spans \cup ({f.span} \ {0}),
         \A id \in DOMAIN spans : spans'[id] = spans[id],
         \A h \in Goroutines \ {g} : ambient'[h] = ambient[h] /\ request'[h] = request[h],
         Increasing(ambient'[g]), Range(ambient'[g]) = SpansOf(g) \cup ({f.span} \ {0})
  PROVE  Settles(g)
<1>1. /\ \A h \in Goroutines \ {g} : frames'[h] = frames[h]
      /\ Rising(frames'[g])
      /\ \A i \in DOMAIN frames'[g] :
           \/ i \in DOMAIN frames[g] /\ frames'[g][i] = frames[g][i]
           \/ frames'[g][i] = f
      /\ SpansOf(g)' = SpansOf(g) \cup ({f.span} \ {0})
  <2>1. (\A h \in Goroutines \ {g} : frames'[h] = frames[h]) /\ Rising(frames'[g])
    BY EnterFacts
  <2>2. \A i \in DOMAIN frames'[g] :
          \/ i \in DOMAIN frames[g] /\ frames'[g][i] = frames[g][i]
          \/ frames'[g][i] = f
    BY EnterFacts
  <2>3. SpansOf(g)' = SpansOf(g) \cup ({f.span} \ {0})
    BY EnterFacts
  <2>. QED BY <2>1, <2>2, <2>3
<1>2. Touches(g)
  BY <1>1 DEF Touches, Spared
<1>3. panicked' \subseteq DOMAIN spans
  BY DEF RInv, Typed
<1>4. ASSUME NEW i \in DOMAIN frames'[g] PROVE Open(frames[g][i])'
  <2>1. CASE i \in DOMAIN frames[g] /\ frames'[g][i] = frames[g][i]
    <3>1. Open(frames[g][i])
      BY <2>1, StackFacts
    <3>. QED BY <2>1, <3>1 DEF Open
  <2>2. CASE frames'[g][i] = f
    <3>1. f.span # 0 => f.span \in DOMAIN spans'
      OBVIOUS
    <3>. QED BY <1>3, <2>2, <3>1 DEF Open
  <2>. QED BY <1>1, <2>1, <2>2
<1>5. Possible(g)'
  BY DEF Possible
<1>6. Handed(g)'
  <2>. DEFINE q == frames[g]
              c == ContextSpan(g)
  <2>1. /\ q \in Seq(Frames)
        /\ \A i \in DOMAIN q : CarriedAt(q, LeftBehind, i) /\ i <= Len(q) /\ q[i] \in Frames
        /\ Requested(q, LeftBehind, request[g])
        /\ \A i \in DOMAIN q : q[i].span = 0 \/ q[i].span \in SpansOf(g)
    BY StackFacts DEF Handed, SpansOf
  <2>2. LeftBehind \subseteq LeftBehind'
    <3>1. \A id \in DOMAIN spans \ SpansOf(g) : Spared(g, id)
      BY DEF Spared
    <3>. QED BY <3>1, BehindGrows
  <2>3. c = 0 \/ c \in SpansOf(g) \/ c \in LeftBehind
    BY Context, AtHandFacts
  <2>4. c \in LeftBehind' \/ Among(q, Len(q), c)
    BY <2>1, <2>2, <2>3 DEF Among, SpansOf
  <2>5. Plain(q, Len(q)) => ~InEngine(g)
    BY <2>1 DEF Plain, InEngine
  <2>6. ASSUME Plain(q, Len(q))
        PROVE  /\ f.context = f.span \/ (f.span = 0 /\ Among(q, Len(q), f.context))
               /\ \A i \in DOMAIN q : q[i].span <= f.context
    <3>1. Latest(q, Len(q), c)
      BY <2>5, <2>6, Context
    <3>2. CASE f.span # 0
      <4>1. \A i \in DOMAIN q : q[i].span \in Nat
        BY <2>1 DEF Frames
      <4>2. f.span \in Nat /\ \A x \in SpansOf(g) : x < f.span
        BY <3>2 DEF Frames
      <4>3. ASSUME NEW i \in DOMAIN q PROVE q[i].span <= f.span
        BY <2>1, <4>1, <4>2
      <4>. QED BY <3>2, <4>3
    <3>3. CASE f.span = 0
      BY <2>1, <3>1, <3>3 DEF Latest
    <3>. QED BY <3>2, <3>3
  <2>7. f.layer = "gin" => ~Plain(q, Len(q))
    BY <2>5
  <2>8. f.context = f.span \/ f.context \in LeftBehind' \/ Among(q, Len(q), f.context)
    BY <2>4
  <2>9. \/ request'[g] = request[g]
        \/ f.layer = "gin" /\ request'[g] = f.span
        \/ f.layer = "engine" /\ (request'[g] \in LeftBehind' \/ Among(q, Len(q), request'[g]))
    BY <2>4
  <2>10. frames'[g] = Append(q, f)
    BY DEF RInv, Typed
  <2>. HIDE DEF q, c
  <2>11. /\ \A i \in DOMAIN frames'[g] : CarriedAt(frames'[g], LeftBehind', i)
         /\ Requested(frames'[g], LeftBehind', request'[g])
    BY <2>1, <2>2, <2>6, <2>7, <2>8, <2>9, <2>10, HandedAppend
  <2>. QED BY <2>11 DEF Handed
<1>7. Stack(g)'
  BY <1>1, <1>4, <1>5, <1>6 DEF Stack
<1>8. Left(g) = {}
  BY <1>1 DEF Left
<1>9. SpansOf(g)' \subseteq SpansOf(g) \cup (DOMAIN spans' \ DOMAIN spans)
  BY <1>1
<1>. QED BY <1>2, <1>7, <1>8, <1>9 DEF Settles

-----------------------------------------------------------------------------
(* The actions.                                                            *)

\* A step that changes nothing but what runs and the response.
LEMMA QuietSettles ==
  ASSUME RInv, NEW g \in Goroutines, UNCHANGED <<enabled, frames, request, ambient, spans, panicked, torn>>,
         response' \in [Goroutines -> {0, 200, 500}],
         NEW m, mode' = [mode EXCEPT ![g] = m],
         m \in {"idle", "run", "panic"} \/ (frames[g] # <<>> /\ m \in {"return", "error"})
  PROVE  Settles(g)
<1>1. Typed
  BY DEF RInv
<1>2. /\ mode' \in [Goroutines -> {"idle", "run", "return", "error", "panic", "recorded"}]
      /\ mode'[g] = m /\ \A h \in Goroutines \ {g} : mode'[h] = mode[h]
  BY <1>1 DEF Typed
<1>3. Typed'
  BY <1>1, <1>2 DEF Typed
<1>4. Possible(g)'
  BY <1>2 DEF Possible
<1>5. \A id \in SpansOf(g) : StaysOpen(id)
  BY StackFacts DEF StaysOpen
<1>6. \A id \in DOMAIN spans \ SpansOf(g) : Spared(g, id)
  BY DEF Spared
<1>. QED BY <1>2, <1>3, <1>4, <1>5, <1>6, Within

\* A layer that opens a span takes a new one.
LEMMA EnterTracedSettles ==
  ASSUME RInv, NEW g \in Goroutines, NEW layer \in {"http", "gin", "trace"}, EnterTraced(g, layer)
  PROVE  Settles(g)
<1>. DEFINE id == Len(spans) + 1
            f == [layer |-> layer, span |-> id, context |-> id]
            n == NewSpan(layer)
<1>1. Typed
  BY DEF RInv
<1>2. /\ spans \in Seq(Spans) /\ mode[g] = "run" /\ mode' = mode
      /\ UNCHANGED <<enabled, response, panicked, torn>>
      /\ layer = "gin" => InEngine(g)
      /\ layer = "trace" \/ enabled
  BY <1>1 DEF Typed, EnterTraced, CanEnter, InGin, InEngine
<1>3. SpansOf(g) \subseteq DOMAIN spans /\ Increasing(ambient[g]) /\ Range(ambient[g]) = SpansOf(g)
  BY StackFacts
<1>4. /\ spans' = Append(spans, n) /\ frames' = [frames EXCEPT ![g] = Append(@, f)] /\ Push(g, id)
      /\ request' = IF layer = "gin" THEN [request EXCEPT ![g] = id] ELSE request
  BY DEF EnterTraced
<1>5. n \in Spans /\ n.layer = layer /\ n.error = "none" /\ n.ended = FALSE
  BY DEF NewSpan, Spans
<1>. HIDE DEF n
<1>6. /\ spans' \in Seq(Spans) /\ spans'[id] = n /\ \A j \in DOMAIN spans : spans'[j] = spans[j]
      /\ DOMAIN spans' = DOMAIN spans \cup {id}
      /\ id \in Nat /\ id # 0 /\ id \notin DOMAIN spans /\ \A j \in DOMAIN spans : j \in Nat /\ j < id
  BY <1>2, <1>4, <1>5, NewSpanFacts
<1>. HIDE DEF id
<1>7. f \in Frames /\ f.span = id /\ f.layer = layer /\ f.context = id
  BY <1>6 DEF Frames
<1>. HIDE DEF f
<1>8. \A x \in SpansOf(g) : x < id
  BY <1>3, <1>6
<1>9. /\ ambient' \in [Goroutines -> Seq(Nat)]
      /\ \A h \in Goroutines \ {g} : ambient'[h] = ambient[h]
      /\ Increasing(ambient'[g]) /\ Range(ambient'[g]) = SpansOf(g) \cup {id}
  BY <1>4, <1>6, <1>8, PushFacts
<1>10. frames' \in [Goroutines -> Seq(Frames)]
  <2>1. f.span # 0 => \A x \in SpansOf(g) : x < f.span
    BY <1>7, <1>8
  <2>. QED BY <1>4, <1>7, <2>1, EnterFacts
<1>11. /\ request' \in [Goroutines -> Nat]
       /\ \A h \in Goroutines \ {g} : request'[h] = request[h]
       /\ request'[g] = request[g] \/ (f.layer = "gin" /\ request'[g] = f.span)
  BY <1>1, <1>4, <1>6, <1>7 DEF Typed
<1>12. Typed'
  BY <1>1, <1>2, <1>6, <1>9, <1>10, <1>11 DEF Typed
<1>13. /\ f.span # 0 /\ f.span \notin DOMAIN spans /\ f.layer \in {"http", "gin", "trace"}
       /\ f.layer # "trace" => enabled
       /\ spans'[f.span].layer = f.layer /\ ~spans'[f.span].ended /\ spans'[f.span].error = "none"
       /\ DOMAIN spans' = DOMAIN spans \cup ({f.span} \ {0})
       /\ Range(ambient'[g]) = SpansOf(g) \cup ({f.span} \ {0})
       /\ \A x \in SpansOf(g) : x < f.span
       /\ f.layer = "gin" => InEngine(g)
       /\ f.context = f.span
  BY <1>2, <1>5, <1>6, <1>7, <1>8, <1>9
<1>. QED BY <1>2, <1>4, <1>6, <1>7, <1>9, <1>11, <1>12, <1>13, Entering

\* A layer that guards the user code, or steps aside, opens no span.
LEMMA EnterUntracedSettles ==
  ASSUME RInv, NEW g \in Goroutines, NEW layer \in {"http", "gin", "panic", "capture", "engine"},
         EnterUntraced(g, layer)
  PROVE  Settles(g)
<1>. DEFINE c == ContextSpan(g)
            f == [layer |-> layer, span |-> 0, context |-> c]
<1>1. Typed
  BY DEF RInv
<1>2. /\ mode[g] = "run" /\ frames' = [frames EXCEPT ![g] = Append(@, f)]
      /\ UNCHANGED <<enabled, mode, response, ambient, spans, panicked, torn>>
      /\ layer = "gin" => InEngine(g)
      /\ request' = IF layer = "engine" THEN [request EXCEPT ![g] = c] ELSE request
  BY DEF EnterUntraced, CanEnter, InGin, InEngine
<1>3. SpansOf(g) \subseteq DOMAIN spans /\ Increasing(ambient[g]) /\ Range(ambient[g]) = SpansOf(g)
  BY StackFacts
<1>4. c \in Nat
  BY ContextNat
<1>5. f \in Frames /\ f.span = 0 /\ f.layer = layer /\ f.context = c
  BY <1>4 DEF Frames
<1>. HIDE DEF f
<1>6. /\ request' \in [Goroutines -> Nat]
      /\ \A h \in Goroutines \ {g} : request'[h] = request[h]
      /\ request'[g] = request[g] \/ (f.layer = "engine" /\ request'[g] = c)
  <2>. HIDE DEF c
  <2>. QED BY <1>1, <1>2, <1>4, <1>5 DEF Typed
<1>7. frames' \in [Goroutines -> Seq(Frames)]
  BY <1>2, <1>5, EnterFacts
<1>8. Typed'
  BY <1>1, <1>2, <1>6, <1>7 DEF Typed
<1>9. /\ f.layer = "gin" => InEngine(g)
      /\ f.span = 0 /\ f.context = ContextSpan(g)
      /\ request'[g] = request[g] \/ (f.layer = "engine" /\ request'[g] = ContextSpan(g))
  BY <1>2, <1>5, <1>6
<1>. QED BY <1>2, <1>3, <1>5, <1>6, <1>8, <1>9, Entering

\* Writing an error into a span of g keeps all of its spans open.
LEMMA ErrorWritten ==
  ASSUME RInv, NEW g \in Goroutines, NEW id \in SpansOf(g), NEW r \in Spans,
         spans' = [spans EXCEPT ![id] = r],
         r.layer = spans[id].layer, r.ended = spans[id].ended, r.error \in {"app", "panic"},
         panicked' \subseteq panicked \cup {id}
  PROVE  /\ spans' \in Seq(Spans) /\ DOMAIN spans' = DOMAIN spans /\ spans'[id] = r
         /\ \A j \in DOMAIN spans \ SpansOf(g) : Spared(g, j)
         /\ \A j \in SpansOf(g) : StaysOpen(j)
<1>1. spans \in Seq(Spans)
  BY DEF RInv, Typed
<1>2. \A j \in SpansOf(g) :
        /\ j \in DOMAIN spans /\ ~spans[j].ended /\ spans[j].error # "http"
        /\ j \in panicked => spans[j].error \in {"app", "panic"}
  BY StackFacts
<1>3. id \in DOMAIN spans
  BY <1>2
<1>4. /\ spans' \in Seq(Spans) /\ DOMAIN spans' = DOMAIN spans /\ spans'[id] = r
      /\ \A j \in DOMAIN spans : j # id => spans'[j] = spans[j]
  BY <1>1, <1>3, SpanWrite
<1>5. StaysOpen(id)
  BY <1>2, <1>4 DEF StaysOpen
<1>6. \A j \in SpansOf(g) : j # id => StaysOpen(j)
  BY <1>2, <1>4 DEF StaysOpen
<1>7. \A j \in DOMAIN spans \ SpansOf(g) : Spared(g, j)
  BY <1>4 DEF Spared
<1>. QED BY <1>4, <1>5, <1>6, <1>7

\* Writing one into a span left behind touches no other.
LEMMA BehindWritten ==
  ASSUME RInv, NEW g \in Goroutines, NEW id \in LeftBehind, id \in AtHand(g), NEW r \in Spans,
         spans' = [spans EXCEPT ![id] = r],
         r.layer = spans[id].layer, r.ended = spans[id].ended,
         spans[id].status # 0 => r.status # 0,
         spans[id].error # "none" => r.error = spans[id].error,
         panicked' = panicked
  PROVE  /\ spans' \in Seq(Spans) /\ DOMAIN spans' = DOMAIN spans
         /\ \A j \in DOMAIN spans \ SpansOf(g) : Spared(g, j)
         /\ \A j \in SpansOf(g) : StaysOpen(j)
<1>1. spans \in Seq(Spans)
  BY DEF RInv, Typed
<1>2. \A j \in SpansOf(g) :
        /\ j \in DOMAIN spans /\ ~spans[j].ended /\ spans[j].error # "http"
        /\ j \in panicked => spans[j].error \in {"app", "panic"}
  BY StackFacts
<1>3. id \in DOMAIN spans /\ spans[id].ended
  BY DEF LeftBehind
<1>4. /\ spans' \in Seq(Spans) /\ DOMAIN spans' = DOMAIN spans /\ spans'[id] = r
      /\ \A j \in DOMAIN spans : j # id => spans'[j] = spans[j]
  BY <1>1, <1>3, SpanWrite
<1>5. Spared(g, id)
  BY <1>3, <1>4 DEF Spared, Rewritten
<1>6. \A j \in DOMAIN spans \ SpansOf(g) : j # id => Spared(g, j)
  BY <1>4 DEF Spared
<1>7. \A j \in SpansOf(g) : StaysOpen(j)
  BY <1>2, <1>3, <1>4 DEF StaysOpen
<1>. QED BY <1>4, <1>5, <1>6, <1>7

\* Once an error is in a span of a stack it is one of these.
LEMMA FirstError ==
  ASSUME RInv, NEW g \in Goroutines, NEW id \in SpansOf(g)
  PROVE  /\ id \in DOMAIN spans /\ spans[id] \in Spans
         /\ WithPanic(spans[id]) \in Spans /\ WithPanic(spans[id]).layer = spans[id].layer
         /\ WithPanic(spans[id]).ended = spans[id].ended /\ WithPanic(spans[id]).status = 500
         /\ WithPanic(spans[id]).error \in {"app", "panic"}
         /\ WithError(spans[id], "app") \in Spans
         /\ WithError(spans[id], "app").layer = spans[id].layer
         /\ WithError(spans[id], "app").ended = spans[id].ended
         /\ WithError(spans[id], "app").error \in {"app", "panic"}
<1>1. id \in DOMAIN spans /\ spans[id] \in Spans /\ spans[id].error # "http"
  BY StackFacts
<1>2. spans[id].error \in {"none", "app", "panic"}
  BY <1>1 DEF Spans
<1>3. /\ WithPanic(spans[id]) \in Spans /\ WithPanic(spans[id]).layer = spans[id].layer
      /\ WithPanic(spans[id]).ended = spans[id].ended /\ WithPanic(spans[id]).status = 500
      /\ WithPanic(spans[id]).error \in {"app", "panic"}
  BY <1>1, <1>2, WithPanicFacts
<1>4. /\ WithError(spans[id], "app") \in Spans
      /\ WithError(spans[id], "app").layer = spans[id].layer
      /\ WithError(spans[id], "app").ended = spans[id].ended
      /\ WithError(spans[id], "app").error \in {"app", "panic"}
  BY <1>1, <1>2, WithErrorFacts
<1>. QED BY <1>1, <1>3, <1>4

\* Recording a panic on a span that g has at hand, or on none.
LEMMA PanicRecorded ==
  ASSUME RInv, NEW g \in Goroutines, NEW id,
         id \in SpansOf(g) \cup {0} \/ (id \in LeftBehind /\ id \in AtHand(g)),
         RecordPanic(id)
  PROVE  /\ spans' \in Seq(Spans) /\ DOMAIN spans' = DOMAIN spans /\ panicked' \subseteq DOMAIN spans'
         /\ panicked \subseteq panicked'
         /\ \A j \in DOMAIN spans \ SpansOf(g) : Spared(g, j)
         /\ \A j \in SpansOf(g) : StaysOpen(j)
         /\ id \in SpansOf(g) /\ enabled => spans'[id].status = 500
<1>1. spans \in Seq(Spans) /\ panicked \subseteq DOMAIN spans
  BY DEF RInv, Typed
<1>2. 0 \notin SpansOf(g)
  BY DEF SpansOf
<1>3. CASE id \in SpansOf(g) /\ enabled
  <2>. DEFINE r == WithPanic(spans[id])
  <2>1. /\ id \in DOMAIN spans /\ ~spans[id].ended
        /\ r \in Spans /\ r.layer = spans[id].layer /\ r.ended = spans[id].ended
        /\ r.status = 500 /\ r.error \in {"app", "panic"}
    BY <1>3, StackFacts, FirstError
  <2>2. spans' = [spans EXCEPT ![id] = r] /\ panicked' = panicked \cup {id}
    BY <1>2, <1>3, <2>1 DEF RecordPanic
  <2>. HIDE DEF r
  <2>3. /\ spans' \in Seq(Spans) /\ DOMAIN spans' = DOMAIN spans /\ spans'[id] = r
        /\ \A j \in DOMAIN spans \ SpansOf(g) : Spared(g, j)
        /\ \A j \in SpansOf(g) : StaysOpen(j)
    BY <1>3, <2>1, <2>2, ErrorWritten
  <2>. QED BY <1>1, <2>1, <2>2, <2>3
<1>4. CASE id \notin SpansOf(g) /\ id # 0 /\ enabled
  <2>. DEFINE r == WithPanic(spans[id])
  <2>1. id \in LeftBehind /\ id \in AtHand(g)
    BY <1>4
  <2>2. id \in DOMAIN spans /\ spans[id].ended /\ spans[id] \in Spans
    BY <1>1, <2>1 DEF LeftBehind
  <2>3. /\ r \in Spans /\ r.layer = spans[id].layer /\ r.ended = spans[id].ended /\ r.status # 0
        /\ spans[id].error # "none" => r.error = spans[id].error
    <3>. DEFINE s == spans[id]
    <3>1. s \in Spans /\ r = WithPanic(s)
      BY <2>2
    <3>. HIDE DEF r, s
    <3>2. /\ r \in Spans /\ r.layer = s.layer /\ r.ended = s.ended /\ r.status = 500
          /\ s.error # "none" => r.error = s.error
      BY ONLY <3>1, WithPanicFacts
    <3>3. r.status # 0
      BY ONLY <3>2
    <3>. QED BY <3>2, <3>3 DEF s
  <2>. HIDE DEF r
  <2>4. spans' = [spans EXCEPT ![id] = r] /\ panicked' = panicked
    BY <1>4, <2>2 DEF RecordPanic, r
  <2>5. /\ spans' \in Seq(Spans) /\ DOMAIN spans' = DOMAIN spans
        /\ \A j \in DOMAIN spans \ SpansOf(g) : Spared(g, j)
        /\ \A j \in SpansOf(g) : StaysOpen(j)
    BY <2>1, <2>3, <2>4, BehindWritten
  <2>. QED BY <1>1, <1>4, <2>4, <2>5
<1>5. CASE id = 0 \/ ~enabled
  <2>1. spans' = spans /\ panicked' = panicked
    BY <1>5 DEF RecordPanic
  <2>2. \A j \in SpansOf(g) : StaysOpen(j)
    BY <2>1, StackFacts DEF StaysOpen
  <2>3. \A j \in DOMAIN spans \ SpansOf(g) : Spared(g, j)
    BY <2>1 DEF Spared
  <2>. QED BY <1>1, <1>2, <1>5, <2>1, <2>2, <2>3
<1>. QED BY <1>3, <1>4, <1>5

\* The user code writes an error on the span of its context.
LEMMA RecordAppErrorSettles ==
  ASSUME RInv, NEW g \in Goroutines, RecordAppError(g)
  PROVE  Settles(g)
<1>. DEFINE id == ContextSpan(g)
            r == WithError(spans[id], "app")
<1>1. /\ mode[g] = "run" /\ UNCHANGED <<enabled, frames, request, mode, response, ambient, panicked, torn>>
      /\ id # 0 /\ spans' = [spans EXCEPT ![id] = r]
  BY DEF RecordAppError
<1>2. id \in SpansOf(g) \/ (id \in LeftBehind /\ id \in AtHand(g))
  BY <1>1, Context, AtHandFacts
<1>. HIDE DEF id
<1>3. /\ spans' \in Seq(Spans) /\ DOMAIN spans' = DOMAIN spans
      /\ \A j \in DOMAIN spans \ SpansOf(g) : Spared(g, j)
      /\ \A j \in SpansOf(g) : StaysOpen(j)
  <2>1. CASE id \in SpansOf(g)
    <3>1. /\ r \in Spans /\ r.layer = spans[id].layer /\ r.ended = spans[id].ended
          /\ r.error \in {"app", "panic"}
      BY <2>1, FirstError
    <3>. HIDE DEF r
    <3>2. panicked' \subseteq panicked \cup {id}
      BY <1>1
    <3>. QED BY <1>1, <2>1, <3>1, <3>2, ErrorWritten
  <2>2. CASE id \in LeftBehind /\ id \in AtHand(g)
    <3>1. spans[id] \in Spans
      BY <2>2 DEF RInv, Typed, LeftBehind
    <3>2. /\ r \in Spans /\ r.layer = spans[id].layer /\ r.ended = spans[id].ended
          /\ r.status = spans[id].status
          /\ spans[id].error # "none" => r.error = spans[id].error
      BY <3>1, WithErrorFacts
    <3>. HIDE DEF r
    <3>. QED BY <1>1, <2>2, <3>2, BehindWritten
  <2>. QED BY <1>2, <2>1, <2>2
<1>4. Typed'
  BY <1>1, <1>3 DEF RInv, Typed
<1>5. Possible(g)'
  BY <1>1 DEF Possible
<1>. QED BY <1>1, <1>3, <1>4, <1>5, Within

\* gin records the panic on its own span, which stays open until it re-raises.
LEMMA GinRecordsSettles ==
  ASSUME RInv, NEW g \in Goroutines, GinRecords(g)
  PROVE  Settles(g)
<1>. DEFINE id == Top(g).span
<1>1. /\ frames[g] # <<>> /\ Top(g).layer = "gin" /\ id # 0 /\ RecordPanic(id)
      /\ mode' = [mode EXCEPT ![g] = "recorded"]
      /\ UNCHANGED <<enabled, frames, request, response, ambient, torn>>
  BY DEF GinRecords
<1>2. id \in SpansOf(g) /\ Open(Top(g))
  BY <1>1, TopFacts
<1>3. enabled
  BY <1>1, <1>2 DEF Open
<1>4. /\ spans' \in Seq(Spans) /\ DOMAIN spans' = DOMAIN spans /\ panicked' \subseteq DOMAIN spans'
      /\ panicked \subseteq panicked'
      /\ \A j \in DOMAIN spans \ SpansOf(g) : Spared(g, j)
      /\ \A j \in SpansOf(g) : StaysOpen(j)
      /\ spans'[id].status = 500
  <2>. HIDE DEF id
  <2>. QED BY <1>1, <1>2, <1>3, PanicRecorded
<1>5. Typed
  BY DEF RInv
<1>6. /\ mode' \in [Goroutines -> {"idle", "run", "return", "error", "panic", "recorded"}]
      /\ mode'[g] = "recorded" /\ \A h \in Goroutines \ {g} : mode'[h] = mode[h]
  BY <1>1, <1>5 DEF Typed
<1>7. Typed'
  BY <1>1, <1>4, <1>5, <1>6 DEF Typed
<1>8. Top(g)' = Top(g)
  BY <1>1 DEF Top
<1>9. Possible(g)'
  BY <1>1, <1>4, <1>8 DEF Possible
<1>. QED BY <1>1, <1>4, <1>6, <1>7, <1>9, Within

\* The types of what leaving a layer changes.
LEMMA LeftTyped ==
  ASSUME RInv, NEW g \in Goroutines, frames[g] # <<>>, Leave(g), Pop(g),
         NEW m \in {"run", "panic"}, mode' = [mode EXCEPT ![g] = m]
  PROVE  /\ frames' \in [Goroutines -> Seq(Frames)] /\ request' \in [Goroutines -> Nat]
         /\ ambient' \in [Goroutines -> Seq(Nat)]
         /\ mode' \in [Goroutines -> {"idle", "run", "return", "error", "panic", "recorded"}]
         /\ mode'[g] = m /\ \A h \in Goroutines \ {g} : mode'[h] = mode[h]
<1>1. Typed
  BY DEF RInv
<1>2. /\ mode' \in [Goroutines -> {"idle", "run", "return", "error", "panic", "recorded"}]
      /\ mode'[g] = m /\ \A h \in Goroutines \ {g} : mode'[h] = mode[h]
  BY <1>1 DEF Typed
<1>3. frames' \in [Goroutines -> Seq(Frames)] /\ request' \in [Goroutines -> Nat]
  BY LeaveFacts
<1>4. ambient' \in [Goroutines -> Seq(Nat)]
  BY PopFacts
<1>. QED BY <1>2, <1>3, <1>4

\* Ending the span of the layer that is left.
LEMMA EndedAndLeft ==
  ASSUME RInv, NEW g \in Goroutines, frames[g] # <<>>, Leave(g), Pop(g),
         NEW m \in {"run", "panic"}, mode' = [mode EXCEPT ![g] = m],
         UNCHANGED <<enabled, response, panicked, torn>>,
         Top(g).span # 0, NEW r \in Spans, spans' = [spans EXCEPT ![Top(g).span] = r],
         r.ended, r.layer = spans[Top(g).span].layer, r.layer = "trace" \/ r.status # 0,
         spans[Top(g).span].error # "none" => r.error = spans[Top(g).span].error
  PROVE  Settles(g)
<1>. DEFINE id == Top(g).span
<1>1. Typed
  BY DEF RInv
<1>2. id \in SpansOf(g)
  BY TopFacts
<1>3. \A j \in SpansOf(g) :
        /\ j \in DOMAIN spans /\ spans[j] \in Spans /\ ~spans[j].ended /\ spans[j].error # "http"
        /\ j \in panicked => spans[j].error \in {"app", "panic"}
  BY StackFacts
<1>. HIDE DEF id
<1>4. spans' = [spans EXCEPT ![id] = r]
  BY DEF id
<1>5. /\ spans' \in Seq(Spans) /\ DOMAIN spans' = DOMAIN spans /\ spans'[id] = r
      /\ \A j \in DOMAIN spans : j # id => spans'[j] = spans[j]
  BY <1>1, <1>2, <1>3, <1>4, SpanWrite DEF Typed
<1>6. /\ frames' \in [Goroutines -> Seq(Frames)] /\ request' \in [Goroutines -> Nat]
      /\ ambient' \in [Goroutines -> Seq(Nat)]
      /\ mode' \in [Goroutines -> {"idle", "run", "return", "error", "panic", "recorded"}]
      /\ mode'[g] = m /\ \A h \in Goroutines \ {g} : mode'[h] = mode[h]
  BY LeftTyped
<1>7. Typed'
  BY <1>1, <1>5, <1>6 DEF Typed
<1>8. \A j \in SpansOf(g) \ {id} : StaysOpen(j)
  BY <1>3, <1>5 DEF StaysOpen
<1>9. id \in panicked => r.error \in {"app", "panic"}
  <2>1. id \in panicked => spans[id].error \in {"app", "panic"}
    BY <1>2, <1>3
  <2>. QED BY <2>1 DEF id
<1>10. \A j \in {Top(g).span} \ {0} : Fine(j)' /\ spans'[j].layer = spans[j].layer
  <2>1. ASSUME NEW j, j = id PROVE Fine(j)' /\ spans'[j].layer = spans[j].layer
    <3>1. r.layer = spans[id].layer
      BY DEF id
    <3>. QED BY <1>5, <1>9, <2>1, <3>1 DEF Fine
  <2>. QED BY <2>1 DEF id
<1>11. \A j \in SpansOf(g) \ {Top(g).span} : StaysOpen(j)
  BY <1>8 DEF id
<1>12. \A j \in DOMAIN spans \ SpansOf(g) : Spared(g, j)
  BY <1>2, <1>5 DEF Spared
<1>. QED BY <1>5, <1>6, <1>7, <1>10, <1>11, <1>12, Leaving

\* A layer returns: its span is ended with what it returns.
LEMMA EpilogueSettles ==
  ASSUME RInv, NEW g \in Goroutines, Epilogue(g)
  PROVE  Settles(g)
<1>. DEFINE id == Top(g).span
            r == IF spans[id].layer = "trace" THEN CloseTrace(g, spans[id]) ELSE CloseRequest(g, spans[id])
<1>1. /\ mode[g] \in {"return", "error"} /\ Pop(g) /\ Leave(g)
      /\ mode' = [mode EXCEPT ![g] = "run"] /\ UNCHANGED <<enabled, response, panicked, torn>>
      /\ id = 0 => spans' = spans
      /\ id # 0 => spans' = [spans EXCEPT ![id] = r]
  BY DEF Epilogue
<1>2. Typed /\ Stack(g)
  BY DEF RInv
<1>3. frames[g] # <<>>
  BY <1>1, <1>2 DEF Stack, Possible
<1>4. CASE id # 0
  <2>1. id \in SpansOf(g)
    BY <1>3, <1>4, TopFacts
  <2>. DEFINE f == spans[id]
  <2>2. f \in Spans
    BY <2>1, StackFacts
  <2>3. response \in [Goroutines -> {0, 200, 500}]
    BY <1>2 DEF Typed
  <2>4. r = IF f.layer = "trace" THEN CloseTrace(g, f) ELSE CloseRequest(g, f)
    OBVIOUS
  <2>5. /\ r \in Spans /\ r.layer = spans[id].layer /\ r.ended
        /\ spans[id].layer = "trace" \/ r.status # 0
        /\ spans[id].error # "none" => r.error = spans[id].error
    <3>. HIDE DEF r, f
    <3>1. /\ r \in Spans /\ r.layer = f.layer /\ r.ended
          /\ f.layer = "trace" \/ r.status # 0
          /\ f.error # "none" => r.error = f.error
      BY <2>2, <2>3, <2>4, CloseFacts
    <3>. QED BY <3>1 DEF f
  <2>. HIDE DEF r
  <2>6. r.layer = "trace" \/ r.status # 0
    BY <2>5
  <2>. QED BY <1>1, <1>3, <1>4, <2>5, <2>6, EndedAndLeft
<1>5. CASE id = 0
  <2>1. /\ frames' \in [Goroutines -> Seq(Frames)] /\ request' \in [Goroutines -> Nat]
        /\ ambient' \in [Goroutines -> Seq(Nat)]
        /\ mode' \in [Goroutines -> {"idle", "run", "return", "error", "panic", "recorded"}]
        /\ mode'[g] = "run" /\ \A h \in Goroutines \ {g} : mode'[h] = mode[h]
    BY <1>1, <1>3, LeftTyped
  <2>2. spans' = spans
    BY <1>1, <1>5
  <2>3. Typed'
    BY <1>1, <1>2, <2>1, <2>2 DEF Typed
  <2>4. \A j \in SpansOf(g) : StaysOpen(j)
    BY <1>1, <2>2, StackFacts DEF StaysOpen
  <2>5. \A j \in DOMAIN spans \ SpansOf(g) : Spared(g, j)
    BY <1>1, <2>2 DEF Spared
  <2>. QED BY <1>1, <1>3, <1>5, <2>1, <2>2, <2>3, <2>4, <2>5, Leaving
<1>. QED BY <1>4, <1>5

\* A panic passes a layer: its frame goes, its span stays as it is.
LEMMA UnwindSettles ==
  ASSUME RInv, NEW g \in Goroutines, Unwind(g)
  PROVE  Settles(g)
<1>1. /\ mode[g] = "panic" /\ frames[g] # <<>> /\ Pop(g) /\ Leave(g)
      /\ Top(g).layer \in {"http", "trace", "engine"} \/ (Top(g).layer = "gin" /\ Top(g).span = 0)
      /\ torn' = torn \cup ({Top(g).span} \ {0})
      /\ UNCHANGED <<enabled, mode, response, spans, panicked>>
  BY DEF Unwind
<1>2. Typed
  BY DEF RInv
<1>3. /\ Top(g).span # 0 => Top(g).span \in SpansOf(g)
      /\ Open(Top(g))
  BY <1>1, TopFacts
<1>4. /\ frames' \in [Goroutines -> Seq(Frames)] /\ request' \in [Goroutines -> Nat]
      /\ ambient' \in [Goroutines -> Seq(Nat)]
  BY <1>1, LeaveFacts, PopFacts
<1>5. torn' \subseteq DOMAIN spans
  BY <1>1, <1>2, <1>3, StackFacts DEF Typed
<1>6. Typed'
  BY <1>1, <1>2, <1>4, <1>5 DEF Typed
<1>7. \A j \in SpansOf(g) \ {Top(g).span} : StaysOpen(j)
  BY <1>1, StackFacts DEF StaysOpen
<1>8. ASSUME NEW j, j = Top(g).span, j # 0 PROVE Fine(j)'
  <2>1. ~spans[j].ended /\ spans[j].layer = Top(g).layer
    BY <1>3, <1>8 DEF Open
  <2>. QED BY <1>1, <1>8, <2>1 DEF Fine
<1>9. \A j \in {Top(g).span} \ {0} : Fine(j)' /\ spans'[j].layer = spans[j].layer
  BY <1>1, <1>8
<1>10. \A j \in DOMAIN spans \ SpansOf(g) : Spared(g, j)
  BY <1>1 DEF Spared
<1>11. torn \subseteq torn' /\ panicked \subseteq panicked' /\ mode'[g] \in {"run", "panic"}
  BY <1>1
<1>. QED BY <1>1, <1>6, <1>7, <1>9, <1>10, <1>11, Leaving

\* gin ends its span and re-raises the panic.
LEMMA GinRepanicsSettles ==
  ASSUME RInv, NEW g \in Goroutines, GinRepanics(g)
  PROVE  Settles(g)
<1>. DEFINE id == Top(g).span
            r == Ended(spans[id])
<1>1. /\ mode[g] = "recorded" /\ Pop(g) /\ Leave(g) /\ mode' = [mode EXCEPT ![g] = "panic"]
      /\ UNCHANGED <<enabled, response, panicked, torn>>
      /\ spans' = [spans EXCEPT ![id] = r]
  BY DEF GinRepanics, Ended
<1>2. Stack(g)
  BY DEF RInv
<1>3. frames[g] # <<>> /\ id # 0 /\ spans[id].status # 0
  BY <1>1, <1>2 DEF Stack, Possible
<1>4. id \in SpansOf(g)
  BY <1>3, TopFacts
<1>5. spans[id] \in Spans
  BY <1>4, StackFacts
<1>6. /\ r \in Spans /\ r.layer = spans[id].layer /\ r.ended /\ r.status # 0
      /\ r.error = spans[id].error
  BY <1>3, <1>5, EndFacts
<1>. HIDE DEF r
<1>. QED BY <1>1, <1>3, <1>6, EndedAndLeft

\* PanicMiddleware and CapturePanic have no span to pop.
LEMMA GuardHasNoSpan ==
  ASSUME RInv, NEW g \in Goroutines, frames[g] # <<>>, Top(g).layer \in {"panic", "capture"},
         ambient' = ambient
  PROVE  Top(g).span = 0 /\ Pop(g)
<1>1. Top(g).span = 0
  BY TopFacts DEF Open
<1>. QED BY <1>1 DEF Pop

\* The span of the context they were given is at hand.
LEMMA TopContext ==
  ASSUME RInv, NEW g \in Goroutines, frames[g] # <<>>
  PROVE  \/ Top(g).context \in SpansOf(g) \cup {0}
         \/ Top(g).context \in LeftBehind /\ Top(g).context \in AtHand(g)
<1>1. Len(frames[g]) \in DOMAIN frames[g]
  BY StackFacts, EmptySeq
<1>2. Top(g).context \in AtHand(g)
  BY <1>1 DEF Top, AtHand
<1>. QED BY <1>2, AtHandFacts

\* PanicMiddleware records the panic on the span of its request, and recovers.
LEMMA PanicMiddlewareRecoversSettles ==
  ASSUME RInv, NEW g \in Goroutines, PanicMiddlewareRecovers(g)
  PROVE  Settles(g)
<1>. DEFINE id == Top(g).context
<1>1. /\ frames[g] # <<>> /\ Top(g).layer = "panic" /\ RecordPanic(id) /\ Leave(g)
      /\ response' = [response EXCEPT ![g] = IF @ = 0 THEN 500 ELSE @]
      /\ mode' = [mode EXCEPT ![g] = "run"]
      /\ UNCHANGED <<enabled, ambient, torn>>
  BY DEF PanicMiddlewareRecovers
<1>2. Typed
  BY DEF RInv
<1>3. Top(g).span = 0 /\ Pop(g)
  BY <1>1, GuardHasNoSpan
<1>4. id \in SpansOf(g) \cup {0} \/ (id \in LeftBehind /\ id \in AtHand(g))
  BY <1>1, TopContext
<1>. HIDE DEF id
<1>5. /\ spans' \in Seq(Spans) /\ DOMAIN spans' = DOMAIN spans /\ panicked' \subseteq DOMAIN spans'
      /\ panicked \subseteq panicked'
      /\ \A j \in DOMAIN spans \ SpansOf(g) : Spared(g, j)
      /\ \A j \in SpansOf(g) : StaysOpen(j)
  BY <1>1, <1>4, PanicRecorded
<1>6. /\ frames' \in [Goroutines -> Seq(Frames)] /\ request' \in [Goroutines -> Nat]
      /\ ambient' \in [Goroutines -> Seq(Nat)]
      /\ mode' \in [Goroutines -> {"idle", "run", "return", "error", "panic", "recorded"}]
      /\ mode'[g] = "run" /\ \A h \in Goroutines \ {g} : mode'[h] = mode[h]
  BY <1>1, <1>3, LeftTyped
<1>7. response' \in [Goroutines -> {0, 200, 500}]
  BY <1>1, <1>2 DEF Typed
<1>8. Typed'
  BY <1>1, <1>2, <1>5, <1>6, <1>7 DEF Typed
<1>. QED BY <1>1, <1>3, <1>5, <1>6, <1>8, Leaving

\* CapturePanic records on the span of its context, or on a span of its own that it ends.
LEMMA CaptureRecordsSettles ==
  ASSUME RInv, NEW g \in Goroutines, CaptureRecords(g)
  PROVE  Settles(g)
<1>. DEFINE id == Top(g).context
            n == Ended(WithPanic(NewSpan("crash")))
<1>1. /\ mode[g] = "panic" /\ frames[g] # <<>> /\ Top(g).layer = "capture" /\ Leave(g)
      /\ IF id # 0 \/ ~enabled THEN RecordPanic(id) ELSE spans' = Append(spans, n) /\ panicked' = panicked
      /\ UNCHANGED <<enabled, mode, response, ambient, torn>>
  BY DEF CaptureRecords, Ended
<1>2. Typed
  BY DEF RInv
<1>3. Top(g).span = 0 /\ Pop(g)
  BY <1>1, GuardHasNoSpan
<1>4. id \in SpansOf(g) \cup {0} \/ (id \in LeftBehind /\ id \in AtHand(g))
  BY <1>1, TopContext
<1>5. n \in Spans /\ n.layer = "crash" /\ n.ended /\ n.status = 500
  <2>. DEFINE s == NewSpan("crash")
              w == WithPanic(s)
  <2>1. s \in Spans /\ s.layer = "crash"
    BY DEF NewSpan, Spans
  <2>. HIDE DEF s
  <2>2. w \in Spans /\ w.layer = "crash" /\ w.status = 500
    BY <2>1, WithPanicFacts
  <2>. HIDE DEF w
  <2>3. Ended(w) \in Spans /\ Ended(w).layer = "crash" /\ Ended(w).ended /\ Ended(w).status = 500
    BY <2>2, EndFacts
  <2>. QED BY <2>3 DEF w, s
<1>. HIDE DEF id, n
<1>6. /\ frames' \in [Goroutines -> Seq(Frames)] /\ request' \in [Goroutines -> Nat]
      /\ ambient' \in [Goroutines -> Seq(Nat)]
  BY <1>1, <1>3, LeaveFacts, PopFacts
<1>7. mode'[g] = "panic"
  BY <1>1
<1>8. CASE id # 0 \/ ~enabled
  <2>1. RecordPanic(id)
    BY <1>1, <1>8
  <2>2. /\ spans' \in Seq(Spans) /\ DOMAIN spans' = DOMAIN spans /\ panicked' \subseteq DOMAIN spans'
        /\ panicked \subseteq panicked'
        /\ \A j \in DOMAIN spans \ SpansOf(g) : Spared(g, j)
        /\ \A j \in SpansOf(g) : StaysOpen(j)
    BY <1>1, <1>4, <2>1, PanicRecorded
  <2>3. Typed'
    BY <1>1, <1>2, <1>6, <2>2 DEF Typed
  <2>. QED BY <1>1, <1>3, <1>7, <2>2, <2>3, Leaving
<1>9. CASE ~(id # 0 \/ ~enabled)
  <2>. DEFINE k == Len(spans) + 1
  <2>1. spans' = Append(spans, n) /\ panicked' = panicked
    BY <1>1, <1>9
  <2>2. spans \in Seq(Spans) /\ panicked \subseteq DOMAIN spans
    BY <1>2 DEF Typed
  <2>3. /\ spans' \in Seq(Spans) /\ spans'[k] = n /\ \A j \in DOMAIN spans : spans'[j] = spans[j]
        /\ DOMAIN spans' = DOMAIN spans \cup {k}
        /\ k # 0 /\ k \notin DOMAIN spans
    BY <1>5, <2>1, <2>2, NewSpanFacts
  <2>. HIDE DEF k
  <2>4. Typed'
    BY <1>1, <1>2, <1>6, <2>1, <2>3 DEF Typed
  <2>5. \A j \in SpansOf(g) : StaysOpen(j)
    BY <2>1, <2>3, StackFacts DEF StaysOpen
  <2>6. ASSUME NEW j \in DOMAIN spans' \ DOMAIN spans PROVE Fine(j)'
    <3>1. j = k /\ j \notin panicked'
      BY <2>1, <2>2, <2>3
    <3>2. spans'[j].layer = "crash" /\ spans'[j].status = 500
      BY <1>5, <2>3, <3>1
    <3>. QED BY <3>1, <3>2 DEF Fine
  <2>7. \A j \in DOMAIN spans \ SpansOf(g) : Spared(g, j)
    BY <2>1, <2>3 DEF Spared
  <2>8. DOMAIN spans \subseteq DOMAIN spans'
    BY <2>3
  <2>. QED BY <1>1, <1>3, <1>7, <2>1, <2>4, <2>5, <2>6, <2>7, <2>8, Leaving
<1>. QED BY <1>8, <1>9

-----------------------------------------------------------------------------
(* The invariant of the layers.                                            *)

\* No layer is entered yet.
LEMMA RequestInit == Init => RInv
<1>. SUFFICES ASSUME Init PROVE RInv
  OBVIOUS
<1>1. spans = <<>> /\ DOMAIN spans = {} /\ panicked = {} /\ torn = {} /\ enabled \in BOOLEAN
  BY DEF Init
<1>2. \A g \in Goroutines :
        frames[g] = <<>> /\ ambient[g] = <<>> /\ mode[g] = "idle" /\ request[g] = 0
        /\ DOMAIN frames[g] = {} /\ DOMAIN ambient[g] = {}
  BY DEF Init
<1>3. Typed
  BY <1>1 DEF Init, Typed
<1>4. \A g \in Goroutines : SpansOf(g) = {} /\ Range(ambient[g]) = {}
  BY <1>2 DEF SpansOf, Range
<1>5. \A g \in Goroutines : Stack(g)
  BY <1>2, <1>4 DEF Stack, Possible, Rising, Increasing, Handed, Requested
<1>6. Private
  BY <1>4 DEF Private
<1>. QED BY <1>1, <1>3, <1>5, <1>6 DEF RInv

\* Every step of a goroutine in its layers settles.
LEMMA RequestSettles ==
  ASSUME RInv, NEW g \in Goroutines, RequestStep(g)
  PROVE  Settles(g)
<1>1. Typed
  BY DEF RInv
<1>2. CASE Begin(g)
  <2>1. /\ mode' = [mode EXCEPT ![g] = "run"] /\ response' \in [Goroutines -> {0, 200, 500}]
        /\ UNCHANGED <<enabled, frames, request, ambient, spans, panicked, torn>>
    BY <1>1, <1>2 DEF Begin, Typed
  <2>. QED BY <2>1, QuietSettles
<1>3. ASSUME NEW layer \in {"http", "gin", "trace"}, EnterTraced(g, layer) PROVE Settles(g)
  BY <1>3, EnterTracedSettles
<1>4. ASSUME NEW layer \in {"http", "gin", "panic", "capture", "engine"}, EnterUntraced(g, layer)
      PROVE  Settles(g)
  BY <1>4, EnterUntracedSettles
<1>5. CASE WriteHeader(g)
  <2>1. PICK code \in {200, 500} : response' = [response EXCEPT ![g] = code]
    BY <1>5 DEF WriteHeader
  <2>2. response' \in [Goroutines -> {0, 200, 500}]
    BY <1>1, <2>1 DEF Typed
  <2>3. mode' = [mode EXCEPT ![g] = "run"] /\ UNCHANGED <<enabled, frames, request, ambient, spans, panicked, torn>>
    BY <1>1, <1>5 DEF WriteHeader, Typed
  <2>. QED BY <2>2, <2>3, QuietSettles
<1>6. CASE RecordAppError(g)
  BY <1>6, RecordAppErrorSettles
<1>7. CASE Leaves(g)
  <2>1. PICK how \in {"return", "error", "panic"} : mode' = [mode EXCEPT ![g] = how]
    BY <1>7 DEF Leaves
  <2>2. /\ frames[g] # <<>> /\ response' \in [Goroutines -> {0, 200, 500}]
        /\ UNCHANGED <<enabled, frames, request, ambient, spans, panicked, torn>>
    BY <1>1, <1>7 DEF Leaves, Typed
  <2>. QED BY <2>1, <2>2, QuietSettles
<1>8. CASE Finish(g)
  <2>1. /\ mode' = [mode EXCEPT ![g] = "idle"] /\ response' \in [Goroutines -> {0, 200, 500}]
        /\ UNCHANGED <<enabled, frames, request, ambient, spans, panicked, torn>>
    BY <1>1, <1>8 DEF Finish, Typed
  <2>. QED BY <2>1, QuietSettles
<1>9. CASE Epilogue(g)
  BY <1>9, EpilogueSettles
<1>10. CASE Unwind(g)
  BY <1>10, UnwindSettles
<1>11. CASE GinRecords(g)
  BY <1>11, GinRecordsSettles
<1>12. CASE GinRepanics(g)
  BY <1>12, GinRepanicsSettles
<1>13. CASE PanicMiddlewareRecovers(g)
  BY <1>13, PanicMiddlewareRecoversSettles
<1>14. CASE CaptureRecords(g)
  BY <1>14, CaptureRecordsSettles
<1>15. CASE RecoveryRecovers(g)
  <2>1. /\ mode' = [mode EXCEPT ![g] = "run"] /\ response' \in [Goroutines -> {0, 200, 500}]
        /\ UNCHANGED <<enabled, frames, request, ambient, spans, panicked, torn>>
    BY <1>1, <1>15 DEF RecoveryRecovers, Typed
  <2>. QED BY <2>1, QuietSettles
<1>. QED BY <1>2, <1>3, <1>4, <1>5, <1>6, <1>7, <1>8, <1>9, <1>10, <1>11, <1>12, <1>13, <1>14,
         <1>15 DEF RequestStep

\* A step that changes nothing, or enables the SDK.
LEMMA EnableKeeps ==
  ASSUME RInv, Enable \/ UNCHANGED vars
  PROVE  RInv'
<1>1. /\ enabled' = TRUE \/ enabled' = enabled
      /\ UNCHANGED <<frames, request, mode, response, ambient, spans, panicked, torn>>
  BY DEF Enable, vars
<1>2. Typed'
  BY <1>1 DEF RInv, Typed
<1>3. \A g \in Goroutines : SpansOf(g)' = SpansOf(g)
  BY <1>1 DEF SpansOf
<1>4. ASSUME NEW g \in Goroutines PROVE Stack(g)'
  <2>1. Stack(g)
    BY DEF RInv
  <2>2. ASSUME NEW i \in DOMAIN frames[g] PROVE Open(frames[g][i])'
    BY <1>1, <2>1 DEF Stack, Open
  <2>3. Possible(g)'
    BY <1>1, <2>1 DEF Stack, Possible, Top
  <2>4. Handed(g)'
    BY <1>1, <2>1 DEF Stack, Handed, LeftBehind
  <2>. QED BY <1>1, <1>3, <2>1, <2>2, <2>3, <2>4 DEF Stack
<1>5. Private'
  BY <1>3 DEF RInv, Private
<1>6. OpenSpans' = OpenSpans
  BY <1>3 DEF OpenSpans
<1>7. \A id \in DOMAIN spans' \ OpenSpans' : Fine(id)'
  BY <1>1, <1>6 DEF RInv, Fine
<1>. QED BY <1>2, <1>4, <1>5, <1>7 DEF RInv

-----------------------------------------------------------------------------
(* The calls.                                                              *)

\* NoCall has no spans and tells nothing.
LEMMA NoCallOK ==
  ASSUME NEW context
  PROVE  CallOK(NoCall, context) /\ NoCall \in Calls
<1>1. NoCall \in Calls
  BY DEF NoCall, Calls
<1>2. /\ NoCall.api = "none" /\ NoCall.via = "none" /\ NoCall.result = "none"
      /\ NoCall.opened = <<>> /\ DOMAIN NoCall.opened = {}
  BY DEF NoCall
<1>. QED BY <1>1, <1>2 DEF CallOK, ViaOK, Joins

\* The fields of a call.
LEMMA CallFields ==
  ASSUME NEW c \in Calls
  PROVE  /\ c.api \in APIs \cup {"none"} /\ c.caps \in SUBSET {"conn", "stmt"}
         /\ c.via \in {"none", "hook", "conn", "stmt"} /\ c.tries \in Nat /\ c.on \in BOOLEAN
         /\ c.result \in {"none", "ok", "error", "failed", "notfound"} /\ c.opened \in Seq(Clients)
BY DEF Calls

\* What the wrappers and database/sql write of a call, one field at a time.
LEMMA FirstTry ==
  ASSUME NEW api \in APIs, NEW caps \in SUBSET {"conn", "stmt"},
         NEW b, b = [[[NoCall EXCEPT !.api = api] EXCEPT !.caps = caps] EXCEPT !.tries = 1]
  PROVE  /\ b \in Calls /\ b.api \in APIs /\ b.via = "none" /\ b.result = "none" /\ b.opened = <<>>
<1>. DEFINE d == [NoCall EXCEPT !.api = api]
            e == [d EXCEPT !.caps = caps]
            f == [e EXCEPT !.tries = 1]
<1>1. NoCall \in Calls
  BY NoCallOK
<1>2. NoCall.via = "none" /\ NoCall.result = "none" /\ NoCall.opened = <<>>
  BY DEF NoCall
<1>3. d \in Calls /\ d.api = api /\ d.via = "none" /\ d.result = "none" /\ d.opened = <<>>
  BY <1>1, <1>2 DEF Calls
<1>. HIDE DEF d
<1>4. e \in Calls /\ e.api = api /\ e.via = "none" /\ e.result = "none" /\ e.opened = <<>>
  BY <1>3 DEF Calls
<1>. HIDE DEF e
<1>5. f \in Calls /\ f.api = api /\ f.via = "none" /\ f.result = "none" /\ f.opened = <<>>
  BY <1>4 DEF Calls
<1>6. b = f
  BY DEF d, e
<1>. QED BY <1>5, <1>6

\* Writing one field of a call leaves the others: where it goes through,
LEMMA WritesVia ==
  ASSUME NEW c \in Calls, NEW v \in {"hook", "conn", "stmt"}, NEW d, d = [c EXCEPT !.via = v]
  PROVE  /\ d \in Calls /\ d.via = v /\ d.api = c.api /\ d.caps = c.caps
         /\ d.result = c.result /\ d.opened = c.opened /\ d.on = c.on
BY DEF Calls

\* its result,
LEMMA WritesResult ==
  ASSUME NEW c \in Calls, NEW r \in {"ok", "error", "failed", "notfound"},
         NEW d, d = [c EXCEPT !.result = r]
  PROVE  /\ d \in Calls /\ d.via = c.via /\ d.api = c.api /\ d.caps = c.caps
         /\ d.result = r /\ d.opened = c.opened /\ d.on = c.on
BY DEF Calls

\* its tries,
LEMMA WritesTries ==
  ASSUME NEW c \in Calls, NEW d, d = [c EXCEPT !.tries = @ + 1]
  PROVE  /\ d \in Calls /\ d.via = c.via /\ d.api = c.api /\ d.caps = c.caps
         /\ d.result = c.result /\ d.opened = c.opened /\ d.on = c.on
BY DEF Calls

\* the spans it opened,
LEMMA WritesOpened ==
  ASSUME NEW c \in Calls, NEW o \in Seq(Clients), NEW d, d = [c EXCEPT !.opened = o]
  PROVE  /\ d \in Calls /\ d.via = c.via /\ d.api = c.api /\ d.caps = c.caps
         /\ d.result = c.result /\ d.opened = o /\ d.on = c.on
BY DEF Calls

\* and whether it saw the SDK enabled.
LEMMA WritesOn ==
  ASSUME NEW c \in Calls, NEW b \in BOOLEAN, NEW d, d = [c EXCEPT !.on = b]
  PROVE  /\ d \in Calls /\ d.via = c.via /\ d.api = c.api /\ d.caps = c.caps
         /\ d.result = c.result /\ d.opened = c.opened /\ d.on = b
BY DEF Calls

\* An attempt begins with an open span, the only one, if the SDK is enabled.
LEMMA OpenedOK ==
  ASSUME NEW g \in Goroutines, enabled \in BOOLEAN, ContextSpan(g) \in Nat,
         NEW c, Between(c, ContextSpan(g))
  PROVE  CallOK(Opened(g, c), ContextSpan(g)) /\ Opened(g, c) \in Calls
<1>. DEFINE x == ContextSpan(g)
            p == Parent(g, c)
            n == NewClient(p)
            o == IF enabled THEN Append(c.opened, n) ELSE c.opened
            b == c.on /\ enabled
            d1 == [c EXCEPT !.on = b]
            d == [d1 EXCEPT !.opened = o]
<1>1. /\ c \in Calls /\ ViaOK(c) /\ Joins(c, x) /\ c.api \in APIs /\ c.result = "none"
      /\ \A i \in DOMAIN c.opened : c.opened[i].ended /\ c.opened[i].status # 200
  BY DEF Between
<1>2. Opened(g, c) = d
  BY Zenon DEF Opened
<1>3. c.opened \in Seq(Clients) /\ b \in BOOLEAN
  BY <1>1, CallFields
<1>4. p \in Nat /\ (p = x \/ (p = 0 /\ c.api \in {"sql", "stmt"}))
  BY <1>1 DEF Parent, ViaOK
<1>. HIDE DEF p
<1>5. n \in Clients /\ n.parent = p /\ n.ended = FALSE
  BY <1>4 DEF NewClient, Clients
<1>. HIDE DEF n
<1>6. /\ enabled => /\ o \in Seq(Clients) /\ Len(o) = Len(c.opened) + 1 /\ Len(c.opened) \in Nat
                    /\ DOMAIN c.opened = 1..Len(c.opened) /\ DOMAIN o = 1..(Len(c.opened) + 1)
                    /\ o[Len(c.opened) + 1] = n /\ \A i \in 1..Len(c.opened) : o[i] = c.opened[i]
      /\ ~enabled => o = c.opened
  BY <1>3, <1>5, AppendElements
<1>. HIDE DEF o
<1>7. o \in Seq(Clients)
  BY <1>3, <1>6
<1>. HIDE DEF b
<1>8. /\ d1 \in Calls /\ d1.via = c.via /\ d1.api = c.api /\ d1.result = c.result /\ d1.on = b
  BY <1>1, <1>3, WritesOn
<1>. HIDE DEF d1
<1>9. /\ d \in Calls /\ d.via = c.via /\ d.api = c.api
      /\ d.result = c.result /\ d.opened = o /\ d.on = b
  BY <1>7, <1>8, WritesOpened
<1>. HIDE DEF d
<1>10. ASSUME NEW i \in DOMAIN o
       PROVE  \/ i \in DOMAIN c.opened /\ o[i] = c.opened[i]
              \/ enabled /\ i = Len(o) /\ o[i] = n
  <2>1. CASE enabled
    BY <1>6, <2>1
  <2>2. CASE ~enabled
    BY <1>6, <2>2
  <2>. QED BY <2>1, <2>2
<1>11. Joins(d, x)
  BY <1>1, <1>4, <1>5, <1>9, <1>10 DEF Joins
<1>12. Attempting(d)
  <2>1. \A i \in DOMAIN o : o[i].ended => o[i].status # 200
    BY <1>1, <1>5, <1>10
  <2>2. \A i \in DOMAIN o : ~o[i].ended => i = Len(o)
    BY <1>1, <1>10
  <2>3. enabled => o # <<>> /\ ~o[Len(o)].ended
    BY <1>5, <1>6, <1>7, EmptySeq
  <2>4. d.on => enabled
    BY <1>9 DEF b
  <2>. QED BY <1>9, <2>1, <2>2, <2>3, <2>4 DEF Attempting
<1>13. ViaOK(d)
  BY <1>1, <1>9 DEF ViaOK
<1>14. d.result = "none"
  BY <1>1, <1>9
<1>. QED BY <1>2, <1>9, <1>11, <1>12, <1>13, <1>14 DEF CallOK

\* A call that is given up returns an error, and so told its attempts.
LEMMA GivenUp ==
  ASSUME NEW context, NEW c, Between(c, context), NEW d, d = [c EXCEPT !.result = "error"]
  PROVE  CallOK(d, context) /\ d \in Calls
<1>1. /\ c \in Calls /\ ViaOK(c) /\ Joins(c, context)
      /\ \A i \in DOMAIN c.opened : c.opened[i].ended /\ c.opened[i].status # 200
  BY DEF Between
<1>2. /\ d \in Calls /\ d.via = c.via /\ d.api = c.api /\ d.result = "error" /\ d.opened = c.opened
  BY <1>1, WritesResult
<1>3. Returned(d)
  BY <1>1, <1>2 DEF Returned
<1>. QED BY <1>1, <1>2, <1>3 DEF CallOK, ViaOK, Joins

\* A try enters by another way.
LEMMA ViaBetween ==
  ASSUME NEW context, NEW c, Between(c, context), NEW v \in {"hook", "conn", "stmt"},
         v = "conn" => c.api = "sql", v = "stmt" => c.api \in {"sql", "stmt"},
         NEW d, d = [c EXCEPT !.via = v]
  PROVE  Between(d, context)
<1>1. c \in Calls
  BY DEF Between
<1>2. d \in Calls /\ d.via = v /\ d.api = c.api /\ d.result = c.result /\ d.opened = c.opened
  BY <1>1, WritesVia
<1>. QED BY <1>2 DEF Between, ViaOK, Joins

\* A call that prepares a statement is in order.
LEMMA PreparedOK ==
  ASSUME NEW g \in Goroutines, enabled \in BOOLEAN, ContextSpan(g) \in Nat,
         NEW c, Between(c, ContextSpan(g)), c.api \in {"sql", "stmt"}, NEW d \in Prepared(g, c)
  PROVE  CallOK(d, ContextSpan(g)) /\ d \in Calls
<1>. DEFINE e == [c EXCEPT !.via = "stmt"]
<1>1. d = Opened(g, e) \/ d = [c EXCEPT !.result = "error"]
  BY DEF Prepared
<1>2. Between(e, ContextSpan(g))
  BY ViaBetween
<1>. HIDE DEF e
<1>3. CASE d = Opened(g, e)
  BY <1>2, <1>3, OpenedOK
<1>4. CASE d = [c EXCEPT !.result = "error"]
  BY <1>4, GivenUp
<1>. QED BY <1>1, <1>3, <1>4

\* So is one that enters the base driver, directly or by way of a statement.
LEMMA EnteredOK ==
  ASSUME NEW g \in Goroutines, enabled \in BOOLEAN, ContextSpan(g) \in Nat,
         NEW c, Between(c, ContextSpan(g)), NEW d \in Entered(g, c)
  PROVE  CallOK(d, ContextSpan(g)) /\ d \in Calls
<1>1. CASE c.api = "sql" /\ "conn" \notin c.caps
  BY <1>1, PreparedOK DEF Entered
<1>2. CASE ~(c.api = "sql" /\ "conn" \notin c.caps)
  <2>. DEFINE v == IF c.api = "sql" THEN "conn" ELSE IF c.api = "stmt" THEN "stmt" ELSE "hook"
              e == [c EXCEPT !.via = v]
  <2>1. d = Opened(g, e)
    <3>1. CASE c.api = "sql"
      BY <1>2, <3>1 DEF Entered
    <3>2. CASE c.api = "stmt"
      BY <1>2, <3>2 DEF Entered
    <3>3. CASE c.api \notin {"sql", "stmt"}
      BY <1>2, <3>3 DEF Entered, Hooked
    <3>. QED BY <3>1, <3>2, <3>3
  <2>2. v \in {"hook", "conn", "stmt"} /\ (v = "conn" => c.api = "sql")
        /\ (v = "stmt" => c.api \in {"sql", "stmt"})
    OBVIOUS
  <2>. HIDE DEF v
  <2>3. Between(e, ContextSpan(g))
    BY <2>2, ViaBetween
  <2>. HIDE DEF e
  <2>. QED BY <2>1, <2>3, OpenedOK
<1>. QED BY <1>1, <1>2

\* Finishing a span.
LEMMA FinishedFacts ==
  ASSUME NEW api, NEW span \in Clients, NEW outcome, NEW r, r = Finished(api, span, outcome)
  PROVE  /\ r \in Clients /\ r.parent = span.parent /\ r.ended
         /\ outcome \in {"ok", "notfound"} => r.status = 200 /\ ~r.error
         /\ outcome \notin {"ok", "notfound"} => r.status # 200
<1>. DEFINE good == outcome \in {"ok", "notfound", "failed"}
            bad == ~good
            code == IF outcome = "failed" THEN 500 ELSE IF good THEN 200
                    ELSE IF api = "http" THEN 0 ELSE 500
            e == [span EXCEPT !.error = bad]
            f == [e EXCEPT !.ended = TRUE]
            h == [f EXCEPT !.status = code]
<1>1. r = h
  BY Zenon DEF Finished
<1>2. bad \in BOOLEAN /\ code \in {0, 200, 500}
      /\ (outcome \in {"ok", "notfound"} => code = 200 /\ bad = FALSE)
      /\ (outcome \notin {"ok", "notfound"} => code # 200)
  OBVIOUS
<1>. HIDE DEF bad, code
<1>3. e \in Clients /\ e.parent = span.parent /\ e.error = bad
  BY <1>2 DEF Clients
<1>. HIDE DEF e
<1>4. f \in Clients /\ f.parent = e.parent /\ f.error = e.error /\ f.ended = TRUE
  <2>1. f \in Clients
    BY <1>3 DEF Clients
  <2>2. f.parent = e.parent
    BY <1>3 DEF Clients
  <2>3. f.error = e.error
    BY <1>3 DEF Clients
  <2>4. f.ended = TRUE
    BY <1>3 DEF Clients
  <2>. QED BY <2>1, <2>2, <2>3, <2>4
<1>. HIDE DEF f
<1>5. /\ h \in Clients /\ h.parent = f.parent /\ h.error = f.error /\ h.ended = f.ended /\ h.status = code
  <2>1. h \in Clients
    BY <1>2, <1>4 DEF Clients
  <2>2. h.parent = f.parent
    BY <1>4 DEF Clients
  <2>3. h.error = f.error
    BY <1>4 DEF Clients
  <2>4. h.ended = f.ended
    BY <1>4 DEF Clients
  <2>5. h.status = code
    BY <1>4 DEF Clients
  <2>. QED BY <2>1, <2>2, <2>3, <2>4, <2>5
<1>. HIDE DEF h
<1>. QED BY <1>1, <1>2, <1>3, <1>4, <1>5

\* When an attempt is over all the spans of its call are finished; the ones of
\* earlier attempts stay as they are.
LEMMA ClosedFacts ==
  ASSUME NEW c \in Calls, Attempting(c), NEW outcome, NEW d, d = Closed(c, outcome)
  PROVE  /\ d \in Calls /\ d.via = c.via /\ d.api = c.api /\ d.caps = c.caps
         /\ d.result = c.result /\ d.on = c.on
         /\ DOMAIN d.opened = DOMAIN c.opened /\ Len(d.opened) = Len(c.opened)
         /\ \A i \in DOMAIN d.opened :
              /\ d.opened[i].ended /\ d.opened[i].parent = c.opened[i].parent
              /\ \/ c.opened[i].ended /\ d.opened[i].status # 200
                 \/ /\ ~c.opened[i].ended /\ i = Len(c.opened)
                    /\ outcome \in {"ok", "notfound"} => d.opened[i].status = 200 /\ ~d.opened[i].error
                    /\ outcome \notin {"ok", "notfound"} => d.opened[i].status # 200
<1>. DEFINE s == c.opened
            o == [i \in DOMAIN s |-> IF s[i].ended THEN s[i] ELSE Finished(c.api, s[i], outcome)]
<1>1. s \in Seq(Clients)
  BY CallFields
<1>2. d = [c EXCEPT !.opened = o]
  BY DEF Closed
<1>. HIDE DEF s
<1>3. /\ Len(s) \in Nat /\ DOMAIN s = 1..Len(s) /\ \A i \in 1..Len(s) : s[i] \in Clients
  BY <1>1
<1>4. DOMAIN o = 1..Len(s)
  BY <1>3
<1>5. ASSUME NEW i \in 1..Len(s)
      PROVE  /\ o[i] \in Clients /\ o[i].parent = s[i].parent /\ o[i].ended
             /\ s[i].ended => o[i] = s[i]
             /\ ~s[i].ended => /\ outcome \in {"ok", "notfound"} => o[i].status = 200 /\ ~o[i].error
                               /\ outcome \notin {"ok", "notfound"} => o[i].status # 200
  <2>1. s[i] \in Clients
    BY <1>3
  <2>2. CASE s[i].ended
    <3>1. o[i] = s[i]
      BY <1>3, <2>2
    <3>. HIDE DEF o
    <3>. QED BY <2>1, <2>2, <3>1
  <2>3. CASE ~s[i].ended
    <3>. DEFINE f == Finished(c.api, s[i], outcome)
    <3>1. o[i] = f
      BY <1>3, <2>3
    <3>2. /\ f \in Clients /\ f.parent = s[i].parent /\ f.ended
          /\ outcome \in {"ok", "notfound"} => f.status = 200 /\ ~f.error
          /\ outcome \notin {"ok", "notfound"} => f.status # 200
      BY <2>1, FinishedFacts
    <3>. HIDE DEF o, f
    <3>3. /\ o[i] \in Clients /\ o[i].parent = s[i].parent /\ o[i].ended
          /\ outcome \notin {"ok", "notfound"} => o[i].status # 200
      BY <3>1, <3>2
    <3>4. outcome \in {"ok", "notfound"} => o[i].status = 200 /\ ~o[i].error
      BY <3>1, <3>2
    <3>. QED BY <2>3, <3>3, <3>4
  <2>. QED BY <2>2, <2>3
<1>6. o \in Seq(Clients) /\ Len(o) = Len(s)
  <2>1. \A i \in 1..Len(s) : o[i] \in Clients
    BY <1>5
  <2>2. o = [i \in 1..Len(s) |-> o[i]]
    BY <1>3
  <2>. HIDE DEF o
  <2>. QED BY <1>3, <2>1, <2>2
<1>. HIDE DEF o
<1>7. /\ d \in Calls /\ d.via = c.via /\ d.api = c.api /\ d.caps = c.caps
      /\ d.result = c.result /\ d.opened = o /\ d.on = c.on
  BY <1>2, <1>6, WritesOpened
<1>8. ASSUME NEW i \in 1..Len(s)
      PROVE  /\ s[i].ended => s[i].status # 200
             /\ ~s[i].ended => i = Len(s)
  BY <1>3 DEF Attempting, s
<1>9. ASSUME NEW i \in 1..Len(s)
      PROVE  /\ o[i].ended /\ o[i].parent = s[i].parent
             /\ \/ s[i].ended /\ o[i].status # 200
                \/ /\ ~s[i].ended /\ i = Len(s)
                   /\ outcome \in {"ok", "notfound"} => o[i].status = 200 /\ ~o[i].error
                   /\ outcome \notin {"ok", "notfound"} => o[i].status # 200
  <2>1. CASE s[i].ended
    <3>1. o[i] = s[i] /\ o[i].parent = s[i].parent
      BY <1>5, <2>1
    <3>2. o[i].ended /\ o[i].status # 200
      BY <1>8, <2>1, <3>1
    <3>. QED BY <2>1, <3>1, <3>2
  <2>2. CASE ~s[i].ended
    BY <1>5, <1>8, <2>2
  <2>. QED BY <2>1, <2>2
<1>. QED BY <1>3, <1>4, <1>6, <1>7, <1>9 DEF s

\* driver.ErrSkip can only come from a connection, and from nothing else.
LEMMA OutcomeFacts ==
  ASSUME NEW g \in Goroutines, ViaOK(call[g]), NEW outcome \in Outcomes(g)
  PROVE  /\ outcome \in {"ok", "error", "failed", "notfound", "skip", "badconn"}
         /\ outcome = "skip" => call[g].api = "sql"
<1>. DEFINE api == call[g].api
            via == call[g].via
<1>1. (via = "conn" => api = "sql") /\ (via = "stmt" => api \in {"sql", "stmt"})
  BY DEF ViaOK
<1>2. CASE api = "http"
  <2>1. Outcomes(g) = {"ok", "error"} \union {"failed"}
    BY <1>1, <1>2 DEF Outcomes
  <2>. QED BY <2>1
<1>3. CASE api = "gorm"
  <2>1. Outcomes(g) = {"ok", "error"} \union {"notfound"}
    BY <1>1, <1>3 DEF Outcomes
  <2>. QED BY <2>1
<1>4. CASE api \notin {"http", "gorm"} /\ via = "conn"
  <2>1. Outcomes(g) = {"ok", "error"} \union {"skip", "badconn"}
    BY <1>4 DEF Outcomes
  <2>. QED BY <1>1, <1>4, <2>1
<1>5. CASE api \notin {"http", "gorm"} /\ via = "stmt"
  <2>1. Outcomes(g) = {"ok", "error"} \union {"badconn"}
    BY <1>5 DEF Outcomes
  <2>. QED BY <2>1
<1>6. CASE api \notin {"http", "gorm"} /\ via \notin {"conn", "stmt"}
  <2>1. Outcomes(g) = {"ok", "error"} \union {}
    BY <1>6 DEF Outcomes
  <2>. QED BY <2>1
<1>. QED BY <1>2, <1>3, <1>4, <1>5, <1>6

\* An attempt that failed leaves the call where the next may begin.
LEMMA FailedBetween ==
  ASSUME NEW context, NEW c \in Calls, CallOK(c, context), c.api # "none", c.result = "none",
         NEW outcome, outcome \notin {"ok", "notfound"}
  PROVE  Between(Closed(c, outcome), context)
<1>. DEFINE d == Closed(c, outcome)
<1>1. Attempting(c) /\ ViaOK(c) /\ Joins(c, context) /\ c.api \in APIs
  BY CallFields DEF CallOK
<1>2. d = Closed(c, outcome)
  OBVIOUS
<1>. HIDE DEF d
<1>3. /\ d \in Calls /\ d.via = c.via /\ d.api = c.api /\ d.result = c.result
      /\ DOMAIN d.opened = DOMAIN c.opened
      /\ \A i \in DOMAIN d.opened :
           d.opened[i].ended /\ d.opened[i].parent = c.opened[i].parent /\ d.opened[i].status # 200
  BY <1>1, <1>2, ClosedFacts
<1>4. ViaOK(d) /\ Joins(d, context)
  BY <1>1, <1>3 DEF ViaOK, Joins
<1>. QED BY <1>1, <1>2, <1>3, <1>4 DEF Between

\* A call that returns tells what its last attempt did.
LEMMA ResultOK ==
  ASSUME NEW context, NEW c \in Calls, CallOK(c, context), c.api # "none", c.result = "none",
         NEW outcome \in {"ok", "error", "failed", "notfound", "badconn"},
         NEW d, d = [Closed(c, outcome) EXCEPT !.result = IF outcome = "badconn" THEN "error" ELSE outcome]
  PROVE  CallOK(d, context) /\ d \in Calls
<1>. DEFINE e == Closed(c, outcome)
            r == IF outcome = "badconn" THEN "error" ELSE outcome
<1>1. Attempting(c) /\ ViaOK(c) /\ Joins(c, context)
  BY DEF CallOK
<1>2. e = Closed(c, outcome) /\ d = [e EXCEPT !.result = r]
  OBVIOUS
<1>3. /\ r \in {"ok", "error", "failed", "notfound"}
      /\ r \in {"ok", "notfound"} => outcome \in {"ok", "notfound"}
      /\ r \in {"error", "failed"} => outcome \notin {"ok", "notfound"}
  OBVIOUS
<1>. HIDE DEF e, r
<1>4. /\ e \in Calls /\ e.via = c.via /\ e.api = c.api /\ e.on = c.on
      /\ DOMAIN e.opened = DOMAIN c.opened /\ Len(e.opened) = Len(c.opened)
      /\ \A i \in DOMAIN e.opened :
           /\ e.opened[i].ended /\ e.opened[i].parent = c.opened[i].parent
           /\ \/ c.opened[i].ended /\ e.opened[i].status # 200
              \/ /\ ~c.opened[i].ended /\ i = Len(c.opened)
                 /\ outcome \in {"ok", "notfound"} => e.opened[i].status = 200 /\ ~e.opened[i].error
                 /\ outcome \notin {"ok", "notfound"} => e.opened[i].status # 200
  BY <1>1, <1>2, ClosedFacts
<1>5. /\ d \in Calls /\ d.via = e.via /\ d.api = e.api /\ d.result = r /\ d.opened = e.opened /\ d.on = e.on
  BY <1>2, <1>3, <1>4, WritesResult
<1>6. ViaOK(d) /\ Joins(d, context)
  BY <1>1, <1>4, <1>5 DEF ViaOK, Joins
<1>7. \A i \in DOMAIN d.opened : d.opened[i].ended /\ (d.opened[i].error => d.opened[i].status # 200)
  BY <1>4, <1>5
<1>8. r \in {"error", "failed"} => \A i \in DOMAIN d.opened : d.opened[i].status # 200
  BY <1>3, <1>4, <1>5
<1>9. ASSUME r \in {"ok", "notfound"}, d.on
      PROVE  {i \in DOMAIN d.opened : d.opened[i].status = 200} = {Len(d.opened)}
  <2>1. c.opened # <<>> /\ ~c.opened[Len(c.opened)].ended
    BY <1>1, <1>4, <1>5, <1>9 DEF Attempting
  <2>2. Len(c.opened) \in DOMAIN c.opened
    BY <2>1, CallFields, EmptySeq
  <2>3. d.opened[Len(d.opened)].status = 200 /\ Len(d.opened) \in DOMAIN d.opened
    BY <1>3, <1>4, <1>5, <1>9, <2>1, <2>2
  <2>4. \A i \in DOMAIN d.opened : d.opened[i].status = 200 => i = Len(d.opened)
    BY <1>4, <1>5
  <2>. QED BY <2>3, <2>4
<1>10. Returned(d)
  BY <1>5, <1>7, <1>8, <1>9 DEF Returned
<1>11. d.result # "none"
  BY <1>3, <1>5
<1>. QED BY <1>5, <1>6, <1>10, <1>11 DEF CallOK

\* And so is what follows the base driver's answer: the end, a fallback or a retry.
LEMMA FollowedOK ==
  ASSUME NEW g \in Goroutines, enabled \in BOOLEAN, ContextSpan(g) \in Nat,
         call[g] \in Calls, CallOK(call[g], ContextSpan(g)), InBase(g),
         NEW outcome \in Outcomes(g), NEW d \in Followed(g, Closed(call[g], outcome), outcome)
  PROVE  CallOK(d, ContextSpan(g)) /\ d \in Calls
<1>. DEFINE c == call[g]
            e == Closed(c, outcome)
            x == ContextSpan(g)
<1>1. ViaOK(c)
  BY DEF CallOK
<1>2. /\ outcome \in {"ok", "error", "failed", "notfound", "skip", "badconn"}
      /\ outcome = "skip" => c.api = "sql"
  BY <1>1, OutcomeFacts
<1>3. c.api # "none" /\ c.result = "none"
  BY DEF InBase
<1>4. CASE outcome = "skip"
  <2>1. Between(e, x)
    BY <1>3, <1>4, FailedBetween
  <2>2. d \in Prepared(g, e)
    BY <1>4 DEF Followed
  <2>3. e.api = c.api
    BY <1>3, ClosedFacts DEF CallOK
  <2>. HIDE DEF e
  <2>. QED BY <1>2, <1>4, <2>1, <2>2, <2>3, PreparedOK
<1>5. CASE outcome = "badconn" /\ e.tries < MaxTries
  <2>. DEFINE f == [e EXCEPT !.tries = @ + 1]
  <2>1. Between(e, x)
    BY <1>3, <1>5, FailedBetween
  <2>2. d \in Entered(g, f)
    BY <1>5 DEF Followed
  <2>. HIDE DEF e
  <2>3. e \in Calls
    BY <2>1 DEF Between
  <2>4. /\ f \in Calls /\ f.via = e.via /\ f.api = e.api /\ f.result = e.result /\ f.opened = e.opened
    BY <2>3, WritesTries
  <2>. HIDE DEF f
  <2>5. Between(f, x)
    BY <2>1, <2>4 DEF Between, ViaOK, Joins
  <2>. QED BY <2>2, <2>5, EnteredOK
<1>6. CASE outcome # "skip" /\ ~(outcome = "badconn" /\ e.tries < MaxTries)
  <2>1. d = [e EXCEPT !.result = IF outcome = "badconn" THEN "error" ELSE outcome]
    BY <1>6 DEF Followed
  <2>2. outcome \in {"ok", "error", "failed", "notfound", "badconn"}
    BY <1>2, <1>6
  <2>. QED BY <1>3, <2>1, <2>2, ResultOK
<1>. QED BY <1>4, <1>5, <1>6

-----------------------------------------------------------------------------
(* The invariant of layers and calls.                                      *)

\* The context is decided by the frames and c.Request.
LEMMA ContextKept ==
  ASSUME NEW g \in Goroutines, frames'[g] = frames[g], request'[g] = request[g]
  PROVE  ContextSpan(g)' = ContextSpan(g)
BY DEF ContextSpan, HandlesGin, Top

\* A step of one goroutine leaves the calls of the others as they are.
LEMMA CallsKept ==
  ASSUME CInv, NEW g \in Goroutines,
         \A h \in Goroutines \ {g} : frames'[h] = frames[h] /\ request'[h] = request[h] /\ call'[h] = call[h],
         CallOK(call'[g], ContextSpan(g)')
  PROVE  \A h \in Goroutines : CallOK(call'[h], ContextSpan(h)')
<1>1. ASSUME NEW h \in Goroutines \ {g} PROVE CallOK(call'[h], ContextSpan(h)')
  <2>1. call'[h] = call[h] /\ ContextSpan(h)' = ContextSpan(h)
    BY ContextKept
  <2>2. CallOK(call[h], ContextSpan(h))
    BY DEF CInv
  <2>. QED BY <2>1, <2>2
<1>. QED BY <1>1

\* A call moves on; the layers stay, or a panic sets in.
LEMMA CallStep ==
  ASSUME CInv, NEW g \in Goroutines, NEW c \in Calls, call' = [call EXCEPT ![g] = c],
         CallOK(c, ContextSpan(g)), frames' = frames, request' = request
  PROVE  /\ call' \in [Goroutines -> Calls]
         /\ \A h \in Goroutines : CallOK(call'[h], ContextSpan(h)')
<1>1. call \in [Goroutines -> Calls]
  BY DEF CInv
<1>2. call' \in [Goroutines -> Calls] /\ call'[g] = c /\ \A h \in Goroutines \ {g} : call'[h] = call[h]
  BY <1>1
<1>3. ContextSpan(g)' = ContextSpan(g)
  BY ContextKept
<1>4. CallOK(call'[g], ContextSpan(g)')
  BY <1>2, <1>3
<1>. QED BY <1>2, <1>4, CallsKept

\* No call is made yet.
LEMMA ClientInitInv == ClientInit => CInv
<1>. SUFFICES ASSUME ClientInit PROVE CInv
  OBVIOUS
<1>1. RInv
  BY RequestInit DEF ClientInit
<1>2. call = [g \in Goroutines |-> NoCall]
  BY DEF ClientInit
<1>3. call \in [Goroutines -> Calls] /\ \A g \in Goroutines : call[g] = NoCall
  BY <1>2, NoCallOK
<1>4. \A g \in Goroutines : CallOK(call[g], ContextSpan(g))
  BY <1>3, NoCallOK
<1>. QED BY <1>1, <1>3, <1>4 DEF CInv

\* A step of a call: it keeps the invariant, and writes no span of a layer.
LEMMA ClientStepKeeps ==
  ASSUME CInv, NEW g \in Goroutines, ClientStep(g)
  PROVE  CInv' /\ spans' = spans
<1>1. RInv /\ Typed /\ call \in [Goroutines -> Calls] /\ CallOK(call[g], ContextSpan(g))
  BY DEF CInv, RInv
<1>2. enabled \in BOOLEAN /\ ContextSpan(g) \in Nat /\ call[g] \in Calls
  BY <1>1, ContextNat DEF Typed
<1>3. ASSUME NEW c \in Calls, CallOK(c, ContextSpan(g)), call' = [call EXCEPT ![g] = c], UNCHANGED vars
      PROVE  CInv' /\ spans' = spans
  <2>1. frames' = frames /\ request' = request /\ spans' = spans
    BY <1>3 DEF vars
  <2>2. RInv'
    BY <1>1, <1>3, EnableKeeps
  <2>3. /\ call' \in [Goroutines -> Calls]
        /\ \A h \in Goroutines : CallOK(call'[h], ContextSpan(h)')
    BY <1>3, <2>1, CallStep
  <2>. QED BY <2>1, <2>2, <2>3 DEF CInv
<1>4. ASSUME NEW api \in APIs, StartCall(g, api) PROVE CInv' /\ spans' = spans
  <2>. DEFINE all == CASE api = "sql" -> {"conn", "stmt"} [] api = "stmt" -> {"stmt"} [] OTHER -> {}
  <2>1. PICK caps \in SUBSET all :
          \E c \in Entered(g, [NoCall EXCEPT !.api = api, !.caps = caps, !.tries = 1]) :
            call' = [call EXCEPT ![g] = c]
    BY <1>4 DEF StartCall
  <2>2. all \subseteq {"conn", "stmt"}
    <3>1. CASE api = "sql"
      BY <3>1
    <3>2. CASE api = "stmt"
      BY <3>2
    <3>3. CASE api \notin {"sql", "stmt"}
      BY <3>3
    <3>. QED BY <3>1, <3>2, <3>3
  <2>. HIDE DEF all
  <2>. DEFINE b == [NoCall EXCEPT !.api = api, !.caps = caps, !.tries = 1]
  <2>3. PICK c \in Entered(g, b) : call' = [call EXCEPT ![g] = c]
    BY <2>1
  <2>4. b = [[[NoCall EXCEPT !.api = api] EXCEPT !.caps = caps] EXCEPT !.tries = 1]
    BY Zenon
  <2>. HIDE DEF b
  <2>5. Between(b, ContextSpan(g))
    <3>1. /\ b \in Calls /\ b.api \in APIs /\ b.via = "none" /\ b.result = "none" /\ b.opened = <<>>
      BY <2>2, <2>4, FirstTry
    <3>2. DOMAIN b.opened = {}
      BY <3>1
    <3>. QED BY <3>1, <3>2 DEF Between, ViaOK, Joins
  <2>6. CallOK(c, ContextSpan(g)) /\ c \in Calls
    BY <1>2, <2>3, <2>5, EnteredOK
  <2>7. UNCHANGED vars
    BY <1>4 DEF StartCall
  <2>. QED BY <1>3, <2>3, <2>6, <2>7
<1>5. ASSUME NEW outcome \in Outcomes(g), BaseReturns(g, outcome) PROVE CInv' /\ spans' = spans
  <2>1. InBase(g) /\ UNCHANGED vars
    BY <1>5 DEF BaseReturns
  <2>2. PICK c \in Followed(g, Closed(call[g], outcome), outcome) : call' = [call EXCEPT ![g] = c]
    BY <1>5 DEF BaseReturns
  <2>3. CallOK(c, ContextSpan(g)) /\ c \in Calls
    BY <1>1, <1>2, <2>1, FollowedOK
  <2>. QED BY <1>3, <2>1, <2>2, <2>3
<1>6. CASE BasePanics(g)
  <2>1. /\ call' = [call EXCEPT ![g] = NoCall] /\ mode' = [mode EXCEPT ![g] = "panic"]
        /\ UNCHANGED <<enabled, frames, request, response, ambient, spans, panicked, torn>>
    BY <1>6 DEF BasePanics
  <2>2. response' \in [Goroutines -> {0, 200, 500}]
    BY <1>1, <2>1 DEF Typed
  <2>3. Settles(g)
    BY <1>1, <2>1, <2>2, QuietSettles
  <2>4. RInv'
    BY <1>1, <2>3, Settled
  <2>5. /\ call' \in [Goroutines -> Calls]
        /\ \A h \in Goroutines : CallOK(call'[h], ContextSpan(h)')
    BY <2>1, NoCallOK, CallStep
  <2>. QED BY <2>1, <2>4, <2>5 DEF CInv
<1>7. CASE Resume(g)
  BY <1>3, <1>7, NoCallOK DEF Resume
<1>. QED BY <1>4, <1>5, <1>6, <1>7 DEF ClientStep

\* What EndedIsFinal says of a step.
FinalStep ==
  \A id \in DOMAIN spans :
    spans[id].ended /\ spans'[id] # spans[id] =>
      /\ spans[id].layer = "gin"
      /\ \E g \in Goroutines : InEngine(g) /\ id \in AtHand(g)
      /\ spans'[id].ended
      /\ spans[id].error # "none" => spans'[id].error = spans[id].error

\* A step keeps the invariant, and writes an ended span only as FinalStep says.
LEMMA ClientKeeps ==
  ASSUME CInv, [ClientNext]_clientVars
  PROVE  CInv' /\ FinalStep
<1>1. RInv /\ call \in [Goroutines -> Calls]
  BY DEF CInv
<1>2. CASE (Enable /\ UNCHANGED call) \/ UNCHANGED clientVars
  <2>1. /\ Enable \/ UNCHANGED vars
        /\ call' = call
    BY <1>2 DEF clientVars
  <2>2. frames' = frames /\ request' = request /\ spans' = spans
    BY <2>1 DEF Enable, vars
  <2>3. RInv'
    BY <1>1, <2>1, EnableKeeps
  <2>4. \A h \in Goroutines : ContextSpan(h)' = ContextSpan(h)
    BY <2>2, ContextKept
  <2>5. \A h \in Goroutines : CallOK(call[h], ContextSpan(h))'
    BY <2>1, <2>4 DEF CInv
  <2>. QED BY <1>1, <2>1, <2>2, <2>3, <2>5 DEF CInv, FinalStep
<1>3. ASSUME NEW g \in Goroutines, call[g] = NoCall, RequestStep(g), UNCHANGED call
      PROVE  CInv' /\ FinalStep
  <2>1. Settles(g)
    BY <1>1, <1>3, RequestSettles
  <2>2. RInv'
    BY <1>1, <2>1, Settled
  <2>3. \A h \in Goroutines \ {g} : frames'[h] = frames[h] /\ request'[h] = request[h] /\ call'[h] = call[h]
    BY <1>3, <2>1 DEF Settles, Touches
  <2>4. CallOK(call'[g], ContextSpan(g)')
    BY <1>3, NoCallOK
  <2>5. \A h \in Goroutines : CallOK(call'[h], ContextSpan(h)')
    BY <2>3, <2>4, CallsKept
  <2>6. FinalStep
    <3>1. \A id \in SpansOf(g) : ~spans[id].ended
      BY <1>1, StackFacts
    <3>2. \A id \in DOMAIN spans \ SpansOf(g) : spans'[id] = spans[id] \/ Rewritten(g, id)
      BY <2>1 DEF Settles, Touches, Spared
    <3>3. ASSUME NEW id \in LeftBehind, id \in AtHand(g) PROVE InEngine(g)
      <4>1. id \notin SpansOf(g) /\ id # 0
        BY <1>1, <3>1 DEF LeftBehind, RInv, Typed
      <4>. QED BY <1>1, <3>3, <4>1, AtHandFacts
    <3>. QED BY <3>1, <3>2, <3>3 DEF FinalStep, Rewritten, LeftBehind
  <2>. QED BY <1>1, <1>3, <2>2, <2>5, <2>6 DEF CInv
<1>4. ASSUME NEW g \in Goroutines, ClientStep(g)
      PROVE  CInv' /\ FinalStep
  BY <1>4, ClientStepKeeps DEF FinalStep
<1>. QED BY <1>2, <1>3, <1>4 DEF ClientNext

\* The invariant of layers and calls holds in every behaviour.
THEOREM ClientInvariance == ClientSpec => []CInv
<1>1. CInv /\ [ClientNext]_clientVars => CInv'
  BY ClientKeeps
<1>. QED BY ClientInitInv, <1>1, PTL DEF ClientSpec

-----------------------------------------------------------------------------
(* What the invariant says.                                                *)

\* The types, the registry's entries among them the spans started so far.
THEOREM TypeCorrect == ClientSpec => []TypeOK
<1>1. CInv => TypeOK
  <2>. SUFFICES ASSUME RInv PROVE TypeOK
    BY DEF CInv
  <2>1. Typed
    BY DEF RInv
  <2>2. ASSUME NEW g \in Goroutines PROVE ambient[g] \in Seq(DOMAIN spans)
    <3>1. ambient[g] \in Seq(Nat) /\ Range(ambient[g]) = SpansOf(g) /\ SpansOf(g) \subseteq DOMAIN spans
      BY StackFacts
    <3>2. \A i \in DOMAIN ambient[g] : ambient[g][i] \in DOMAIN spans
      BY <3>1 DEF Range
    <3>3. Len(ambient[g]) \in Nat /\ DOMAIN ambient[g] = 1..Len(ambient[g])
          /\ ambient[g] = [i \in 1..Len(ambient[g]) |-> ambient[g][i]]
      BY <3>1
    <3>. QED BY <3>2, <3>3
  <2>3. ambient \in [Goroutines -> Seq(DOMAIN spans)]
    BY <2>1, <2>2 DEF Typed
  <2>4. ASSUME NEW id \in DOMAIN spans, spans[id].ended
        PROVE  spans[id].layer = "trace" \/ spans[id].status # 0
    <3>1. id \notin OpenSpans
      BY <2>4, StackFacts DEF OpenSpans
    <3>. QED BY <2>4, <3>1 DEF RInv, Fine
  <2>5. ASSUME NEW g \in Goroutines PROVE request[g] \in DOMAIN spans \cup {0}
    <3>1. request[g] \in AtHand(g)
      BY DEF AtHand
    <3>. QED BY <3>1, AtHandFacts, StackFacts DEF LeftBehind
  <2>6. request \in [Goroutines -> DOMAIN spans \cup {0}]
    BY <2>1, <2>5 DEF Typed
  <2>. QED BY <2>1, <2>3, <2>4, <2>6 DEF Typed, TypeOK
<1>. QED BY <1>1, ClientInvariance, PTL

\* However panics, early exits and a late Configure interleave, the registry of
\* every goroutine holds the spans around the running code and no other
\* (pushCurrentSpan and popCurrentSpan, logs.go).
THEOREM RegistryExact == ClientSpec => []ActiveSpans
<1>1. CInv => ActiveSpans
  <2>. SUFFICES ASSUME RInv, NEW g \in Goroutines
       PROVE  Range(ambient[g]) = SpansOf(g) /\ Increasing(ambient[g])
    BY DEF CInv, ActiveSpans, Increasing
  <2>. QED BY StackFacts
<1>. QED BY <1>1, ClientInvariance, PTL

\* A span that ends after a panic was recorded on it says so, or tells an error
\* the user code recorded before it (RecordError, trace.go).
THEOREM PanicTold == ClientSpec => []PanicNotMasked
<1>1. CInv => PanicNotMasked
  <2>. SUFFICES ASSUME RInv, NEW id \in panicked, spans[id].ended
       PROVE  spans[id].error \in {"app", "panic"}
    BY DEF CInv, PanicNotMasked
  <2>1. id \in DOMAIN spans
    BY DEF RInv, Typed
  <2>2. id \notin OpenSpans
    BY StackFacts DEF OpenSpans
  <2>. QED BY <2>1, <2>2 DEF RInv, Fine
<1>. QED BY <1>1, ClientInvariance, PTL

\* A request span whose layer is left has shipped, but for one whose Middleware
\* a panic left that nobody inside recovered (Middleware and GinMiddleware,
\* middleware.go; PanicMiddleware, panic.go).
THEOREM RequestSpansShip == ClientSpec => []RequestsShip
<1>1. CInv => RequestsShip
  BY DEF CInv, RInv, Fine, RequestsShip
<1>. QED BY <1>1, ClientInvariance, PTL

\* A span is not written after it shipped, although frames, handlers and the
\* panic path all hold it, but for one that c.Request was left with, by gin code,
\* and an error it shipped with stays (End, trace.go; GinMiddleware, middleware.go).
THEOREM ShippedIsFinal == ClientSpec => EndedIsFinal
<1>1. CInv /\ [ClientNext]_clientVars =>
        [\A id \in DOMAIN spans :
           spans[id].ended /\ spans'[id] # spans[id] =>
             /\ spans[id].layer = "gin"
             /\ \E g \in Goroutines : InEngine(g) /\ id \in AtHand(g)
             /\ spans'[id].ended
             /\ spans[id].error # "none" => spans'[id].error = spans[id].error]_vars
  BY ClientKeeps DEF FinalStep
<1>. QED BY <1>1, ClientInvariance, PTL DEF ClientSpec, EndedIsFinal

\* The spans of a call tell its result, through whatever fallbacks and retries
\* (FinishDBSpan, sqltrace.go; RoundTrip, trace.go).
THEOREM CallsTold == ClientSpec => []ResultTold
<1>1. CInv => ResultTold
  BY DEF CInv, CallOK, Returned, ResultTold
<1>. QED BY <1>1, ClientInvariance, PTL

\* A span of a call joins the trace of the span that the registry names, or
\* starts a trace of its own; in gin, that of a span of its goroutine or of one
\* that c.Request was left with.
THEOREM CallsJoin == ClientSpec => []JoinsAmbientTrace
<1>1. CInv => JoinsAmbientTrace
  <2>. SUFFICES ASSUME CInv, NEW g \in Goroutines, NEW i \in DOMAIN call[g].opened
       PROVE  LET parent == call[g].opened[i].parent
              IN  \/ parent = (IF ambient[g] = <<>> THEN 0 ELSE ambient[g][Len(ambient[g])])
                  \/ parent = 0 /\ call[g].api \in {"sql", "stmt"}
                  \/ /\ InEngine(g)
                     /\ parent # 0 /\ parent \notin SpansOf(g) =>
                          spans[parent].layer = "gin" /\ spans[parent].ended
    BY DEF JoinsAmbientTrace
  <2>1. Joins(call[g], ContextSpan(g)) /\ RInv
    BY DEF CInv, CallOK
  <2>2. CASE ~InEngine(g)
    <3>1. ContextSpan(g) = IF ambient[g] = <<>> THEN 0 ELSE ambient[g][Len(ambient[g])]
      BY <2>1, <2>2, ContextOnTop
    <3>. QED BY <2>1, <3>1 DEF Joins
  <2>3. CASE InEngine(g)
    <3>1. ContextSpan(g) = 0 \/ ContextSpan(g) \in SpansOf(g) \/ ContextSpan(g) \in LeftBehind
      BY <2>1, Context, AtHandFacts
    <3>. QED BY <2>1, <2>3, <3>1 DEF Joins, LeftBehind
  <2>. QED BY <2>2, <2>3
<1>. QED BY <1>1, ClientInvariance, PTL
=============================================================================
