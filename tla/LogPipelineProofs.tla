-------------------------- MODULE LogPipelineProofs --------------------------
(***************************************************************************)
(* LogPipeline, for any number of goroutines and any sizes, and its        *)
(* refinement of BestEffortLog.                                            *)
(***************************************************************************)
EXTENDS LogPipeline, SequenceFacts, FiniteSetTheorems

\* How many lines have left the buffer, by a swap or by an overflow.
Left == accepted - Len(pending)

\* The newest lines of a, as PendingIsNewest says it of the buffer.
Newest(q, a) == \A i \in DOMAIN q : q[i] = a - Len(q) + i

\* Consecutive line numbers.
Run(q) == \A i, j \in DOMAIN q : q[j] - q[i] = j - i

\* Who owns the lines that left the buffer.
Owned ==
  /\ accepted <= MaxLines /\ Left \in Nat
  /\ \A f \in Callers : asked[f] <= accepted
  /\ delivered \subseteq 1..Left
  /\ \A f \in Flushers :
       /\ at[f] # "post" => recs[f] = <<>> /\ attempt[f] = 0
       /\ Run(recs[f])
       /\ Held(f) \subseteq 1..Left
       /\ Held(f) \cap delivered = {}
       /\ \A g \in Flushers \ {f} : Held(f) \cap Held(g) = {}

\* Only a batch that has been tried is on the server before it is settled.
Copies ==
  /\ \A n \in Lines : n > Left => stored[n] = 0
  /\ \A f \in Flushers : \A n \in Held(f) :
       IF n \in Batch(f) THEN stored[n] <= attempt[f] ELSE stored[n] = 0

PInv == TypeOK /\ PendingIsNewest /\ NoLostSignal /\ FlushEmpties /\ Owned /\ Copies /\ AtMostTwice

-----------------------------------------------------------------------------
\* What logLine makes of the buffer q when a lines were accepted before.
Grown(q, a) == Append(q, a + 1)
Shifted(q, a) == Append(Tail(q), a + 1)

\* With one more line at its end the buffer still ends in the newest lines.
LEMMA GrownFacts ==
  ASSUME NEW q \in Seq(Nat), NEW a \in Nat, Newest(q, a)
  PROVE  /\ Grown(q, a) \in Seq(Nat) /\ Newest(Grown(q, a), a + 1)
         /\ Range(Grown(q, a)) \subseteq Range(q) \cup {a + 1}
         /\ Len(Grown(q, a)) = Len(q) + 1
<1>. DEFINE t == Grown(q, a)
<1>0. a + 1 \in Nat /\ Len(q) \in Nat /\ \A i \in 1..Len(q) : q[i] = a - Len(q) + i
  BY QueueDomain DEF Newest
<1>1. /\ t \in Seq(Nat) /\ Len(t) = Len(q) + 1
      /\ t[Len(q) + 1] = a + 1 /\ \A i \in 1..Len(q) : t[i] = q[i]
  BY <1>0, AppendFacts DEF Grown
<1>2. Range(t) = Range(q) \cup {a + 1}
  BY <1>0, RangeAppend DEF Grown
<1>. HIDE DEF t
<1>3. ASSUME NEW i \in 1..Len(t) PROVE t[i] = a + 1 - Len(t) + i
  <2>1. CASE i = Len(q) + 1
    BY <1>0, <1>1, <2>1
  <2>2. CASE i \in 1..Len(q)
    BY <1>0, <1>1, <2>2
  <2>. QED BY <1>0, <1>1, <2>1, <2>2
<1>4. Newest(t, a + 1)
  BY <1>1, <1>3, QueueDomain DEF Newest
<1>. QED BY <1>1, <1>2, <1>4 DEF t

\* And when its first line is shifted out.
LEMMA ShiftedFacts ==
  ASSUME NEW q \in Seq(Nat), NEW a \in Nat, Newest(q, a), q # <<>>
  PROVE  /\ Shifted(q, a) \in Seq(Nat) /\ Newest(Shifted(q, a), a + 1)
         /\ Range(Shifted(q, a)) \subseteq Range(q) \cup {a + 1}
         /\ Len(Shifted(q, a)) = Len(q)
<1>. DEFINE r == Tail(q)
<1>0. Len(q) \in Nat /\ \A i \in 1..Len(q) : q[i] = a - Len(q) + i
  BY QueueDomain DEF Newest
<1>1. /\ Len(q) >= 1 /\ r \in Seq(Nat) /\ Len(r) = Len(q) - 1
      /\ \A i \in 1..(Len(q) - 1) : r[i] = q[i + 1]
  BY TailFacts
<1>2. Range(r) \subseteq Range(q)
  BY RangeTail
<1>3. Shifted(q, a) = Grown(r, a)
  BY DEF Shifted, Grown
<1>. HIDE DEF r
<1>4. ASSUME NEW i \in 1..Len(r) PROVE r[i] = a - Len(r) + i
  <2>1. i + 1 \in 1..Len(q) /\ i \in 1..(Len(q) - 1)
    BY <1>0, <1>1
  <2>2. r[i] = q[i + 1] /\ q[i + 1] = a - Len(q) + (i + 1)
    BY <1>0, <1>1, <2>1
  <2>. QED BY <1>0, <1>1, <2>1, <2>2
<1>5. Newest(r, a)
  BY <1>1, <1>4, QueueDomain DEF Newest
<1>. QED BY <1>0, <1>1, <1>2, <1>3, <1>5, GrownFacts

\* The lines of a newest buffer are those above accepted - Len(pending).
LEMMA NewestRange ==
  ASSUME NEW q \in Seq(Nat), NEW a \in Nat, a - Len(q) \in Nat, Newest(q, a)
  PROVE  Run(q) /\ Range(q) = (a - Len(q) + 1)..a
<1>. DEFINE b == a - Len(q) + 1
<1>0. Len(q) \in Nat /\ DOMAIN q = 1..Len(q) /\ b \in Nat
  BY QueueDomain
<1>1. \A i \in 1..Len(q) : q[i] = b + i - 1
  BY <1>0 DEF Newest
<1>2. Range(q) = b..(b + Len(q) - 1)
  <2>. HIDE DEF b
  <2>. QED BY <1>0, <1>1, RangeOfRun
<1>3. b + Len(q) - 1 = a
  BY <1>0
<1>. QED BY <1>0, <1>1, <1>2, <1>3 DEF Run

\* Splitting what a flusher holds into a batch and the rest: no line is in both.
LEMMA Split ==
  ASSUME NEW q \in Seq(Nat), NEW k \in 0..Len(q), Run(q),
         NEW b, b = Range(SubSeq(q, 1, k)), NEW r, r = SubSeq(q, k + 1, Len(q))
  PROVE  /\ r \in Seq(Nat) /\ Run(r) /\ Range(r) \subseteq Range(q)
         /\ b \subseteq Range(q) /\ b \cap Range(r) = {}
         /\ Range(q) \subseteq b \cup Range(r)
<1>. DEFINE p == SubSeq(q, 1, k)
<1>0. Len(q) \in Nat /\ k \in Nat /\ k <= Len(q) /\ DOMAIN q = 1..Len(q)
      /\ \A i \in 1..Len(q) : q[i] \in Nat
  BY QueueDomain
<1>1. p \in Seq(Nat) /\ Len(p) = k /\ \A i \in 1..k : p[i] = q[i]
  BY PrefixFacts
<1>2. r \in Seq(Nat) /\ Len(r) = Len(q) - k /\ \A i \in 1..(Len(q) - k) : r[i] = q[k + i]
  BY SuffixFacts
<1>3. DOMAIN p = 1..k /\ DOMAIN r = 1..(Len(q) - k)
  BY <1>1, <1>2, QueueDomain
<1>4. b = {q[i] : i \in 1..k}
  BY <1>1, <1>3 DEF Range
<1>. HIDE DEF p
<1>5. Range(r) \subseteq Range(q) /\ Range(q) \subseteq b \cup Range(r)
  <2>1. \A t : t = SubSeq(q, k + 1, Len(q)) =>
          Range(t) \subseteq Range(q) /\ Range(q) \subseteq {q[i] : i \in 1..k} \cup Range(t)
    BY RangeSuffix
  <2>. QED BY <1>4, <2>1
<1>6. b \subseteq Range(q)
  BY <1>0, <1>4 DEF Range
<1>7. ASSUME NEW i \in 1..(Len(q) - k) PROVE k + i \in 1..Len(q) /\ r[i] = q[k + i]
  <2>1. k + i \in 1..Len(q)
    BY <1>0
  <2>. QED BY <1>2, <2>1
<1>8. Run(r)
  <2>. SUFFICES ASSUME NEW i \in 1..(Len(q) - k), NEW j \in 1..(Len(q) - k)
                PROVE r[j] - r[i] = j - i
    BY <1>3 DEF Run
  <2>1. k + i \in DOMAIN q /\ k + j \in DOMAIN q /\ r[i] = q[k + i] /\ r[j] = q[k + j]
    BY <1>0, <1>7
  <2>2. q[k + j] - q[k + i] = (k + j) - (k + i)
    BY <2>1 DEF Run
  <2>. QED BY <1>0, <2>1, <2>2
<1>9. b \cap Range(r) = {}
  <2>. SUFFICES ASSUME NEW i \in 1..k, NEW j \in 1..(Len(q) - k), q[i] = r[j] PROVE FALSE
    BY <1>3, <1>4 DEF Range
  <2>1. i \in DOMAIN q /\ k + j \in DOMAIN q /\ r[j] = q[k + j]
    BY <1>0, <1>7
  <2>2. q[k + j] - q[i] = (k + j) - i
    BY <2>1 DEF Run
  <2>3. q[i] \in Nat
    BY <1>0, <2>1
  <2>. QED BY <1>0, <2>1, <2>2, <2>3
<1>. QED BY <1>2, <1>5, <1>6, <1>8, <1>9

-----------------------------------------------------------------------------
\* Nothing is logged yet.
LEMMA InitInv == Init => PInv
<1>. SUFFICES ASSUME Init PROVE PInv
  OBVIOUS
<1>. USE DEF Init
<1>1. pending \in Seq(Nat) /\ Len(pending) = 0 /\ DOMAIN pending = {} /\ Range(pending) = {}
  BY DEF Range
<1>2. TypeOK
  <2>1. pending \in Seq(Nat) /\ Len(pending) <= BufferSize
    BY <1>1, SizesAssumption
  <2>. QED BY <2>1 DEF TypeOK
<1>3. PendingIsNewest /\ NoLostSignal /\ FlushEmpties
  BY <1>1, SizesAssumption DEF PendingIsNewest, NoLostSignal, FlushEmpties
<1>4. \A f \in Flushers : recs[f] = <<>> /\ DOMAIN recs[f] = {} /\ Held(f) = {}
  BY DEF Held, Range
<1>5. Left = 0
  <2>1. accepted = 0
    OBVIOUS
  <2>. HIDE DEF Init
  <2>. QED BY <1>1, <2>1 DEF Left
<1>6. Owned
  BY <1>4, <1>5, MaxLinesAssumption DEF Owned, Run
<1>7. Copies /\ AtMostTwice
  BY <1>4 DEF Copies, AtMostTwice
<1>. QED BY <1>2, <1>3, <1>6, <1>7 DEF PInv

\* What a line costs the buffer.
LEMMA BufferEffect ==
  ASSUME PInv, NEW l \in Loggers, BufferLine(l)
  PROVE  /\ accepted \in Nat /\ accepted' = accepted + 1 /\ accepted' <= MaxLines
         /\ pending' \in Seq(Nat) /\ Len(pending') <= BufferSize
         /\ PendingIsNewest'
         /\ Range(pending') \subseteq Range(pending) \cup {accepted + 1}
         /\ Left \in Nat /\ Left' \in Nat /\ Left <= Left'
<1>1. /\ accepted \in Nat /\ pending \in Seq(Nat) /\ Len(pending) \in Nat
      /\ Len(pending) <= BufferSize /\ BufferSize \in Nat /\ BufferSize >= 1 /\ Left \in Nat
      /\ MaxLines \in Nat /\ DOMAIN pending = 1..Len(pending)
  BY SizesAssumption, MaxLinesAssumption, QueueDomain DEF PInv, TypeOK, Owned
<1>2. accepted' = accepted + 1 /\ accepted' <= MaxLines
  BY <1>1 DEF BufferLine, Lines
<1>3. Newest(pending, accepted)
  BY DEF PInv, PendingIsNewest, Newest
<1>4. PendingIsNewest' <=> Newest(pending', accepted')
  BY DEF PendingIsNewest, Newest
<1>5. CASE Len(pending) >= BufferSize
  <2>1. pending' = Shifted(pending, accepted)
    BY <1>2, <1>5 DEF BufferLine, Shifted
  <2>2. pending # <<>>
    BY <1>1, <1>5
  <2>3. /\ pending' \in Seq(Nat) /\ Len(pending') = Len(pending)
        /\ Newest(pending', accepted + 1)
        /\ Range(pending') \subseteq Range(pending) \cup {accepted + 1}
    BY <1>1, <1>3, <2>1, <2>2, ShiftedFacts
  <2>4. Left' = Left + 1
    BY <1>1, <1>2, <2>3 DEF Left
  <2>. QED BY <1>1, <1>2, <1>4, <2>3, <2>4
<1>6. CASE ~(Len(pending) >= BufferSize)
  <2>1. pending' = Grown(pending, accepted)
    BY <1>2, <1>6 DEF BufferLine, Grown
  <2>2. /\ pending' \in Seq(Nat) /\ Len(pending') = Len(pending) + 1
        /\ Newest(pending', accepted + 1)
        /\ Range(pending') \subseteq Range(pending) \cup {accepted + 1}
    BY <1>1, <1>3, <2>1, GrownFacts
  <2>3. Left' = Left /\ Len(pending') <= BufferSize
    BY <1>1, <1>2, <1>6, <2>2 DEF Left
  <2>. QED BY <1>1, <1>2, <1>4, <2>2, <2>3
<1>. QED BY <1>5, <1>6

\* logLine keeps the invariant: only the buffer grows, and a logger that fills
\* it goes on to signal.
LEMMA BufferLineStep ==
  ASSUME PInv, NEW l \in Loggers, BufferLine(l)
  PROVE  PInv'
<1>. USE DEF bufferVars, flushVars, outcomeVars
<1>0. UNCHANGED <<signal, at, recs, attempt, delivered, stored, asked>> /\ logger[l] = "idle"
  BY DEF BufferLine
<1>1. /\ accepted \in Nat /\ accepted' = accepted + 1 /\ accepted' <= MaxLines
      /\ pending' \in Seq(Nat) /\ Len(pending') <= BufferSize
      /\ PendingIsNewest'
      /\ Range(pending') \subseteq Range(pending) \cup {accepted + 1}
      /\ Left \in Nat /\ Left' \in Nat /\ Left <= Left'
  BY BufferEffect
<1>2. dropped' \in Nat
  BY DEF BufferLine, PInv, TypeOK
<1>3. logger' = [logger EXCEPT ![l] = IF Len(pending') >= FlushLines THEN "signal" ELSE "idle"]
  BY DEF BufferLine
<1>4. TypeOK'
  BY <1>0, <1>1, <1>2, <1>3 DEF PInv, TypeOK
<1>5. NoLostSignal'
  <2>1. Len(pending') >= FlushLines => logger'[l] = "signal"
    BY <1>3 DEF PInv, TypeOK
  <2>. QED BY <2>1 DEF NoLostSignal
<1>6. FlushEmpties'
  <2>. SUFFICES ASSUME NEW f \in Callers, at[f] = "idle", NEW n \in Range(pending')
                PROVE n > asked[f]
    BY <1>0 DEF FlushEmpties
  <2>1. asked[f] \in Nat /\ asked[f] <= accepted
    BY DEF PInv, TypeOK, Owned
  <2>2. n \in Range(pending) => n > asked[f]
    BY DEF PInv, FlushEmpties
  <2>. QED BY <1>1, <2>1, <2>2
<1>7. \A f \in Flushers : Held(f)' = Held(f) /\ Batch(f)' = Batch(f)
  BY <1>0 DEF Held, Batch, BatchSize
<1>8. Owned'
  <2>1. 1..Left \subseteq 1..Left'
    BY <1>1
  <2>2. \A f \in Callers : asked'[f] <= accepted'
    BY <1>0, <1>1 DEF PInv, TypeOK, Owned
  <2>. QED BY <1>0, <1>1, <1>7, <2>1, <2>2 DEF PInv, Owned
<1>9. Copies' /\ AtMostTwice'
  <2>1. \A n \in Lines : n > Left' => n > Left
    BY <1>1, MaxLinesAssumption DEF Lines
  <2>. QED BY <1>0, <1>7, <2>1 DEF PInv, Copies, AtMostTwice
<1>. QED BY <1>1, <1>4, <1>5, <1>6, <1>8, <1>9 DEF PInv

\* Steps that move goroutines and the token only.  They may not take the
\* token or the background flusher away from a buffer that waits for them, nor
\* end a flush, and only FlushLogs asks again, for what is accepted then.
LEMMA ControlStep ==
  ASSUME PInv,
         UNCHANGED <<pending, accepted, dropped, recs, attempt, delivered, stored>>,
         TypeOK', NoLostSignal',
         \A f \in Flushers : at'[f] = at[f] \/ (at[f] = "idle" /\ at'[f] = "take"),
         \A f \in Callers : asked'[f] = asked[f] \/ (asked'[f] = accepted /\ at'[f] # "idle")
  PROVE  PInv'
<1>1. Callers \subseteq Flushers /\ accepted \in Nat
  BY DEF Flushers, PInv, TypeOK
<1>2. PendingIsNewest' /\ FlushEmpties'
  BY <1>1 DEF PInv, PendingIsNewest, FlushEmpties
<1>3. \A f \in Flushers : Held(f)' = Held(f) /\ Batch(f)' = Batch(f)
  BY DEF Held, Batch, BatchSize
<1>4. Left' = Left
  BY DEF Left
<1>5. \A f \in Callers : asked'[f] <= accepted'
  BY <1>1 DEF PInv, Owned
<1>6. Owned'
  BY <1>3, <1>4, <1>5 DEF PInv, Owned
<1>7. Copies' /\ AtMostTwice'
  BY <1>3, <1>4 DEF PInv, Copies, AtMostTwice
<1>. QED BY <1>2, <1>6, <1>7 DEF PInv

\* A logger puts the token: it is what NoLostSignal waits for.
LEMMA SignalStep ==
  ASSUME PInv, NEW l \in Loggers, Signal(l)
  PROVE  PInv'
<1>. USE DEF bufferVars, flushVars, outcomeVars
<1>1. UNCHANGED <<pending, accepted, dropped, recs, attempt, delivered, stored, at, asked>>
  BY DEF Signal
<1>2. TypeOK'
  BY DEF PInv, TypeOK, Signal
<1>3. NoLostSignal'
  BY DEF Signal, NoLostSignal
<1>. QED BY <1>1, <1>2, <1>3, ControlStep

\* The background flusher starts a flush.
LEMMA TickStep ==
  ASSUME PInv, Tick \/ Signalled
  PROVE  PInv'
<1>. USE DEF bufferVars, flushVars, outcomeVars
<1>0. Background \in Flushers
  BY DEF Flushers
<1>1. /\ UNCHANGED <<pending, accepted, dropped, recs, attempt, delivered, stored, asked, logger>>
      /\ at[Background] = "idle" /\ at' = [at EXCEPT ![Background] = "take"]
  BY DEF Tick, Signalled
<1>2. TypeOK'
  BY DEF PInv, TypeOK, Tick, Signalled
<1>3. at'[Background] = "take"
  BY <1>0, <1>1 DEF PInv, TypeOK
<1>4. NoLostSignal'
  BY <1>3 DEF NoLostSignal
<1>5. \A f \in Flushers : at'[f] = at[f] \/ (at[f] = "idle" /\ at'[f] = "take")
  BY <1>0, <1>1 DEF PInv, TypeOK
<1>. QED BY <1>1, <1>2, <1>4, <1>5, ControlStep

\* FlushLogs is called.
LEMMA FlushLogsStep ==
  ASSUME PInv, NEW f \in Callers, FlushLogs(f)
  PROVE  PInv'
<1>. USE DEF bufferVars, flushVars, outcomeVars
<1>0. f \in Flushers /\ f # Background
  BY BackgroundAssumption DEF Flushers
<1>1. /\ UNCHANGED <<pending, accepted, dropped, recs, attempt, delivered, stored, logger, signal>>
      /\ at[f] = "idle" /\ at' = [at EXCEPT ![f] = "take"]
      /\ asked' = [asked EXCEPT ![f] = accepted]
  BY DEF FlushLogs
<1>2. TypeOK'
  BY DEF PInv, TypeOK, FlushLogs
<1>3. at'[Background] = at[Background]
  BY <1>0, <1>1 DEF PInv, TypeOK, Flushers
<1>4. NoLostSignal'
  BY <1>1, <1>3 DEF PInv, NoLostSignal
<1>5. \A g \in Flushers : at'[g] = at[g] \/ (at[g] = "idle" /\ at'[g] = "take")
  BY <1>0, <1>1 DEF PInv, TypeOK
<1>6. \A g \in Callers : asked'[g] = asked[g] \/ (asked'[g] = accepted /\ at'[g] # "idle")
  BY <1>0, <1>1 DEF PInv, TypeOK
<1>. QED BY <1>1, <1>2, <1>4, <1>5, <1>6, ControlStep

\* The lines in the buffer are those above the ones that left it.
LEMMA WaitingRange ==
  ASSUME PInv
  PROVE  Run(pending) /\ Range(pending) = (Left + 1)..accepted
<1>1. /\ pending \in Seq(Nat) /\ accepted \in Nat /\ Left \in Nat /\ Newest(pending, accepted)
  BY DEF PInv, TypeOK, Owned, PendingIsNewest, Newest
<1>2. accepted - Len(pending) = Left
  BY DEF Left
<1>. QED BY <1>1, <1>2, NewestRange

\* The swap: what leaves the buffer is newer than all that left it before.
LEMMA TakeStep ==
  ASSUME PInv, NEW f \in Flushers, Take(f)
  PROVE  PInv'
<1>. USE DEF bufferVars, flushVars, outcomeVars
<1>0. /\ UNCHANGED <<signal, accepted, dropped, logger, attempt, delivered, stored, asked>>
      /\ pending' = <<>>
      /\ recs' = [recs EXCEPT ![f] = pending]
      /\ at' = [at EXCEPT ![f] = IF pending = <<>> THEN "idle" ELSE "post"]
      /\ at[f] = "take"
  BY DEF Take
<1>1. /\ pending \in Seq(Nat) /\ Len(pending) \in Nat /\ accepted \in Nat /\ Left \in Nat
      /\ accepted <= MaxLines /\ MaxLines \in Nat
  BY MaxLinesAssumption DEF PInv, TypeOK, Owned
<1>2. pending' \in Seq(Nat) /\ Len(pending') = 0 /\ DOMAIN pending' = {} /\ Range(pending') = {}
  BY <1>0 DEF Range
<1>3. TypeOK'
  <2>1. Len(pending') <= BufferSize
    BY <1>2, SizesAssumption
  <2>2. recs' \in [Flushers -> Seq(Nat)] /\ at' \in [Flushers -> {"idle", "take", "post"}]
    BY <1>0, <1>1 DEF PInv, TypeOK
  <2>. QED BY <1>0, <1>2, <2>1, <2>2 DEF PInv, TypeOK
<1>4. PendingIsNewest' /\ FlushEmpties'
  BY <1>2 DEF PendingIsNewest, FlushEmpties
<1>5. NoLostSignal'
  BY <1>2, SizesAssumption DEF NoLostSignal
<1>6. Run(pending) /\ Range(pending) = (Left + 1)..accepted
  BY WaitingRange
<1>7. Left' = accepted /\ Left <= accepted
  BY <1>0, <1>1, <1>2 DEF Left
<1>8. \A g \in Flushers : recs'[g] = IF g = f THEN pending ELSE recs[g]
  BY <1>0 DEF PInv, TypeOK
<1>9. Held(f)' = (Left + 1)..accepted /\ \A g \in Flushers \ {f} : Held(g)' = Held(g)
  BY <1>6, <1>8 DEF Held
<1>10. 1..Left \cap (Left + 1)..accepted = {} /\ 1..Left \subseteq 1..accepted
       /\ (Left + 1)..accepted \subseteq 1..accepted
  BY <1>1, <1>7
<1>11. Owned'
  <2>1. /\ \A g \in Flushers : Held(g) \subseteq 1..Left /\ Run(recs[g])
        /\ \A g \in Flushers : Held(g) \cap delivered = {}
        /\ \A g \in Flushers : \A h \in Flushers \ {g} : Held(g) \cap Held(h) = {}
        /\ \A g \in Flushers : at[g] # "post" => recs[g] = <<>> /\ attempt[g] = 0
        /\ delivered \subseteq 1..Left
    BY DEF PInv, Owned
  <2>2. accepted' <= MaxLines /\ Left' \in Nat /\ delivered' \subseteq 1..Left'
        /\ \A g \in Callers : asked'[g] <= accepted'
    BY <1>0, <1>1, <1>7, <1>10, <2>1 DEF PInv, Owned
  <2>3. ASSUME NEW g \in Flushers PROVE at'[g] # "post" => recs'[g] = <<>> /\ attempt'[g] = 0
    <3>1. at'[g] = IF g # f THEN at[g] ELSE IF pending = <<>> THEN "idle" ELSE "post"
      BY <1>0 DEF PInv, TypeOK
    <3>. QED BY <1>0, <1>8, <2>1, <3>1
  <2>4. ASSUME NEW g \in Flushers PROVE Run(recs'[g])
    BY <1>6, <1>8, <2>1
  <2>5. ASSUME NEW g \in Flushers PROVE Held(g)' \subseteq 1..Left'
    BY <1>7, <1>9, <1>10, <2>1
  <2>6. ASSUME NEW g \in Flushers PROVE Held(g)' \cap delivered' = {}
    BY <1>0, <1>9, <1>10, <2>1
  <2>7. ASSUME NEW g \in Flushers, NEW h \in Flushers \ {g} PROVE Held(g)' \cap Held(h)' = {}
    <3>1. \A k \in Flushers \ {f} : Held(k)' = Held(k) /\ Held(k) \cap (Left + 1)..accepted = {}
      BY <1>9, <1>10, <2>1
    <3>2. CASE g = f \/ h = f
      BY <1>9, <3>1, <3>2
    <3>3. CASE g # f /\ h # f
      BY <2>1, <3>1, <3>3
    <3>. QED BY <3>2, <3>3
  <2>. QED BY <2>2, <2>3, <2>4, <2>5, <2>6, <2>7 DEF Owned
<1>12. Copies'
  <2>1. \A n \in Lines : n > Left => stored[n] = 0
    BY DEF PInv, Copies
  <2>2. \A n \in Lines : n > Left' => stored'[n] = 0
    BY <1>0, <1>1, <1>7, <2>1 DEF Lines
  <2>3. ASSUME NEW n \in Held(f)' PROVE stored'[n] = 0
    BY <1>0, <1>1, <1>9, <2>1 DEF Lines
  <2>4. attempt'[f] = 0
    BY <1>0 DEF PInv, Owned
  <2>5. \A g \in Flushers \ {f} : Batch(g)' = Batch(g)
    BY <1>8 DEF Batch, BatchSize
  <2>6. \A g \in Flushers \ {f} : \A n \in Held(g)' :
          IF n \in Batch(g)' THEN stored'[n] <= attempt'[g] ELSE stored'[n] = 0
    BY <1>0, <1>9, <2>5 DEF PInv, Copies
  <2>7. \A n \in Held(f)' :
          IF n \in Batch(f)' THEN stored'[n] <= attempt'[f] ELSE stored'[n] = 0
    BY <2>3, <2>4
  <2>. QED BY <2>2, <2>6, <2>7 DEF Copies
<1>13. AtMostTwice'
  BY <1>0 DEF PInv, AtMostTwice
<1>. QED BY <1>3, <1>4, <1>5, <1>11, <1>12, <1>13 DEF PInv

\* What the server may store when a batch is posted.
LEMMA StoreEffect ==
  ASSUME PInv, NEW f \in Flushers, ServerStores(f) \/ UNCHANGED stored
  PROVE  /\ stored' \in [Lines -> Nat]
         /\ \A n \in Lines : stored[n] \in Nat /\ stored'[n] \in Nat /\ stored'[n] <= stored[n] + 1
         /\ \A n \in Lines \ Batch(f) : stored'[n] = stored[n]
<1>1. stored \in [Lines -> Nat]
  BY DEF PInv, TypeOK
<1>2. CASE ServerStores(f)
  BY <1>1, <1>2 DEF ServerStores
<1>3. CASE UNCHANGED stored
  BY <1>1, <1>3
<1>. QED BY <1>2, <1>3

\* What a flusher holds, cut at the end of its batch.
LEMMA BatchFacts ==
  ASSUME PInv, NEW f \in Flushers
  PROVE  /\ BatchSize(f) \in Nat
         /\ Rest(f) \in Seq(Nat) /\ Run(Rest(f)) /\ Range(Rest(f)) \subseteq Held(f)
         /\ Batch(f) \subseteq Held(f) /\ Batch(f) \cap Range(Rest(f)) = {}
         /\ Held(f) \subseteq 1..Left /\ Held(f) \subseteq Lines
<1>1. recs[f] \in Seq(Nat) /\ Run(recs[f]) /\ Held(f) \subseteq 1..Left
  BY DEF PInv, TypeOK, Owned
<1>2. BatchSize(f) \in 0..Len(recs[f]) /\ BatchSize(f) \in Nat
  BY <1>1, QueueDomain, SizesAssumption DEF BatchSize
<1>3. \A b, r : b = Range(SubSeq(recs[f], 1, BatchSize(f)))
               /\ r = SubSeq(recs[f], BatchSize(f) + 1, Len(recs[f]))
         => /\ r \in Seq(Nat) /\ Run(r) /\ Range(r) \subseteq Range(recs[f])
            /\ b \subseteq Range(recs[f]) /\ b \cap Range(r) = {}
  BY <1>1, <1>2, Split
<1>4. 1..Left \subseteq Lines
  <2>1. /\ Left \in Nat /\ accepted \in Nat /\ accepted <= MaxLines /\ MaxLines \in Nat
        /\ Len(pending) \in Nat
    BY MaxLinesAssumption, QueueDomain DEF PInv, Owned, TypeOK
  <2>2. Left <= accepted
    BY <2>1 DEF Left
  <2>. QED BY <2>1, <2>2 DEF Lines
<1>. QED BY <1>1, <1>2, <1>3, <1>4 DEF Batch, Rest, Held

\* The first failure: the batch may now be on the server once.
LEMMA PostRetriesStep ==
  ASSUME PInv, NEW f \in Flushers, PostRetries(f)
  PROVE  PInv'
<1>. USE DEF bufferVars, flushVars, outcomeVars
<1>0. /\ UNCHANGED <<pending, signal, accepted, dropped, logger, at, recs, delivered, asked>>
      /\ at[f] = "post" /\ attempt[f] = 0 /\ attempt' = [attempt EXCEPT ![f] = 1]
      /\ ServerStores(f) \/ UNCHANGED stored
  BY DEF PostRetries
<1>1. /\ stored' \in [Lines -> Nat]
      /\ \A n \in Lines : stored[n] \in Nat /\ stored'[n] \in Nat /\ stored'[n] <= stored[n] + 1
      /\ \A n \in Lines \ Batch(f) : stored'[n] = stored[n]
  BY <1>0, StoreEffect
<1>2. TypeOK'
  <2>1. attempt' \in [Flushers -> {0, 1}]
    BY <1>0 DEF PInv, TypeOK
  <2>. QED BY <1>0, <1>1, <2>1 DEF PInv, TypeOK
<1>3. PendingIsNewest' /\ FlushEmpties' /\ NoLostSignal'
  BY <1>0 DEF PInv, PendingIsNewest, FlushEmpties, NoLostSignal
<1>4. \A g \in Flushers : Held(g)' = Held(g) /\ Batch(g)' = Batch(g)
  BY <1>0 DEF Held, Batch, BatchSize
<1>5. Left' = Left /\ \A g \in Flushers : attempt'[g] = IF g = f THEN 1 ELSE attempt[g]
  BY <1>0 DEF Left, PInv, TypeOK
<1>6. Owned'
  BY <1>0, <1>4, <1>5 DEF PInv, Owned
<1>7. Batch(f) \subseteq Held(f) /\ \A g \in Flushers : Held(g) \subseteq 1..Left /\ Held(g) \subseteq Lines
  BY BatchFacts
<1>8. \A g \in Flushers : \A n \in Held(g) :
        IF n \in Batch(g) THEN stored[n] <= attempt[g] ELSE stored[n] = 0
  BY DEF PInv, Copies
<1>9. \A n \in Batch(f) : stored'[n] <= 1
  BY <1>0, <1>1, <1>7, <1>8
<1>10. Copies'
  <2>1. ASSUME NEW n \in Lines, n > Left PROVE stored'[n] = 0
    <3>1. Left \in Nat /\ n \in Nat
      BY MaxLinesAssumption DEF Lines, PInv, Owned
    <3>2. n \notin Batch(f) /\ stored[n] = 0
      BY <1>7, <2>1, <3>1 DEF PInv, Copies
    <3>. QED BY <1>1, <3>2
  <2>2. ASSUME NEW n \in Held(f)
        PROVE  IF n \in Batch(f) THEN stored'[n] <= 1 ELSE stored'[n] = 0
    BY <1>1, <1>7, <1>8, <1>9
  <2>3. ASSUME NEW g \in Flushers, g # f, NEW n \in Held(g)
        PROVE  IF n \in Batch(g) THEN stored'[n] <= attempt[g] ELSE stored'[n] = 0
    <3>1. n \in Lines \ Batch(f)
      BY <1>7, <2>3 DEF PInv, Owned
    <3>. QED BY <1>1, <1>8, <3>1
  <2>. QED BY <1>4, <1>5, <2>1, <2>2, <2>3 DEF Copies
<1>11. AtMostTwice'
  <2>. SUFFICES ASSUME NEW n \in Lines PROVE stored'[n] <= 2
    BY DEF AtMostTwice
  <2>1. n \in Batch(f) => stored'[n] <= 1 /\ stored'[n] \in Nat
    BY <1>1, <1>9
  <2>2. n \notin Batch(f) => stored'[n] <= 2
    BY <1>1 DEF PInv, AtMostTwice
  <2>. QED BY <2>1, <2>2
<1>. QED BY <1>2, <1>3, <1>6, <1>10, <1>11 DEF PInv

\* A batch is settled, delivered or given up: it was tried once before at most,
\* and what is left in the flusher's hands was never posted.
LEMMA SettleStep ==
  ASSUME PInv, NEW f \in Flushers, at[f] = "post", Settle(f),
         ServerStores(f) \/ UNCHANGED stored,
         delivered' = delivered \/ delivered' = delivered \cup Batch(f),
         dropped' \in Nat,
         UNCHANGED <<pending, signal, accepted, logger, asked>>
  PROVE  PInv'
<1>0. /\ recs' = [recs EXCEPT ![f] = Rest(f)] /\ attempt' = [attempt EXCEPT ![f] = 0]
      /\ at' = [at EXCEPT ![f] = IF Rest(f) = <<>> THEN "take" ELSE "post"]
  BY DEF Settle
<1>1. /\ stored' \in [Lines -> Nat]
      /\ \A n \in Lines : stored[n] \in Nat /\ stored'[n] \in Nat /\ stored'[n] <= stored[n] + 1
      /\ \A n \in Lines \ Batch(f) : stored'[n] = stored[n]
  BY StoreEffect
<1>2. /\ Rest(f) \in Seq(Nat) /\ Run(Rest(f)) /\ Range(Rest(f)) \subseteq Held(f)
      /\ Batch(f) \subseteq Held(f) /\ Batch(f) \cap Range(Rest(f)) = {}
      /\ \A g \in Flushers : Held(g) \subseteq 1..Left /\ Held(g) \subseteq Lines
  BY BatchFacts
<1>3. \A g \in Flushers :
        /\ recs'[g] = IF g = f THEN Rest(f) ELSE recs[g]
        /\ attempt'[g] = IF g = f THEN 0 ELSE attempt[g]
        /\ at'[g] = IF g # f THEN at[g] ELSE IF Rest(f) = <<>> THEN "take" ELSE "post"
  BY <1>0 DEF PInv, TypeOK
<1>4. TypeOK'
  <2>1. /\ recs' \in [Flushers -> Seq(Nat)] /\ attempt' \in [Flushers -> {0, 1}]
        /\ at' \in [Flushers -> {"idle", "take", "post"}]
    BY <1>0, <1>2 DEF PInv, TypeOK
  <2>2. delivered' \subseteq Nat
    <3>1. Lines \subseteq Nat /\ delivered \subseteq Nat
      BY DEF PInv, TypeOK, Lines
    <3>2. Batch(f) \subseteq Lines
      BY <1>2
    <3>. QED BY <3>1, <3>2
  <2>. QED BY <1>1, <2>1, <2>2 DEF PInv, TypeOK
<1>5. PendingIsNewest' /\ FlushEmpties' /\ NoLostSignal'
  <2>1. \A g \in Flushers : at'[g] = "idle" => at[g] = "idle"
    BY <1>3
  <2>2. at[Background] = "take" => at'[Background] = "take"
    BY <1>3 DEF Flushers
  <2>. QED BY <2>1, <2>2 DEF PInv, PendingIsNewest, FlushEmpties, NoLostSignal, Flushers
<1>6. Held(f)' = Range(Rest(f)) /\ \A g \in Flushers \ {f} : Held(g)' = Held(g) /\ Batch(g)' = Batch(g)
  BY <1>3 DEF Held, Batch, BatchSize
<1>7. Left' = Left
  BY DEF Left
<1>8. /\ \A g \in Flushers : Run(recs[g]) /\ Held(g) \cap delivered = {}
      /\ \A g \in Flushers : \A h \in Flushers \ {g} : Held(g) \cap Held(h) = {}
      /\ \A g \in Flushers : at[g] # "post" => recs[g] = <<>> /\ attempt[g] = 0
      /\ delivered \subseteq 1..Left
  BY DEF PInv, Owned
<1>9. Owned'
  <2>1. /\ accepted' <= MaxLines /\ Left' \in Nat /\ \A g \in Callers : asked'[g] <= accepted'
    BY <1>7 DEF PInv, Owned
  <2>2. delivered' \subseteq 1..Left'
    BY <1>2, <1>7, <1>8
  <2>3. ASSUME NEW g \in Flushers
        PROVE  /\ at'[g] # "post" => recs'[g] = <<>> /\ attempt'[g] = 0
               /\ Run(recs'[g])
    BY <1>2, <1>3, <1>8
  <2>4. ASSUME NEW g \in Flushers PROVE Held(g)' \subseteq 1..Left'
    BY <1>2, <1>6, <1>7
  <2>5. ASSUME NEW g \in Flushers PROVE Held(g)' \cap delivered' = {}
    BY <1>2, <1>6, <1>8
  <2>6. ASSUME NEW g \in Flushers, NEW h \in Flushers \ {g} PROVE Held(g)' \cap Held(h)' = {}
    BY <1>2, <1>6, <1>8
  <2>. QED BY <2>1, <2>2, <2>3, <2>4, <2>5, <2>6 DEF Owned
<1>10. \A g \in Flushers : \A n \in Held(g) :
        IF n \in Batch(g) THEN stored[n] <= attempt[g] ELSE stored[n] = 0
  BY DEF PInv, Copies
<1>11. Copies'
  <2>1. ASSUME NEW n \in Lines, n > Left PROVE stored'[n] = 0
    <3>1. Left \in Nat /\ n \in Nat
      BY MaxLinesAssumption DEF Lines, PInv, Owned
    <3>2. n \notin Batch(f) /\ stored[n] = 0
      BY <1>2, <2>1, <3>1 DEF PInv, Copies
    <3>. QED BY <1>1, <3>2
  <2>2. ASSUME NEW n \in Range(Rest(f)) PROVE stored'[n] = 0
    BY <1>1, <1>2, <1>10
  <2>3. ASSUME NEW g \in Flushers, g # f, NEW n \in Held(g)
        PROVE  IF n \in Batch(g) THEN stored'[n] <= attempt[g] ELSE stored'[n] = 0
    <3>1. n \in Lines \ Batch(f)
      BY <1>2, <1>8, <2>3
    <3>. QED BY <1>1, <1>10, <3>1
  <2>4. \A n \in Held(f)' :
          IF n \in Batch(f)' THEN stored'[n] <= attempt'[f] ELSE stored'[n] = 0
    BY <1>3, <1>6, <2>2
  <2>5. \A g \in Flushers \ {f} : \A n \in Held(g)' :
          IF n \in Batch(g)' THEN stored'[n] <= attempt'[g] ELSE stored'[n] = 0
    BY <1>3, <1>6, <2>3
  <2>. QED BY <1>7, <2>1, <2>4, <2>5 DEF Copies
<1>12. AtMostTwice'
  <2>. SUFFICES ASSUME NEW n \in Lines PROVE stored'[n] <= 2
    BY DEF AtMostTwice
  <2>1. CASE n \in Batch(f)
    <3>1. stored[n] <= attempt[f] /\ attempt[f] \in {0, 1}
      BY <1>2, <1>10, <2>1 DEF PInv, TypeOK
    <3>. QED BY <1>1, <3>1
  <2>2. CASE n \notin Batch(f)
    BY <1>1, <2>2 DEF PInv, AtMostTwice
  <2>. QED BY <2>1, <2>2
<1>. QED BY <1>4, <1>5, <1>9, <1>11, <1>12 DEF PInv

\* A POST ends well, or the batch is given up.
LEMMA PostStep ==
  ASSUME PInv, NEW f \in Flushers, PostOk(f) \/ PostGivesUp(f)
  PROVE  PInv'
<1>. USE DEF bufferVars, flushVars, outcomeVars
<1>1. dropped \in Nat /\ BatchSize(f) \in Nat
  BY BatchFacts DEF PInv, TypeOK
<1>2. CASE PostOk(f)
  BY <1>1, <1>2, SettleStep DEF PostOk
<1>3. CASE PostGivesUp(f)
  BY <1>1, <1>3, SettleStep DEF PostGivesUp
<1>. QED BY <1>2, <1>3

-----------------------------------------------------------------------------
\* The invariant holds of every reachable state.
THEOREM Invariance == Spec => []PInv
<1>1. PInv /\ [Next]_vars => PInv'
  <2>. SUFFICES ASSUME PInv, [Next]_vars PROVE PInv'
    OBVIOUS
  <2>1. ASSUME NEW l \in Loggers, BufferLine(l) \/ Signal(l) PROVE PInv'
    BY <2>1, BufferLineStep, SignalStep
  <2>2. CASE Tick \/ Signalled
    BY <2>2, TickStep
  <2>3. ASSUME NEW f \in Callers, FlushLogs(f) PROVE PInv'
    BY <2>3, FlushLogsStep
  <2>4. ASSUME NEW f \in Flushers, FlushNow(f) PROVE PInv'
    BY <2>4, TakeStep, PostRetriesStep, PostStep DEF FlushNow
  <2>5. CASE UNCHANGED vars
    <3>1. /\ UNCHANGED <<pending, signal, accepted, dropped, logger, at, recs>>
          /\ UNCHANGED <<attempt, delivered, stored, asked>>
      BY <2>5 DEF vars, bufferVars, flushVars, outcomeVars
    <3>2. TypeOK' /\ NoLostSignal'
      BY <3>1 DEF PInv, TypeOK, NoLostSignal
    <3>. QED BY <3>1, <3>2, ControlStep
  <2>. QED BY <2>1, <2>2, <2>3, <2>4, <2>5 DEF Next
<1>. QED BY InitInv, <1>1, PTL DEF Spec

\* The variables keep their types, and the buffer never exceeds logBufferSize.
THEOREM Typed == Spec => []TypeOK
<1>1. PInv => TypeOK
  BY DEF PInv
<1>. QED BY Invariance, <1>1, PTL

\* An overflow gives up the oldest lines and no other: the buffer is a run of
\* the newest.
THEOREM BufferEndsInNewest == Spec => []PendingIsNewest
<1>1. PInv => PendingIsNewest
  BY DEF PInv
<1>. QED BY Invariance, <1>1, PTL

\* A full buffer never waits for the ticker alone.
THEOREM NoSignalIsLost == Spec => []NoLostSignal
<1>1. PInv => NoLostSignal
  BY DEF PInv
<1>. QED BY Invariance, <1>1, PTL

\* FlushLogs returns with nothing in the buffer that was there when it began.
THEOREM FlushEmptiesBuffer == Spec => []FlushEmpties
<1>1. PInv => FlushEmpties
  BY DEF PInv
<1>. QED BY Invariance, <1>1, PTL

\* One retry of one batch: the server stores no line more than twice.
THEOREM StoredTwiceAtMost == Spec => []AtMostTwice
<1>1. PInv => AtMostTwice
  BY DEF PInv
<1>. QED BY Invariance, <1>1, PTL

\* The background flusher and FlushLogs never hold the same line.
THEOREM EveryLineHasOneOwner == Spec => []OneOwner
<1>1. PInv => OneOwner
  <2>. SUFFICES ASSUME PInv PROVE OneOwner
    OBVIOUS
  <2>1. Range(pending) = (Left + 1)..accepted
    BY WaitingRange
  <2>2. 1..Left \cap (Left + 1)..accepted = {}
    BY DEF PInv, Owned, TypeOK
  <2>. QED BY <2>1, <2>2 DEF PInv, Owned, OneOwner
<1>. QED BY Invariance, <1>1, PTL

-----------------------------------------------------------------------------
(* The accounting.  Lines are counted, not only owned: it takes that a     *)
(* flusher's lines are consecutive, so a batch is as large as the          *)
(* subsequence it was cut from, and that the owners are disjoint.          *)

\* Accounted, of the lines that have left the buffer.
Counted == Left = Cardinality(InHand) + Cardinality(delivered) + dropped

\* A batch has as many lines as the code counts for it.
LEMMA BatchCount ==
  ASSUME NEW q \in Seq(Nat), NEW k \in 0..Len(q), Run(q), NEW b, b = Range(SubSeq(q, 1, k))
  PROVE  IsFiniteSet(b) /\ Cardinality(b) = k
<1>. DEFINE p == SubSeq(q, 1, k)
<1>0. Len(q) \in Nat /\ k \in Nat /\ k <= Len(q) /\ DOMAIN q = 1..Len(q)
      /\ \A i \in 1..Len(q) : q[i] \in Nat
  BY QueueDomain
<1>1. p \in Seq(Nat) /\ Len(p) = k /\ \A i \in 1..k : p[i] = q[i]
  BY PrefixFacts
<1>2. DOMAIN p = 1..k
  BY <1>1, QueueDomain
<1>. HIDE DEF p
<1>3. CASE k = 0
  <2>1. Range(p) = {}
    BY <1>2, <1>3 DEF Range
  <2>. QED BY <1>3, <2>1, FS_EmptySet DEF p
<1>4. CASE k # 0
  <2>1. 1 \in DOMAIN q /\ q[1] \in Nat
    BY <1>0, <1>4
  <2>2. ASSUME NEW i \in 1..k PROVE p[i] = q[1] + i - 1
    <3>1. i \in DOMAIN q /\ q[i] \in Nat /\ p[i] = q[i]
      BY <1>0, <1>1
    <3>2. q[i] - q[1] = i - 1
      BY <2>1, <3>1 DEF Run
    <3>. QED BY <2>1, <3>1, <3>2
  <2>3. Range(p) = q[1]..(q[1] + k - 1)
    BY <1>1, <2>1, <2>2, RangeOfRun
  <2>4. q[1] \in Int /\ q[1] + k - 1 \in Int /\ ~(q[1] > q[1] + k - 1)
        /\ (q[1] + k - 1) - q[1] + 1 = k
    BY <1>0, <1>4, <2>1
  <2>5. IsFiniteSet(Range(p)) /\ Cardinality(Range(p)) = k
    BY <2>3, <2>4, FS_Interval
  <2>. QED BY <2>5 DEF p
<1>. QED BY <1>3, <1>4

\* A part taken out of a set.
LEMMA PartTaken ==
  ASSUME NEW S, NEW b, IsFiniteSet(S), b \subseteq S
  PROVE  Cardinality(S \ b) = Cardinality(S) - Cardinality(b)
<1>1. S \cap b = b
  OBVIOUS
<1>. QED BY <1>1, FS_Difference

\* A part added to a set that it does not meet.
LEMMA PartAdded ==
  ASSUME NEW T, NEW b, IsFiniteSet(T), IsFiniteSet(b), T \cap b = {}
  PROVE  Cardinality(T \cup b) = Cardinality(T) + Cardinality(b)
<1>1. Cardinality(T) \in Nat /\ Cardinality(b) \in Nat
  BY FS_CardinalityType
<1>2. Cardinality(T \cup b) = Cardinality(T) + Cardinality(b) - Cardinality(T \cap b)
  BY FS_Union
<1>3. Cardinality(T \cap b) = 0
  BY FS_EmptySet
<1>. QED BY <1>1, <1>2, <1>3

\* The owners of lines that left the buffer are finite sets.
LEMMA HandsFinite ==
  ASSUME PInv
  PROVE  /\ Left \in Nat /\ accepted \in Nat /\ dropped \in Nat /\ Len(pending) \in Nat
         /\ InHand \subseteq 1..Left /\ IsFiniteSet(InHand) /\ Cardinality(InHand) \in Nat
         /\ IsFiniteSet(delivered) /\ Cardinality(delivered) \in Nat
         /\ InHand \cap delivered = {}
<1>1. Left \in Nat /\ accepted \in Nat /\ dropped \in Nat /\ Len(pending) \in Nat
  BY QueueDomain DEF PInv, TypeOK, Owned
<1>2. InHand \subseteq 1..Left /\ delivered \subseteq 1..Left /\ InHand \cap delivered = {}
  BY DEF PInv, Owned, InHand
<1>3. IsFiniteSet(1..Left)
  BY <1>1, FS_Interval
<1>4. IsFiniteSet(InHand) /\ IsFiniteSet(delivered)
  BY <1>2, <1>3, FS_Subset
<1>. QED BY <1>1, <1>2, <1>4, FS_CardinalityType

\* A line leaves the buffer by an overflow exactly when it is counted.
LEMMA BufferLineCounts ==
  ASSUME PInv, Counted, NEW l \in Loggers, BufferLine(l)
  PROVE  Counted'
<1>. USE DEF bufferVars, flushVars, outcomeVars
<1>0. /\ UNCHANGED <<recs, delivered>>
      /\ accepted' = accepted + 1
  BY DEF BufferLine
<1>1. /\ Left \in Nat /\ accepted \in Nat /\ dropped \in Nat /\ Len(pending) \in Nat
      /\ Cardinality(InHand) \in Nat /\ Cardinality(delivered) \in Nat
  BY HandsFinite
<1>2. pending \in Seq(Nat) /\ BufferSize \in Nat /\ BufferSize >= 1 /\ accepted + 1 \in Nat
  BY <1>1, SizesAssumption DEF PInv, TypeOK
<1>3. InHand' = InHand /\ delivered' = delivered
  BY <1>0 DEF InHand, Held
<1>4. Left' - Left = dropped' - dropped /\ Left' \in Int /\ dropped' \in Nat
  <2>1. CASE Len(pending) >= BufferSize
    <3>1. pending' = Append(Tail(pending), accepted + 1) /\ dropped' = dropped + 1
      BY <1>0, <2>1 DEF BufferLine
    <3>2. pending # <<>>
      BY <1>1, <1>2, <2>1
    <3>3. Tail(pending) \in Seq(Nat) /\ Len(Tail(pending)) = Len(pending) - 1
      BY <1>2, <3>2, TailFacts
    <3>4. Len(pending') = Len(pending)
      BY <1>1, <1>2, <3>1, <3>3, AppendFacts
    <3>5. Left' = Left + 1
      BY <1>0, <1>1, <3>4 DEF Left
    <3>. QED BY <1>1, <3>1, <3>5
  <2>2. CASE ~(Len(pending) >= BufferSize)
    <3>1. pending' = Append(pending, accepted + 1) /\ dropped' = dropped
      BY <1>0, <2>2 DEF BufferLine
    <3>2. Len(pending') = Len(pending) + 1
      BY <1>2, <3>1, AppendFacts
    <3>3. Left' = Left
      BY <1>0, <1>1, <3>2 DEF Left
    <3>. QED BY <1>1, <3>1, <3>3
  <2>. QED BY <2>1, <2>2
<1>. QED BY <1>1, <1>3, <1>4 DEF Counted

\* The swap puts what is in the buffer into hands that were empty.
LEMMA TakeHands ==
  ASSUME PInv, NEW f \in Flushers, Take(f)
  PROVE  InHand' = InHand \cup Range(pending)
<1>1. at[f] = "take" /\ recs' = [recs EXCEPT ![f] = pending]
  BY DEF Take
<1>2. Held(f) = {}
  BY <1>1 DEF PInv, Owned, Held, Range
<1>3. \A g \in Flushers : Range(recs'[g]) = IF g = f THEN Range(pending) ELSE Range(recs[g])
  BY <1>1 DEF PInv, TypeOK
<1>. QED BY <1>2, <1>3 DEF InHand, Held

\* What a settled batch takes out of a flusher's hands, and how many lines it has.
LEMMA PostHands ==
  ASSUME PInv, NEW f \in Flushers, PostOk(f) \/ PostGivesUp(f)
  PROVE  /\ Batch(f) \subseteq InHand
         /\ InHand' = InHand \ Batch(f)
         /\ Cardinality(Batch(f)) = BatchSize(f)
<1>0. recs' = [recs EXCEPT ![f] = Rest(f)]
  BY DEF PostOk, PostGivesUp, Settle
<1>1. recs[f] \in Seq(Nat) /\ Run(recs[f])
  BY DEF PInv, TypeOK, Owned
<1>2. BatchSize(f) \in 0..Len(recs[f]) /\ BatchSize(f) \in Nat
  BY <1>1, QueueDomain, SizesAssumption DEF BatchSize
<1>3. Cardinality(Batch(f)) = BatchSize(f)
  <2>1. \A b : b = Range(SubSeq(recs[f], 1, BatchSize(f))) => Cardinality(b) = BatchSize(f)
    BY <1>1, <1>2, BatchCount
  <2>. QED BY <2>1 DEF Batch
<1>4. /\ Batch(f) \subseteq Held(f) /\ Batch(f) \cap Range(Rest(f)) = {}
      /\ Range(Rest(f)) \subseteq Held(f) /\ Held(f) \subseteq Batch(f) \cup Range(Rest(f))
  <2>1. \A b, r : b = Range(SubSeq(recs[f], 1, BatchSize(f)))
                 /\ r = SubSeq(recs[f], BatchSize(f) + 1, Len(recs[f]))
           => Range(recs[f]) \subseteq b \cup Range(r)
    BY <1>1, <1>2, Split
  <2>2. Batch(f) = Range(SubSeq(recs[f], 1, BatchSize(f)))
        /\ Rest(f) = SubSeq(recs[f], BatchSize(f) + 1, Len(recs[f]))
    BY DEF Batch, Rest
  <2>3. Held(f) \subseteq Batch(f) \cup Range(Rest(f))
    BY <2>1, <2>2, Zenon DEF Held
  <2>. QED BY <2>3, BatchFacts
<1>5. InHand' = InHand \ Batch(f)
  <2>1. \A g \in Flushers : recs'[g] = IF g = f THEN Rest(f) ELSE recs[g]
    BY <1>0 DEF PInv, TypeOK
  <2>2. \A g \in Flushers : Range(recs'[g]) = IF g = f THEN Held(f) \ Batch(f) ELSE Held(g)
    BY <1>4, <2>1 DEF Held
  <2>3. \A g \in Flushers \ {f} : Held(g) \cap Batch(f) = {}
    BY <1>4 DEF PInv, Owned
  <2>4. InHand' = UNION {Range(recs'[g]) : g \in Flushers}
    BY DEF InHand, Held
  <2>. QED BY <2>2, <2>3, <2>4 DEF InHand
<1>6. Batch(f) \subseteq InHand
  BY <1>4 DEF InHand
<1>. QED BY <1>3, <1>5, <1>6

\* A swap moves lines, and loses none.
LEMMA TakeCounts ==
  ASSUME PInv, Counted, NEW f \in Flushers, Take(f)
  PROVE  Counted'
<1>. USE DEF bufferVars, flushVars, outcomeVars
<1>0. /\ UNCHANGED <<accepted, dropped, delivered>> /\ pending' = <<>> /\ at[f] = "take"
      /\ recs' = [recs EXCEPT ![f] = pending]
  BY DEF Take
<1>1. /\ Left \in Nat /\ accepted \in Nat /\ dropped \in Nat /\ Len(pending) \in Nat
      /\ InHand \subseteq 1..Left /\ IsFiniteSet(InHand)
      /\ Cardinality(InHand) \in Nat /\ Cardinality(delivered) \in Nat
  BY HandsFinite
<1>2. Left' = accepted /\ Left <= accepted /\ accepted - Left = Len(pending)
  BY <1>0, <1>1 DEF Left
<1>. DEFINE new == (Left + 1)..accepted
<1>3. Range(pending) = new
  BY WaitingRange
<1>4. IsFiniteSet(new) /\ Cardinality(new) = accepted - Left
  <2>1. Left + 1 \in Int /\ accepted \in Int
    BY <1>1
  <2>2. IsFiniteSet(new) /\ Cardinality(new) = IF Left + 1 > accepted THEN 0 ELSE accepted - (Left + 1) + 1
    BY <2>1, FS_Interval
  <2>. QED BY <1>1, <1>2, <2>2
<1>. HIDE DEF new
<1>5. InHand' = InHand \cup new
  BY <1>3, TakeHands
<1>7. InHand \cap new = {}
  BY <1>1 DEF new
<1>8. Cardinality(InHand') = Cardinality(InHand) + (accepted - Left)
  <2>1. Cardinality(InHand \cup new) = Cardinality(InHand) + Cardinality(new)
    BY <1>1, <1>4, <1>7, PartAdded
  <2>. QED BY <1>4, <1>5, <2>1
<1>9. delivered' = delivered /\ dropped' = dropped
  BY <1>0
<1>10. Left = Cardinality(InHand) + Cardinality(delivered) + dropped
  BY DEF Counted
<1>11. Left' = Cardinality(InHand') + Cardinality(delivered') + dropped'
  <2>. DEFINE h == Cardinality(InHand)
              d == Cardinality(delivered)
  <2>1. h \in Nat /\ d \in Nat /\ dropped \in Nat /\ Left \in Nat /\ accepted \in Nat
    BY <1>1
  <2>2. Left = h + d + dropped
    BY <1>10
  <2>3. Left' = accepted /\ Cardinality(InHand') = h + (accepted - Left)
        /\ Cardinality(delivered') = d /\ dropped' = dropped
    BY <1>2, <1>8, <1>9
  <2>. HIDE DEF h, d
  <2>4. accepted = (h + (accepted - Left)) + d + dropped
    BY ONLY <2>1, <2>2
  <2>. QED BY ONLY <2>3, <2>4
<1>. QED BY <1>11 DEF Counted

\* A settled batch goes to delivered, or is counted as dropped, as a whole.
LEMMA PostCounts ==
  ASSUME PInv, Counted, NEW f \in Flushers, PostOk(f) \/ PostGivesUp(f)
  PROVE  Counted'
<1>. USE DEF bufferVars, flushVars, outcomeVars
<1>0. UNCHANGED <<pending, accepted>> /\ recs' = [recs EXCEPT ![f] = Rest(f)]
  BY DEF PostOk, PostGivesUp, Settle
<1>1. /\ Left \in Nat /\ dropped \in Nat
      /\ IsFiniteSet(InHand) /\ Cardinality(InHand) \in Nat
      /\ IsFiniteSet(delivered) /\ Cardinality(delivered) \in Nat
      /\ InHand \cap delivered = {}
  BY HandsFinite
<1>2. BatchSize(f) \in Nat
  BY BatchFacts
<1>3. Batch(f) \subseteq InHand /\ InHand' = InHand \ Batch(f) /\ Cardinality(Batch(f)) = BatchSize(f)
  BY PostHands
<1>4. /\ Cardinality(InHand \ Batch(f)) = Cardinality(InHand) - BatchSize(f)
      /\ Cardinality(delivered \cup Batch(f)) = Cardinality(delivered) + BatchSize(f)
  <2>1. IsFiniteSet(Batch(f)) /\ delivered \cap Batch(f) = {}
    BY <1>1, <1>3, FS_Subset
  <2>2. Cardinality(InHand \ Batch(f)) = Cardinality(InHand) - Cardinality(Batch(f))
    BY <1>1, <1>3, PartTaken
  <2>3. Cardinality(delivered \cup Batch(f)) = Cardinality(delivered) + Cardinality(Batch(f))
    BY <1>1, <2>1, PartAdded
  <2>. QED BY <1>3, <2>2, <2>3
<1>5. Left' = Left
  BY <1>0 DEF Left
<1>6. CASE PostOk(f)
  <2>1. delivered' = delivered \cup Batch(f) /\ dropped' = dropped
    BY <1>6 DEF PostOk
  <2>. QED BY <1>1, <1>2, <1>3, <1>4, <1>5, <2>1 DEF Counted
<1>7. CASE PostGivesUp(f)
  <2>1. delivered' = delivered /\ dropped' = dropped + BatchSize(f)
    BY <1>7 DEF PostGivesUp
  <2>. QED BY <1>1, <1>2, <1>3, <1>4, <1>5, <2>1 DEF Counted
<1>. QED BY <1>6, <1>7

\* Nothing vanishes: every accepted line is buffered, in a flusher's hands,
\* delivered or counted by p.dropped.
THEOREM EveryLineIsAccounted == Spec => []Accounted
<1>1. Init => Counted
  <2>. SUFFICES ASSUME Init PROVE Counted
    OBVIOUS
  <2>1. /\ Len(pending) = 0 /\ accepted = 0 /\ dropped = 0 /\ delivered = {}
        /\ \A f \in Flushers : recs[f] = <<>>
    BY DEF Init
  <2>2. InHand = {}
    BY <2>1 DEF InHand, Held, Range
  <2>. QED BY <2>1, <2>2, FS_EmptySet DEF Counted, Left
<1>2. PInv /\ Counted /\ [Next]_vars => Counted'
  <2>. SUFFICES ASSUME PInv, Counted, [Next]_vars PROVE Counted'
    OBVIOUS
  <2>1. ASSUME UNCHANGED <<pending, accepted, dropped, recs, delivered>> PROVE Counted'
    BY <2>1 DEF Counted, Left, InHand, Held
  <2>2. ASSUME NEW l \in Loggers, BufferLine(l) \/ Signal(l) PROVE Counted'
    <3>1. CASE BufferLine(l)
      BY <3>1, BufferLineCounts
    <3>2. CASE Signal(l)
      BY <2>1, <3>2 DEF Signal, flushVars, outcomeVars
    <3>. QED BY <2>2, <3>1, <3>2
  <2>3. CASE Tick \/ Signalled
    BY <2>1, <2>3 DEF Tick, Signalled, bufferVars, outcomeVars
  <2>4. ASSUME NEW f \in Callers, FlushLogs(f) PROVE Counted'
    BY <2>1, <2>4 DEF FlushLogs, bufferVars, outcomeVars
  <2>5. ASSUME NEW f \in Flushers, FlushNow(f) PROVE Counted'
    <3>1. CASE Take(f)
      BY <3>1, TakeCounts
    <3>2. CASE PostOk(f) \/ PostGivesUp(f)
      BY <3>2, PostCounts
    <3>3. CASE PostRetries(f)
      BY <2>1, <3>3 DEF PostRetries, bufferVars
    <3>. QED BY <2>5, <3>1, <3>2, <3>3 DEF FlushNow
  <2>6. CASE UNCHANGED vars
    BY <2>1, <2>6 DEF vars, bufferVars, flushVars, outcomeVars
  <2>. QED BY <2>2, <2>3, <2>4, <2>5, <2>6 DEF Next
<1>3. PInv /\ Counted => Accounted
  <2>. SUFFICES ASSUME PInv, Counted PROVE Accounted
    OBVIOUS
  <2>1. /\ accepted \in Nat /\ dropped \in Nat /\ Len(pending) \in Nat
        /\ Cardinality(InHand) \in Nat /\ Cardinality(delivered) \in Nat
    BY HandsFinite
  <2>2. accepted - Len(pending) = Cardinality(InHand) + Cardinality(delivered) + dropped
    BY DEF Counted, Left
  <2>3. accepted = Len(pending) + Cardinality(InHand) + Cardinality(delivered) + dropped
    BY <2>1, <2>2
  <2>. QED BY <2>3 DEF Accounted, InHand
<1>. QED BY Invariance, <1>1, <1>2, <1>3, PTL DEF Spec
-----------------------------------------------------------------------------
(* The refinement: every step of the pipeline is a step of BestEffortLog,  *)
(* or none.                                                                *)

\* An overflow of the buffer gives up the oldest of the waiting lines.
LEMMA BufferLineAccepts ==
  ASSUME PInv, PInv', NEW l \in Loggers, BufferLine(l)
  PROVE  Log!Accept
<1>. USE DEF bufferVars, flushVars, outcomeVars
<1>0. UNCHANGED <<at, recs, attempt, delivered, stored>> /\ accepted' = accepted + 1
  BY DEF BufferLine
<1>1. /\ Left \in Nat /\ accepted \in Nat /\ dropped \in Nat /\ Len(pending) \in Nat
      /\ pending \in Seq(Nat) /\ BufferSize \in Nat /\ BufferSize >= 1
  BY HandsFinite, SizesAssumption DEF PInv, TypeOK
<1>2. InHand' = InHand /\ Retried' = Retried
  BY <1>0 DEF InHand, Held, Retried, Batch, BatchSize
<1>3. Range(pending) = (Left + 1)..accepted
  BY WaitingRange
<1>4. Range(pending') = (Left' + 1)..(accepted + 1)
  <2>1. /\ pending' \in Seq(Nat) /\ accepted' \in Nat /\ Left' \in Nat
        /\ Newest(pending', accepted')
    BY DEF PInv, TypeOK, Owned, PendingIsNewest, Newest
  <2>2. accepted' - Len(pending') = Left'
    BY DEF Left
  <2>3. Range(pending') = (Left' + 1)..accepted'
    BY <2>1, <2>2, NewestRange
  <2>. QED BY <1>0, <2>3
<1>5. CASE Len(pending) >= BufferSize
  <2>1. pending' = Append(Tail(pending), accepted + 1) /\ dropped' = dropped + 1
    BY <1>0, <1>5 DEF BufferLine
  <2>2. pending # <<>>
    BY <1>1, <1>5
  <2>3. Tail(pending) \in Seq(Nat) /\ Len(Tail(pending)) = Len(pending) - 1
    BY <1>1, <2>2, TailFacts
  <2>4. Len(pending') = Len(pending)
    BY <1>1, <2>1, <2>3, AppendFacts
  <2>5. Left' = Left + 1 /\ Left + 1 <= accepted
    BY <1>0, <1>1, <1>5, <2>4 DEF Left
  <2>6. /\ Left + 1 \in Range(pending)
        /\ \A n \in Range(pending) : Left + 1 <= n
        /\ Range(pending') = (Range(pending) \ {Left + 1}) \cup {accepted + 1}
    BY <1>1, <1>3, <1>4, <2>5
  <2>. QED BY <1>0, <1>2, <2>1, <2>6 DEF Log!Accept
<1>6. CASE ~(Len(pending) >= BufferSize)
  <2>1. pending' = Append(pending, accepted + 1) /\ dropped' = dropped
    BY <1>0, <1>6 DEF BufferLine
  <2>2. Len(pending') = Len(pending) + 1
    BY <1>1, <2>1, AppendFacts
  <2>3. Left' = Left
    BY <1>0, <1>1, <2>2 DEF Left
  <2>4. Left <= accepted
    BY <1>1 DEF Left
  <2>5. Range(pending') = Range(pending) \cup {accepted + 1}
    BY <1>1, <1>3, <1>4, <2>3, <2>4
  <2>. QED BY <1>0, <1>2, <2>1, <2>5 DEF Log!Accept
<1>. QED BY <1>5, <1>6

\* A swap hands over all that waits.
LEMMA TakeHandsOver ==
  ASSUME PInv, NEW f \in Flushers, Take(f)
  PROVE  Log!HandOver
<1>. USE DEF bufferVars, flushVars, outcomeVars
<1>1. /\ UNCHANGED <<accepted, dropped, attempt, delivered, stored>> /\ pending' = <<>>
      /\ at[f] = "take" /\ recs' = [recs EXCEPT ![f] = pending]
  BY DEF Take
<1>2. Range(pending') = {}
  BY <1>1 DEF Range
<1>3. InHand' = InHand \cup Range(pending)
  BY TakeHands
<1>4. Retried' = Retried
  <2>1. attempt[f] = 0
    BY <1>1 DEF PInv, Owned
  <2>2. \A g \in Flushers : attempt[g] = 1 => Batch(g)' = Batch(g)
    <3>1. \A g \in Flushers \ {f} : recs'[g] = recs[g]
      BY <1>1 DEF PInv, TypeOK
    <3>. QED BY <2>1, <3>1 DEF Batch, BatchSize
  <2>. QED BY <1>1, <2>2 DEF Retried
<1>. QED BY <1>1, <1>2, <1>3, <1>4 DEF Log!HandOver

\* Two flushers never have a line in common.
LEMMA BatchesApart ==
  ASSUME PInv, NEW f \in Flushers, NEW g \in Flushers \ {f}
  PROVE  Batch(f) \cap Batch(g) = {} /\ Batch(f) \subseteq InHand
<1>1. Batch(f) \subseteq Held(f) /\ Batch(g) \subseteq Held(g)
  BY BatchFacts
<1>2. Held(f) \cap Held(g) = {}
  BY DEF PInv, Owned
<1>. QED BY <1>1, <1>2 DEF InHand

\* A settled batch is no longer among those that failed once.
LEMMA PostClears ==
  ASSUME PInv, NEW f \in Flushers, PostOk(f) \/ PostGivesUp(f)
  PROVE  Retried' = Retried \ Batch(f)
<1>1. recs' = [recs EXCEPT ![f] = Rest(f)] /\ attempt' = [attempt EXCEPT ![f] = 0]
  BY DEF PostOk, PostGivesUp, Settle
<1>2. attempt'[f] = 0 /\ \A g \in Flushers \ {f} : attempt'[g] = attempt[g] /\ Batch(g)' = Batch(g)
  BY <1>1 DEF PInv, TypeOK, Batch, BatchSize
<1>3. Retried' = UNION {Batch(g) : g \in {h \in Flushers \ {f} : attempt[h] = 1}}
  BY <1>2 DEF Retried
<1>4. \A g \in Flushers \ {f} : Batch(g) \cap Batch(f) = {}
  BY BatchesApart
<1>. QED BY <1>3, <1>4 DEF Retried

\* A POST that is answered ships its batch.
LEMMA PostOkShips ==
  ASSUME PInv, NEW f \in Flushers, PostOk(f)
  PROVE  Log!Ship(Batch(f)) /\ Batch(f) \subseteq InHand
<1>. USE DEF bufferVars, flushVars, outcomeVars
<1>1. /\ UNCHANGED <<pending, accepted, dropped>>
      /\ ServerStores(f) /\ delivered' = delivered \cup Batch(f)
  BY DEF PostOk
<1>2. Batch(f) \subseteq InHand /\ InHand' = InHand \ Batch(f) /\ Retried' = Retried \ Batch(f)
  BY PostHands, PostClears
<1>3. Log!Stored(Batch(f))
  BY <1>1 DEF ServerStores, Log!Stored
<1>. QED BY <1>1, <1>2, <1>3 DEF Log!Ship, Log!Settled

\* A first failure is one of lines that have not failed before.
LEMMA PostRetriesFails ==
  ASSUME PInv, NEW f \in Flushers, PostRetries(f)
  PROVE  Log!Fail(Batch(f)) /\ Batch(f) \subseteq InHand
<1>. USE DEF bufferVars, flushVars, outcomeVars
<1>1. /\ UNCHANGED <<pending, accepted, dropped, recs, delivered>>
      /\ attempt[f] = 0 /\ attempt' = [attempt EXCEPT ![f] = 1]
      /\ ServerStores(f) \/ UNCHANGED stored
  BY DEF PostRetries
<1>2. \A g \in Flushers : Batch(g)' = Batch(g) /\ Held(g)' = Held(g)
  BY <1>1 DEF Batch, BatchSize, Held
<1>3. InHand' = InHand
  BY <1>2 DEF InHand
<1>4. \A g \in Flushers : attempt'[g] = IF g = f THEN 1 ELSE attempt[g]
  BY <1>1 DEF PInv, TypeOK
<1>5. Retried' = Retried \cup Batch(f)
  BY <1>2, <1>4 DEF Retried
<1>6. Batch(f) \subseteq InHand
  BY BatchFacts DEF InHand
<1>7. Batch(f) \cap Retried = {}
  <2>1. \A g \in Flushers \ {f} : Batch(f) \cap Batch(g) = {}
    BY BatchesApart
  <2>. QED BY <1>1, <2>1 DEF Retried
<1>8. ServerStores(f) => Log!Stored(Batch(f))
  BY DEF ServerStores, Log!Stored
<1>. QED BY <1>1, <1>3, <1>5, <1>6, <1>7, <1>8 DEF Log!Fail

\* What is given up has failed once before, or was never posted, and is counted
\* line by line.
LEMMA PostGivesUpCounts ==
  ASSUME PInv, NEW f \in Flushers, PostGivesUp(f)
  PROVE  Log!GiveUp(Batch(f)) /\ Batch(f) \subseteq InHand
<1>. USE DEF bufferVars, flushVars, outcomeVars
<1>1. /\ UNCHANGED <<pending, accepted, delivered>>
      /\ dropped' = dropped + BatchSize(f)
      /\ \/ attempt[f] = 1 /\ (ServerStores(f) \/ UNCHANGED stored)
         \/ attempt[f] = 0 /\ UNCHANGED stored
  BY DEF PostGivesUp
<1>2. /\ Batch(f) \subseteq InHand /\ InHand' = InHand \ Batch(f) /\ Retried' = Retried \ Batch(f)
      /\ Cardinality(Batch(f)) = BatchSize(f)
  BY PostHands, PostClears
<1>3. IF attempt[f] = 1 THEN Batch(f) \subseteq Retried ELSE Batch(f) \cap Retried = {}
  <2>1. CASE attempt[f] = 1
    BY <2>1 DEF Retried
  <2>2. CASE attempt[f] # 1
    <3>1. \A g \in Flushers \ {f} : Batch(f) \cap Batch(g) = {}
      BY BatchesApart
    <3>. QED BY <2>2, <3>1 DEF Retried
  <2>. QED BY <2>1, <2>2
<1>4. ServerStores(f) => Log!Stored(Batch(f))
  BY DEF ServerStores, Log!Stored
<1>5. Log!Cardinality(Batch(f)) = Cardinality(Batch(f))
  BY DEF Log!Cardinality, Cardinality
<1>6. \/ Batch(f) \subseteq Retried /\ (Log!Stored(Batch(f)) \/ UNCHANGED stored)
      \/ Batch(f) \subseteq InHand \ Retried /\ UNCHANGED stored
  BY <1>1, <1>2, <1>3, <1>4
<1>. QED BY <1>1, <1>2, <1>5, <1>6 DEF Log!GiveUp, Log!Settled

\* Signals, ticks and calls of FlushLogs move no line.
LEMMA OthersMoveNothing ==
  ASSUME UNCHANGED <<pending, accepted, dropped, recs, attempt, delivered, stored>>
  PROVE  UNCHANGED Log!logVars
<1>1. InHand' = InHand /\ Retried' = Retried
  BY DEF InHand, Held, Retried, Batch, BatchSize
<1>. QED BY <1>1 DEF Log!logVars

\* The pipeline, for any number of flushing goroutines and any sizes, is a
\* best-effort log: it gives up the oldest lines and no other on overflow, posts
\* each line in one batch and at most twice, and counts all that it gives up.
THEOREM Implements == Spec => ImplementsBestEffort
<1>1. Init => Log!Init
  <2>. SUFFICES ASSUME Init PROVE Log!Init
    OBVIOUS
  <2>1. /\ Range(pending) = {} /\ accepted = 0 /\ dropped = 0 /\ delivered = {}
        /\ stored = [n \in Lines |-> 0]
        /\ \A f \in Flushers : Range(recs[f]) = {} /\ attempt[f] = 0
    BY DEF Init, Range
  <2>2. InHand = {} /\ Retried = {}
    BY <2>1 DEF InHand, Held, Retried
  <2>. QED BY <2>1, <2>2 DEF Log!Init
<1>2. PInv /\ PInv' /\ [Next]_vars => [Log!Next]_(Log!logVars)
  <2>. SUFFICES ASSUME PInv, PInv', [Next]_vars
                PROVE  Log!Next \/ UNCHANGED Log!logVars
    OBVIOUS
  <2>1. ASSUME NEW l \in Loggers, BufferLine(l) PROVE Log!Next
    BY <2>1, BufferLineAccepts DEF Log!Next
  <2>2. ASSUME NEW f \in Flushers, FlushNow(f) PROVE Log!Next
    <3>1. CASE Take(f)
      BY <3>1, TakeHandsOver DEF Log!Next
    <3>2. CASE PostOk(f)
      BY <3>2, PostOkShips DEF Log!Next
    <3>3. CASE PostRetries(f)
      BY <3>3, PostRetriesFails DEF Log!Next
    <3>4. CASE PostGivesUp(f)
      BY <3>4, PostGivesUpCounts DEF Log!Next
    <3>. QED BY <2>2, <3>1, <3>2, <3>3, <3>4 DEF FlushNow
  <2>3. ASSUME \/ \E l \in Loggers : Signal(l)
               \/ Tick \/ Signalled
               \/ \E f \in Callers : FlushLogs(f)
               \/ UNCHANGED vars
        PROVE  UNCHANGED Log!logVars
    <3>1. UNCHANGED <<pending, accepted, dropped, recs, attempt, delivered, stored>>
      BY <2>3 DEF Signal, Tick, Signalled, FlushLogs, vars, bufferVars, flushVars, outcomeVars
    <3>. QED BY <3>1, OthersMoveNothing
  <2>. QED BY <2>1, <2>2, <2>3 DEF Next
<1>. QED BY <1>1, <1>2, Invariance, PTL DEF Spec, ImplementsBestEffort, Log!Spec
=============================================================================
