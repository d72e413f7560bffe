---------------------------- MODULE LogPipeline ----------------------------
(***************************************************************************)
(* Log shipping (logs.go): goroutines buffer lines under p.mu; a           *)
(* background goroutine swaps the buffer out on a ticker or on a line      *)
(* count, and POSTs it in batches; FlushLogs runs the same loop on its     *)
(* caller's goroutine, at the same time.                                   *)
(*                                                                         *)
(* A line is represented by its number in the order in which the mutex     *)
(* admitted the lines.  A POST ends well, or fails with the batch stored   *)
(* (the answer was late or lost) or not stored.  p.stop has no case here:  *)
(* nothing in the code closes it.                                          *)
(***************************************************************************)
EXTENDS Integers, Sequences, Functions, FiniteSets

CONSTANTS Loggers,     \* goroutines that log
          Callers,     \* goroutines that call FlushLogs
          Background,  \* the goroutine of logPipeline.run
          BufferSize,  \* logBufferSize (1024)
          FlushLines,  \* logFlushLines (50)
          MaxBatch,    \* logMaxBatch (1000)
          MaxLines     \* bound of the model: lines ever logged

ASSUME SizesAssumption ==
  BufferSize \in Nat \ {0} /\ FlushLines \in Nat \ {0} /\ MaxBatch \in Nat \ {0}
ASSUME BackgroundAssumption == Background \notin Callers
ASSUME MaxLinesAssumption == MaxLines \in Nat

Flushers == Callers \cup {Background}
Lines == 1..MaxLines

VARIABLES
  pending,    \* p.pending
  dropped,    \* p.dropped
  signal,     \* p.signal holds a token (capacity 1)
  logger,     \* where each logging goroutine stands in logLine
  at,         \* where each flushing goroutine stands in flushNow
  recs,       \* what it took and has not settled
  attempt,    \* its attempt at the batch at the head of recs
  accepted,   \* history: how many lines were buffered so far
  delivered,  \* history: the lines whose POST was answered with 2xx
  stored,     \* history: how often the server stored each line
  asked       \* history: accepted, at the caller's last call of FlushLogs

bufferVars  == <<pending, signal, accepted>>
flushVars   == <<at, recs, attempt>>
outcomeVars == <<delivered, stored>>
vars == <<bufferVars, dropped, logger, flushVars, outcomeVars, asked>>

Init ==
  /\ pending = <<>> /\ dropped = 0 /\ signal = FALSE
  /\ logger = [l \in Loggers |-> "idle"]
  /\ at = [f \in Flushers |-> "idle"]
  /\ recs = [f \in Flushers |-> <<>>]
  /\ attempt = [f \in Flushers |-> 0]
  /\ accepted = 0
  /\ delivered = {}
  /\ stored = [n \in Lines |-> 0]
  /\ asked = [f \in Callers |-> 0]

-----------------------------------------------------------------------------
(* logLine.                                                                *)

\* Seeded bug: on overflow writes the new line over the newest one.
BufferLineInPlace(l) ==
  /\ logger[l] = "idle"
  /\ accepted + 1 \in Lines
  /\ accepted' = accepted + 1
  /\ IF Len(pending) >= BufferSize
     THEN pending' = [pending EXCEPT ![Len(pending)] = accepted'] /\ dropped' = dropped + 1
     ELSE pending' = Append(pending, accepted') /\ UNCHANGED dropped
  /\ logger' = [logger EXCEPT ![l] = IF Len(pending') >= FlushLines THEN "signal" ELSE "idle"]
  /\ UNCHANGED <<signal, flushVars, outcomeVars, asked>>

\* Seeded bug: appends whatever the length.
BufferLineUnbounded(l) ==
  /\ logger[l] = "idle"
  /\ accepted + 1 \in Lines
  /\ accepted' = accepted + 1
  /\ pending' = Append(pending, accepted')
  /\ logger' = [logger EXCEPT ![l] = IF Len(pending') >= FlushLines THEN "signal" ELSE "idle"]
  /\ UNCHANGED <<signal, dropped, flushVars, outcomeVars, asked>>

\* Seeded bug: compares the length before the append.
BufferLineFullLate(l) ==
  /\ logger[l] = "idle"
  /\ accepted + 1 \in Lines
  /\ accepted' = accepted + 1
  /\ IF Len(pending) >= BufferSize
     THEN pending' = Append(Tail(pending), accepted') /\ dropped' = dropped + 1
     ELSE pending' = Append(pending, accepted') /\ UNCHANGED dropped
  /\ logger' = [logger EXCEPT ![l] = IF Len(pending) >= FlushLines THEN "signal" ELSE "idle"]
  /\ UNCHANGED <<signal, flushVars, outcomeVars, asked>>

\* The part under p.mu: shift out the oldest line of a full buffer.
BufferLine(l) ==
  /\ logger[l] = "idle"
  /\ accepted + 1 \in Lines
  /\ accepted' = accepted + 1
  /\ IF Len(pending) >= BufferSize
     THEN pending' = Append(Tail(pending), accepted') /\ dropped' = dropped + 1
     ELSE pending' = Append(pending, accepted') /\ UNCHANGED dropped
  /\ logger' = [logger EXCEPT ![l] = IF Len(pending') >= FlushLines THEN "signal" ELSE "idle"]
  /\ UNCHANGED <<signal, flushVars, outcomeVars, asked>>

\* select { case p.signal <- struct{}{}: default: }
Signal(l) ==
  /\ logger[l] = "signal"
  /\ signal' = TRUE
  /\ logger' = [logger EXCEPT ![l] = "idle"]
  /\ UNCHANGED <<pending, accepted, dropped, flushVars, outcomeVars, asked>>

-----------------------------------------------------------------------------
(* The two ways into flushNow.                                             *)

\* Seeded bug: the ticker flushes full buffers only.
TickWhenFull ==
  /\ at[Background] = "idle"
  /\ Len(pending) >= FlushLines
  /\ at' = [at EXCEPT ![Background] = "take"]
  /\ UNCHANGED <<bufferVars, dropped, logger, recs, attempt, outcomeVars, asked>>

\* case <-t.C
Tick ==
  /\ at[Background] = "idle"
  /\ at' = [at EXCEPT ![Background] = "take"]
  /\ UNCHANGED <<bufferVars, dropped, logger, recs, attempt, outcomeVars, asked>>

\* case <-p.signal
Signalled ==
  /\ at[Background] = "idle"
  /\ signal
  /\ signal' = FALSE
  /\ at' = [at EXCEPT ![Background] = "take"]
  /\ UNCHANGED <<pending, accepted, dropped, logger, recs, attempt, outcomeVars, asked>>

\* Seeded bug: pokes the background flusher and returns.
FlushLogsPokes(f) ==
  /\ at[f] = "idle"
  /\ signal' = TRUE
  /\ asked' = [asked EXCEPT ![f] = accepted]
  /\ UNCHANGED <<pending, accepted, dropped, logger, flushVars, outcomeVars>>

FlushLogs(f) ==
  /\ at[f] = "idle"
  /\ at' = [at EXCEPT ![f] = "take"]
  /\ asked' = [asked EXCEPT ![f] = accepted]
  /\ UNCHANGED <<bufferVars, dropped, logger, recs, attempt, outcomeVars>>

-----------------------------------------------------------------------------
(* flushNow and post.                                                      *)

\* Seeded bug: forgets to replace the buffer it hands out.
TakeShares(f) ==
  /\ at[f] = "take"
  /\ recs' = [recs EXCEPT ![f] = pending]
  /\ at' = [at EXCEPT ![f] = IF pending = <<>> THEN "idle" ELSE "post"]
  /\ UNCHANGED <<bufferVars, dropped, logger, attempt, outcomeVars, asked>>

\* Swap the buffer out; an empty one ends the loop.
Take(f) ==
  /\ at[f] = "take"
  /\ recs' = [recs EXCEPT ![f] = pending]
  /\ pending' = <<>>
  /\ at' = [at EXCEPT ![f] = IF pending = <<>> THEN "idle" ELSE "post"]
  /\ UNCHANGED <<signal, accepted, dropped, logger, attempt, outcomeVars, asked>>

BatchSize(f) == IF Len(recs[f]) < MaxBatch THEN Len(recs[f]) ELSE MaxBatch
Batch(f) == Range(SubSeq(recs[f], 1, BatchSize(f)))
Rest(f) == SubSeq(recs[f], BatchSize(f) + 1, Len(recs[f]))

\* Seeded bug: after a batch goes back to the buffer.
SettleFirstBatch(f) ==
  /\ recs' = [recs EXCEPT ![f] = <<>>]
  /\ attempt' = [attempt EXCEPT ![f] = 0]
  /\ at' = [at EXCEPT ![f] = "take"]

\* recs = recs[n:]
Settle(f) ==
  /\ recs' = [recs EXCEPT ![f] = Rest(f)]
  /\ attempt' = [attempt EXCEPT ![f] = 0]
  /\ at' = [at EXCEPT ![f] = IF Rest(f) = <<>> THEN "take" ELSE "post"]

ServerStores(f) ==
  stored' = [n \in Lines |-> IF n \in Batch(f) THEN stored[n] + 1 ELSE stored[n]]

PostOk(f) ==
  /\ at[f] = "post"
  /\ ServerStores(f)
  /\ delivered' = delivered \cup Batch(f)
  /\ Settle(f)
  /\ UNCHANGED <<bufferVars, dropped, logger, asked>>

\* Seeded bug: retries for as long as the POST fails.
PostRetriesForever(f) ==
  /\ at[f] = "post"
  /\ attempt' = [attempt EXCEPT ![f] = 1]
  /\ ServerStores(f) \/ UNCHANGED stored
  /\ UNCHANGED <<bufferVars, dropped, logger, at, recs, delivered, asked>>

\* The first failure is retried.
PostRetries(f) ==
  /\ at[f] = "post"
  /\ attempt[f] = 0
  /\ attempt' = [attempt EXCEPT ![f] = 1]
  /\ ServerStores(f) \/ UNCHANGED stored
  /\ UNCHANGED <<bufferVars, dropped, logger, at, recs, delivered, asked>>

\* Seeded bug: puts a failed batch back into the buffer for the next flush.
PostRequeues(f) ==
  /\ at[f] = "post"
  /\ attempt[f] = 1
  /\ ServerStores(f) \/ UNCHANGED stored
  /\ pending' = SubSeq(recs[f], 1, BatchSize(f)) \o pending
  /\ Settle(f)
  /\ UNCHANGED <<signal, accepted, dropped, logger, delivered, asked>>

\* The second failure drops the batch and counts it; so does http.NewRequest
\* when it rejects the URL, before any POST.
PostGivesUp(f) ==
  /\ at[f] = "post"
  /\ \/ attempt[f] = 1 /\ (ServerStores(f) \/ UNCHANGED stored)
     \/ attempt[f] = 0 /\ UNCHANGED stored
  /\ dropped' = dropped + BatchSize(f)
  /\ Settle(f)
  /\ UNCHANGED <<bufferVars, logger, delivered, asked>>

FlushNow(f) == Take(f) \/ PostOk(f) \/ PostRetries(f) \/ PostGivesUp(f)

-----------------------------------------------------------------------------
Next ==
  \/ \E l \in Loggers : BufferLine(l) \/ Signal(l)
  \/ Tick \/ Signalled
  \/ \E f \in Callers : FlushLogs(f)
  \/ \E f \in Flushers : FlushNow(f)

Spec == Init /\ [][Next]_vars

\* The ticker ticks, goroutines are scheduled, and the HTTP client's timeout
\* ends every POST.  Nobody has to log or to call FlushLogs.
Fairness ==
  /\ \A l \in Loggers : WF_vars(Signal(l))
  /\ WF_vars(Tick)
  /\ \A f \in Flushers : WF_vars(FlushNow(f))

FairSpec == Spec /\ Fairness

-----------------------------------------------------------------------------
TypeOK ==
  /\ pending \in Seq(Nat) /\ Len(pending) <= BufferSize
  /\ dropped \in Nat
  /\ signal \in BOOLEAN
  /\ logger \in [Loggers -> {"idle", "signal"}]
  /\ at \in [Flushers -> {"idle", "take", "post"}]
  /\ recs \in [Flushers -> Seq(Nat)]
  /\ attempt \in [Flushers -> {0, 1}]
  /\ accepted \in Nat
  /\ delivered \in SUBSET Nat
  /\ stored \in [Lines -> Nat]
  /\ asked \in [Callers -> Nat]

\* The buffer is always the newest run of lines: an overflow gives up the
\* oldest and no line is skipped or reordered, whoever swaps the buffer out.
PendingIsNewest == \A i \in DOMAIN pending : pending[i] = accepted - Len(pending) + i

Held(f) == Range(recs[f])

\* The lines that some flusher took and has not settled.
InHand == UNION {Held(f) : f \in Flushers}

\* A line has one owner: the buffer or one flushing goroutine, never two, so
\* the background flusher and FlushLogs never ship it both.
OneOwner ==
  \A f \in Flushers :
    /\ Held(f) \cap Range(pending) = {}
    /\ Held(f) \cap delivered = {}
    /\ \A g \in Flushers \ {f} : Held(f) \cap Held(g) = {}

\* Nothing vanishes: each accepted line is buffered, in a flusher's hands,
\* delivered, or counted by p.dropped, which counts nothing else.
Accounted ==
  accepted = Len(pending) + Cardinality(InHand) + Cardinality(delivered) + dropped

\* One retry: the server stores a line twice at most, though two goroutines
\* flush and an answer may be lost after the batch was stored.
AtMostTwice == \A n \in Lines : stored[n] <= 2

\* No lost signal: when enough lines are buffered and the background flusher
\* rests, the token is there or a logger is about to put it, so the lines do
\* not wait for the ticker.
NoLostSignal ==
  Len(pending) >= FlushLines =>
    signal \/ at[Background] = "take" \/ \E l \in Loggers : logger[l] = "signal"

Unsettled(n) == n \in Range(pending) \/ \E f \in Flushers : n \in Held(f)

\* Every line is eventually delivered or dropped: none stays in memory.
EventuallySettled == \A n \in Lines : accepted >= n ~> ~Unsettled(n)

\* When FlushLogs returns, the buffer holds no line that was logged before it
\* was called.
FlushEmpties ==
  \A f \in Callers : at[f] = "idle" => \A n \in Range(pending) : n > asked[f]

\* The lines whose first POST failed.
Retried == UNION {Batch(f) : f \in {g \in Flushers : attempt[g] = 1}}

\* Log shipping, with its buffer, batches and goroutines, implements the log
\* that package comments promise (logs.go:9-10, 175-176).
Log == INSTANCE BestEffortLog WITH
         waiting <- Range(pending), posting <- InHand, failed <- Retried,
         shipped <- delivered, lost <- dropped, copies <- stored

ImplementsBestEffort == Log!Spec
=============================================================================
