------------------------------ MODULE Delivery ------------------------------
(***************************************************************************)
(* The event path of client.go: goroutines that end spans enqueue events   *)
(* into the replay buffer and poke a wake channel; one sender goroutine    *)
(* dials, replays everything above the last acknowledged number and then   *)
(* follows live events; one receiver goroutine per stream forwards the     *)
(* server's acknowledgements through a bounded channel.                    *)
(*                                                                         *)
(* A step of the model is one access to what the goroutines share: a       *)
(* buffer method (under b.mu), an atomic load or store of p.acked, a       *)
(* channel operation, a Send or a Recv.  The server and the network are    *)
(* external: they are what proto/dataflow.proto:58 says of them ("the      *)
(* durable watermark the server streams back"), over a stream that may     *)
(* break at any moment and lose what it carries.                           *)
(***************************************************************************)
EXTENDS EventBuffer

CONSTANTS Producers,    \* goroutines that end spans
          SendWindow,   \* events pushed before waiting for acknowledgements (64)
          AckChanCap,   \* capacity of ackCh (32)
          MinBackoff,   \* time.Second
          MaxBackoff,   \* 30*time.Second
          Unsendable,   \* events that cannot be marshalled: a string of theirs was cut
                        \* inside a character (clipStatement), which protobuf rejects
          MaxBreaks     \* bound of the model: stream failures and failed dials

ASSUME WindowAssumption == SendWindow \in Nat \ {0} /\ AckChanCap \in Nat \ {0}
ASSUME BackoffAssumption == MinBackoff \in Nat \ {0} /\ MaxBackoff \in Nat
                            /\ MinBackoff <= MaxBackoff
ASSUME UnsendableAssumption == Unsendable \subseteq Nat
ASSUME MaxBreaksAssumption == MaxBreaks \in Nat

VARIABLES
  wake,       \* p.wake holds a token (capacity 1)
  prod,       \* where each producer stands in enqueue
  acked,      \* p.acked
  pc,         \* where the sender stands in run and streamOnce
  pending,    \* the part of the window that is not sent yet
  last,       \* the highest number of the window
  backoff,    \* run's retry delay
  ackCh,      \* ackCh of the current stream
  reader,     \* the receiver goroutine of the current stream
  errCh,      \* errCh holds the receiver's error
  stream,     \* "none" before a dial and after a return, "up", or "broken"
  wire,       \* events sent on the stream that have not reached the server
  acks,       \* acknowledgements the server sent that Recv has not returned
  srv,        \* events the server received on the stream and has not stored
  stale,      \* the same, of a broken stream whose handler still runs
  durable,    \* what the server stored
  dropped,    \* history: what an overflow removed from the buffer
  progress,   \* history: the watermark moved since the last dial
  breaks      \* history: failures so far

prodVars == <<wake, prod>>
sendVars == <<acked, pc, pending, last, backoff, progress>>
chanVars == <<ackCh, reader, errCh>>
netVars  == <<stream, wire, acks, breaks>>
srvVars  == <<srv, stale, durable>>
vars == <<bufVars, prodVars, sendVars, chanVars, netVars, srvVars, dropped>>

Init ==
  /\ BufInit
  /\ wake = FALSE
  /\ prod = [p \in Producers |-> "idle"]
  /\ acked = 0
  /\ pc = "dial"
  /\ pending = <<>>
  /\ last = 0
  /\ backoff = MinBackoff
  /\ progress = FALSE
  /\ ackCh = <<>>
  /\ reader = "off"
  /\ errCh = FALSE
  /\ stream = "none"
  /\ wire = <<>>
  /\ acks = <<>>
  /\ breaks = 0
  /\ srv = <<>>
  /\ stale = <<>>
  /\ durable = {}
  /\ dropped = {}

-----------------------------------------------------------------------------
(* enqueue, called by Span.End on any goroutine: two steps, because the    *)
(* sender may run between the append and the token.                        *)

EnqueueAdd(p) ==
  /\ prod[p] = "idle"
  /\ NextSeq \in Seqs
  /\ Add
  /\ dropped' = IF Overflowing THEN dropped \cup {base} ELSE dropped
  /\ prod' = [prod EXCEPT ![p] = "added"]
  /\ UNCHANGED <<wake, sendVars, chanVars, netVars, srvVars>>

\* Seeded bug: pokes only for the event that ends an empty buffer.
EnqueueWakeOnFirst(p) ==
  /\ prod[p] = "added"
  /\ prod' = [prod EXCEPT ![p] = "idle"]
  /\ wake' = (wake \/ Len(events) = 1)
  /\ UNCHANGED <<bufVars, sendVars, chanVars, netVars, srvVars, dropped>>

\* select { case p.wake <- struct{}{}: default: }
EnqueueWake(p) ==
  /\ prod[p] = "added"
  /\ prod' = [prod EXCEPT ![p] = "idle"]
  /\ wake' = TRUE
  /\ UNCHANGED <<bufVars, sendVars, chanVars, netVars, srvVars, dropped>>

-----------------------------------------------------------------------------
(* The sender goroutine: run calls streamOnce for ever.                    *)

DialOk ==
  /\ pc = "dial"
  /\ pc' = "fetch"
  /\ stream' = "up"
  /\ reader' = "recv"
  /\ progress' = FALSE
  /\ UNCHANGED <<bufVars, prodVars, acked, pending, last, backoff, ackCh, errCh,
                 wire, acks, breaks, srvVars, dropped>>

DialFails ==
  /\ pc = "dial"
  /\ breaks < MaxBreaks
  /\ breaks' = breaks + 1
  /\ pc' = "sleep"
  /\ progress' = FALSE
  /\ UNCHANGED <<bufVars, prodVars, acked, pending, last, backoff, chanVars,
                 stream, wire, acks, srvVars, dropped>>

\* The error path of run.  streamOnce never returns nil, so the assignment
\* of the initial delay below the if (client.go:115) is never reached.
Sleep ==
  /\ pc = "sleep"
  /\ pc' = "dial"
  /\ backoff' = AtMost(2 * backoff, MaxBackoff)
  /\ UNCHANGED <<bufVars, prodVars, acked, pending, last, progress, chanVars,
                 netVars, srvVars, dropped>>

\* return err: the deferred conn.Close and cancel end the stream and its
\* receiver; p.acked and the buffer survive.
ReturnError ==
  /\ pc' = "sleep"
  /\ pending' = <<>>
  /\ stream' = "none"
  /\ wire' = <<>>
  /\ acks' = <<>>
  /\ ackCh' = <<>>
  /\ reader' = "off"
  /\ errCh' = FALSE
  /\ UNCHANGED <<bufVars, prodVars, acked, last, backoff, progress, breaks,
                 srvVars, dropped>>

\* Seeded bug: resumes after the last event sent, not the last acknowledged.
FetchAfterSent ==
  /\ pc = "fetch"
  /\ LET todo == After(last)
     IN  \/ /\ todo = <<>>
            /\ pc' = "idle"
            /\ UNCHANGED <<pending, last>>
         \/ /\ todo # <<>>
            /\ pending' = SubSeq(todo, 1, AtMost(Len(todo), SendWindow))
            /\ last' = todo[AtMost(Len(todo), SendWindow)]
            /\ pc' = "send"
  /\ UNCHANGED <<bufVars, prodVars, acked, backoff, progress, chanVars, netVars,
                 srvVars, dropped>>

\* The top of the loop: take a window of what lies above the watermark, or
\* block on the wake channel.
Fetch ==
  /\ pc = "fetch"
  /\ LET todo == After(acked)
     IN  \/ /\ todo = <<>>
            /\ pc' = "idle"
            /\ UNCHANGED <<pending, last>>
         \/ /\ todo # <<>>
            /\ pending' = SubSeq(todo, 1, AtMost(Len(todo), SendWindow))
            /\ last' = todo[AtMost(Len(todo), SendWindow)]
            /\ pc' = "send"
  /\ UNCHANGED <<bufVars, prodVars, acked, backoff, progress, chanVars, netVars,
                 srvVars, dropped>>

\* case <-p.wake: continue.  The select does not listen to errCh.
Woken ==
  /\ pc = "idle"
  /\ wake
  /\ wake' = FALSE
  /\ pc' = "fetch"
  /\ UNCHANGED <<bufVars, prod, acked, pending, last, backoff, progress, chanVars,
                 netVars, srvVars, dropped>>

\* stream.Send.  On a broken stream it may still succeed locally, and the
\* event is lost, or it returns the error.
Send ==
  /\ pc = "send"
  /\ stream \in {"up", "broken"}
  /\ Head(pending) \notin Unsendable
  /\ wire' = IF stream = "up" THEN Append(wire, Head(pending)) ELSE wire
  /\ pending' = Tail(pending)
  /\ pc' = IF Len(pending) = 1 THEN "wait" ELSE "send"
  /\ UNCHANGED <<bufVars, prodVars, acked, last, backoff, progress, chanVars,
                 stream, acks, breaks, srvVars, dropped>>

\* A stream ends: events on the wire and a suffix of the acknowledgements are
\* lost, and what the server had not stored is lost or left to the old handler
\* (one old handler at a time).
StreamEnds ==
  /\ stream = "up"
  /\ stream' = "broken"
  /\ wire' = <<>>
  /\ \E n \in 0..Len(acks) : acks' = SubSeq(acks, 1, n)
  /\ stale' \in {srv, <<>>}
  /\ srv' = <<>>
  /\ UNCHANGED <<bufVars, prodVars, sendVars, chanVars, durable, dropped>>

\* An event that cannot be marshalled ends the stream it is sent on.
SendRejected ==
  /\ pc = "send"
  /\ Head(pending) \in Unsendable
  /\ StreamEnds
  /\ UNCHANGED breaks

SendFails ==
  /\ pc = "send"
  /\ stream = "broken"
  /\ ReturnError

\* Seeded bug: takes any acknowledgement for one of the whole window.
TakeAckForWindow ==
  /\ pc = "wait"
  /\ acked < last
  /\ ackCh # <<>>
  /\ ackCh' = Tail(ackCh)
  /\ acked' = last /\ progress' = TRUE /\ pc' = "trim"
  /\ UNCHANGED <<bufVars, prodVars, pending, last, backoff, reader, errCh,
                 netVars, srvVars, dropped>>

\* case a := <-ackCh.  The watermark is stored before the buffer is trimmed.
TakeAck ==
  /\ pc = "wait"
  /\ acked < last
  /\ ackCh # <<>>
  /\ ackCh' = Tail(ackCh)
  /\ IF Head(ackCh) > acked
     THEN acked' = Head(ackCh) /\ progress' = TRUE /\ pc' = "trim"
     ELSE UNCHANGED <<acked, progress, pc>>
  /\ UNCHANGED <<bufVars, prodVars, pending, last, backoff, reader, errCh,
                 netVars, srvVars, dropped>>

\* Seeded bug: trims all that was sent.
TrimWindow ==
  /\ pc = "trim"
  /\ Acked(last)
  /\ pc' = "wait"
  /\ UNCHANGED <<prodVars, acked, pending, last, backoff, progress, chanVars,
                 netVars, srvVars, dropped>>

\* Seeded bug: moves the watermark and never trims.
TrimForgotten ==
  /\ pc = "trim"
  /\ pc' = "wait"
  /\ UNCHANGED <<bufVars, prodVars, acked, pending, last, backoff, progress,
                 chanVars, netVars, srvVars, dropped>>

Trim ==
  /\ pc = "trim"
  /\ Acked(acked)
  /\ pc' = "wait"
  /\ UNCHANGED <<prodVars, acked, pending, last, backoff, progress, chanVars,
                 netVars, srvVars, dropped>>

\* case err := <-errCh
TakeError ==
  /\ pc = "wait"
  /\ acked < last
  /\ errCh
  /\ ReturnError

\* Seeded bug: after a window waits for the next enqueue.
WindowCoveredSleeps ==
  /\ pc = "wait"
  /\ acked >= last
  /\ pc' = "idle"
  /\ UNCHANGED <<bufVars, prodVars, acked, pending, last, backoff, progress,
                 chanVars, netVars, srvVars, dropped>>

WindowCovered ==
  /\ pc = "wait"
  /\ acked >= last
  /\ pc' = "fetch"
  /\ UNCHANGED <<bufVars, prodVars, acked, pending, last, backoff, progress,
                 chanVars, netVars, srvVars, dropped>>

Sender ==
  \/ DialOk \/ DialFails \/ Sleep \/ Fetch \/ Woken \/ Send \/ SendRejected
  \/ SendFails \/ TakeAck \/ Trim \/ TakeError \/ WindowCovered

-----------------------------------------------------------------------------
(* The receiver goroutine of the stream.                                   *)

\* Seeded bug: a channel without a bound.
RecvAckUnbounded ==
  /\ reader = "recv"
  /\ acks # <<>>
  /\ ackCh' = Append(ackCh, Head(acks))
  /\ acks' = Tail(acks)
  /\ UNCHANGED <<bufVars, prodVars, sendVars, reader, errCh, stream, wire, breaks,
                 srvVars, dropped>>

RecvAck ==
  /\ reader = "recv"
  /\ acks # <<>>
  /\ Len(ackCh) < AckChanCap
  /\ ackCh' = Append(ackCh, Head(acks))
  /\ acks' = Tail(acks)
  /\ UNCHANGED <<bufVars, prodVars, sendVars, reader, errCh, stream, wire, breaks,
                 srvVars, dropped>>

RecvError ==
  /\ reader = "recv"
  /\ stream = "broken"
  /\ acks = <<>>
  /\ errCh' = TRUE
  /\ reader' = "done"
  /\ UNCHANGED <<bufVars, prodVars, sendVars, ackCh, netVars, srvVars, dropped>>

Receiver == RecvAck \/ RecvError

-----------------------------------------------------------------------------
(* The server and the network (external).                                  *)

ServerReceive ==
  /\ stream = "up"
  /\ wire # <<>>
  /\ srv' = Append(srv, Head(wire))
  /\ wire' = Tail(wire)
  /\ UNCHANGED <<bufVars, prodVars, sendVars, chanVars, stream, acks, breaks,
                 stale, durable, dropped>>

\* The server stores some of what it received, in order, and acknowledges:
\* with the last number it stored, or with the highest it has.
ServerPersist ==
  /\ stream = "up"
  /\ \E n \in 1..Len(srv) :
       /\ durable' = durable \cup {srv[i] : i \in 1..n}
       /\ srv' = SubSeq(srv, n + 1, Len(srv))
       /\ \E a \in durable' :
            /\ a = srv[n] \/ \A d \in durable' : d <= a
            /\ acks' = Append(acks, a)
  /\ UNCHANGED <<bufVars, prodVars, sendVars, chanVars, stream, wire, breaks,
                 stale, dropped>>

\* The handler of a broken stream stores what it still holds; it has nobody
\* left to acknowledge to.
ServerPersistStale ==
  /\ stale # <<>>
  /\ durable' = durable \cup {Head(stale)}
  /\ stale' = Tail(stale)
  /\ UNCHANGED <<bufVars, prodVars, sendVars, chanVars, netVars, srv, dropped>>

\* The connection fails or the server crashes.
Break ==
  /\ breaks < MaxBreaks
  /\ breaks' = breaks + 1
  /\ StreamEnds

Server == ServerReceive \/ ServerPersist \/ ServerPersistStale

-----------------------------------------------------------------------------
Next ==
  \/ \E p \in Producers : EnqueueAdd(p) \/ EnqueueWake(p)
  \/ Sender
  \/ Receiver
  \/ Server
  \/ Break

Spec == Init /\ [][Next]_vars

\* Goroutines are scheduled: a producer inside enqueue, the sender and the
\* receiver keep running.  The server handles what reaches it.  Calls to
\* enqueue and failures are not fair: they need not happen.
Fairness ==
  /\ \A p \in Producers : WF_vars(EnqueueWake(p))
  /\ WF_vars(Sender)
  /\ WF_vars(Receiver)
  /\ WF_vars(ServerReceive)
  /\ WF_vars(ServerPersist)

FairSpec == Spec /\ Fairness

-----------------------------------------------------------------------------
TypeOK ==
  /\ BufTypeOK
  /\ wake \in BOOLEAN
  /\ prod \in [Producers -> {"idle", "added"}]
  /\ acked \in Nat
  /\ pc \in {"dial", "sleep", "fetch", "idle", "send", "wait", "trim"}
  /\ pending \in Seq(Nat)
  /\ Len(pending) <= SendWindow
  /\ last \in Nat
  /\ backoff \in MinBackoff..MaxBackoff
  /\ progress \in BOOLEAN
  /\ ackCh \in Seq(Nat)
  /\ Len(ackCh) <= AckChanCap
  /\ reader \in {"off", "recv", "done"}
  /\ errCh \in BOOLEAN
  /\ stream \in {"none", "up", "broken"}
  /\ wire \in Seq(Nat) /\ acks \in Seq(Nat)
  /\ breaks \in Nat
  /\ srv \in Seq(Nat) /\ stale \in Seq(Nat)
  /\ durable \in SUBSET Nat /\ dropped \in SUBSET Nat

Safe(s) == s \in durable \cup dropped

\* No event leaves the buffer before the server stored it, unless an overflow
\* dropped it: Acked trims on the strength of a watermark that may be stale,
\* may arrive after a reconnect and is applied one step after it was stored.
TrimmedIsDurable == \A s \in 1..(base - 1) : Safe(s)

\* What the server stored has no gap that the client did not make itself by
\* dropping the oldest events, however streams break and windows are replayed.
\* The watermark protocol needs this: an acknowledgement of n stands for all
\* that precedes n.
NoGaps == \A d \in durable : \A s \in 1..d : Safe(s)

\* Every acknowledgement in flight stands for stored events only, so applying
\* any of them, in any order, is harmless; so does the watermark, which
\* outlives the stream it came from.
AcksAreDurable == Range(acks) \cup Range(ackCh) \subseteq durable /\ acked \in durable \cup {0}

\* Whatever precedes an event of the queue is among `safe`, or ahead of the
\* queue, or ahead of it in the queue.
Follows(queue, ahead, safe) ==
  \A i \in DOMAIN queue : \A s \in 1..(queue[i] - 1) :
    s \in safe \/ s \in ahead \/ \E j \in 1..(i - 1) : queue[j] = s

\* Why NoGaps holds: on the way of an event to the server (the rest of the
\* window, the wire, what the server received) nothing overtakes.  On a broken
\* stream sends are lost, so the window promises nothing; a handler left over
\* from an earlier stream keeps its own order.
InOrder ==
  /\ Follows(stale, {}, durable \cup dropped)
  /\ Follows(srv, {}, durable \cup dropped)
  /\ stream = "up" =>
       /\ Follows(wire, Range(srv), durable \cup dropped)
       /\ Follows(pending, Range(srv) \cup Range(wire), durable \cup dropped)

\* What the sender's place in streamOnce says of the stream.
Placed ==
  /\ pc = "send" <=> pending # <<>>
  /\ pc \in {"dial", "sleep"} => stream = "none"
  /\ errCh => stream = "broken"
  /\ stream # "up" => srv = <<>> /\ wire = <<>>

\* The strengthening that makes the safety properties inductive.
Strengthening == InOrder /\ Placed

\* No lost wakeup: when the sender sleeps on the wake channel while the buffer
\* holds something to send, the token is there or an enqueue is about to put it.
NoLostWakeup ==
  pc = "idle" /\ After(acked) # <<>> => wake \/ \E p \in Producers : prod[p] = "added"

\* An event that no window can hold together with, or behind, one that cannot
\* be marshalled.
Unhindered(s) == \A u \in Unsendable : u >= s + SendWindow

\* Every accepted event is eventually stored by the server or dropped by an
\* overflow, once the failures stop, unless an event that cannot be marshalled
\* stands in its way: each replay begins at or before that one and ends at it.
EventuallyDelivered == \A s \in Seqs : s < NextSeq /\ Unhindered(s) ~> Safe(s)

\* The buffer drains: after the last enqueue nothing is retained for ever but
\* what such an event holds up.
EventuallyDrained ==
  <>[](NextSeq = MaxEvents + 1) => <>[](\A s \in Retained : ~Unhindered(s))

\* The sender "streams them over gRPC, trimming the buffer as the server
\* acknowledges durability" (client.go:21-22), and strings are clipped "without
\* splitting a multi-byte rune" (panic.go:100): every event is stored or dropped.
AllDelivered == \A s \in Seqs : s < NextSeq ~> Safe(s)

\* The delivery path implements the abstract log.
Log == INSTANCE AtLeastOnceLog WITH
         produced <- NextSeq - 1, retained <- Retained,
         durable <- durable, dropped <- dropped

ImplementsLog == Log!Spec

\* The retry delay grows "across failures" (client.go:104-105) and is meant to
\* start again at one second after a stream that worked (client.go:115): a
\* retry that follows an acknowledged window waits the initial delay.
BackoffRestarts == pc = "sleep" /\ progress => backoff = MinBackoff
=============================================================================
