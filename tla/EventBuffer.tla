----------------------------- MODULE EventBuffer -----------------------------
(***************************************************************************)
(* The replay buffer of the delivery pipeline (buffer.go): a bounded FIFO  *)
(* of the events that await the server's acknowledgement.  Every method    *)
(* holds b.mu from its first line to its return, so each is one step.      *)
(*                                                                         *)
(* An event is represented by the sequence number Add stamps on it.  The   *)
(* code never searches the slice: After and Acked compute an index from    *)
(* base, so they are right only while events[i] carries base + i - 1.      *)
(***************************************************************************)
EXTENDS Integers, Sequences, Functions

CONSTANTS Capacity,   \* b.capacity; newEventBuffer replaces a value <= 0 by 10000
          MaxEvents   \* bound of the model: how many events are ever added

ASSUME CapacityAssumption == Capacity \in Nat \ {0}
ASSUME MaxEventsAssumption == MaxEvents \in Nat

VARIABLES base,       \* sequence number of events[1], also when events is empty
          events      \* the buffered events, oldest first

bufVars == <<base, events>>

Seqs == 1..MaxEvents

BufInit == base = 1 /\ events = <<>>

\* What the buffer holds, as a set of sequence numbers.
Retained == Range(events)

\* The number the next Add stamps; the buffer keeps no counter of its own.
NextSeq == base + Len(events)

Overflowing == Len(events) + 1 > Capacity

AtLeastZero(n) == IF n > 0 THEN n ELSE 0

AtMost(n, limit) == IF n < limit THEN n ELSE limit

-----------------------------------------------------------------------------
\* Seeded bug: drops the oldest event and leaves base behind.
AddForgetsBase ==
  /\ base' = base
  /\ LET grown == Append(events, NextSeq)
     IN  events' = IF Overflowing THEN Tail(grown) ELSE grown

\* Seeded bug: makes room by overwriting the newest event.
AddDropsNewest ==
  /\ base' = base + (IF Overflowing THEN 1 ELSE 0)
  /\ events' = Append(IF Overflowing THEN SubSeq(events, 1, Len(events) - 1) ELSE events,
                      NextSeq)

\* Append the event, and when that exceeds the capacity drop the oldest.
Add ==
  LET grown == Append(events, NextSeq)
  IN  IF Overflowing
      THEN events' = Tail(grown) /\ base' = base + 1
      ELSE events' = grown /\ base' = base

\* Seeded bug: the offset of the acknowledged event, not of the one after it.
AfterInclusive(acked) == SubSeq(events, AtLeastZero(acked - base) + 1, Len(events))

\* The events above `acked`, by index arithmetic alone.
After(acked) ==
  LET offset == AtLeastZero(acked + 1 - base)
  IN  IF offset > Len(events) THEN <<>> ELSE SubSeq(events, offset + 1, Len(events))

\* Seeded bug: one event too many.
CoveredTooMany(acked) == AtMost(AtLeastZero(acked + 2 - base), Len(events))

\* How many events the acknowledgement of `acked` trims.
Covered(acked) == AtMost(AtLeastZero(acked + 1 - base), Len(events))

Acked(acked) ==
  /\ events' = SubSeq(events, Covered(acked) + 1, Len(events))
  /\ base' = base + Covered(acked)

-----------------------------------------------------------------------------
(***************************************************************************)
(* The buffer on its own, under any interleaving of its callers and any    *)
(* acknowledgement whatever, also one for a number never assigned.         *)
(***************************************************************************)
BufNext ==
  \/ NextSeq \in Seqs /\ Add
  \/ \E a \in 0..MaxEvents + 1 : Acked(a)

BufSpec == BufInit /\ [][BufNext]_bufVars

BufTypeOK ==
  /\ base \in Nat \ {0}
  /\ events \in Seq(Nat)
  /\ Len(events) <= Capacity

\* The numbers in the slice are consecutive and start at base ("sorted by seq,
\* contiguous", buffer.go:15), which the index arithmetic of After and Acked
\* takes for granted.
Contiguous == \A i \in DOMAIN events : events[i] = base + i - 1

\* After, which only computes an offset, returns exactly the buffered events
\* above the acknowledged number, whichever number that is: nothing the server
\* confirmed is sent again and nothing it has not confirmed is left out.
AfterIsExact ==
  \A a \in 0..MaxEvents + 1 :
    /\ Range(After(a)) = {s \in Retained : s > a}
    /\ Len(After(a)) > 0 => After(a)[Len(After(a))] = NextSeq - 1

\* The next number is derived from base and the length, which Add and Acked
\* both move.  No step may hand out a number twice or skip one: it stays where
\* it is or advances by one.
SeqNeverRewinds == [][NextSeq' \in {NextSeq, NextSeq + 1}]_bufVars

\* A step removes events only from the old end: what it keeps of the former
\* contents is younger than everything it removed.
OldestLeaveFirst ==
  [][\A gone \in Retained \ Retained', kept \in Retained \cap Retained' : gone < kept]_bufVars
==============================================================================
