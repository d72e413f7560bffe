--------------------------- MODULE AtLeastOnceLog ---------------------------
(***************************************************************************)
(* What the delivery path promises to the code that ends spans, with       *)
(* nothing said of slices, goroutines or streams ("the sender retransmits  *)
(* everything above the last acked sequence number after a reconnect, and  *)
(* the oldest events are dropped once the buffer overflows",               *)
(* buffer.go:9-12):                                                        *)
(*   - events are numbered in the order in which they are accepted;        *)
(*   - an event stays in memory until it is durable at the server, unless  *)
(*     an overflow drops it, and an overflow drops only the oldest;        *)
(*   - events become durable in order: all that precedes a durable event   *)
(*     is durable too, or was dropped.                                     *)
(* Delivery is at least once: making a durable event durable again is a    *)
(* stuttering step here.                                                   *)
(***************************************************************************)
EXTENDS Naturals

VARIABLES produced,   \* how many events were accepted so far
          retained,   \* the numbers still held in memory
          durable,    \* the numbers the server stored
          dropped     \* the numbers an overflow removed

logVars == <<produced, retained, durable, dropped>>

Init ==
  /\ produced = 0
  /\ retained = {}
  /\ durable = {}
  /\ dropped = {}

\* Accept an event when memory has room for it, or make room for it by
\* giving up the oldest one.
Accept ==
  /\ produced' = produced + 1
  /\ UNCHANGED durable
  /\ \/ /\ retained' = retained \cup {produced + 1}
        /\ UNCHANGED dropped
     \/ \E oldest \in retained \cup {produced + 1} :
          /\ \A s \in retained : oldest <= s
          /\ retained' = (retained \cup {produced + 1}) \ {oldest}
          /\ dropped' = dropped \cup {oldest}

\* The server stores some events; none of them leaves a gap behind it.
Persist ==
  /\ \E stored \in SUBSET (1..produced) :
       /\ \A s \in stored : \A r \in 1..s : r \in durable \cup dropped \cup stored
       /\ durable' = durable \cup stored
  /\ UNCHANGED <<produced, retained, dropped>>

\* Memory lets go of events, but only of events that are durable.
Release ==
  /\ \E freed \in SUBSET (retained \cap durable) : retained' = retained \ freed
  /\ UNCHANGED <<produced, durable, dropped>>

Next == Accept \/ Persist \/ Release

Spec == Init /\ [][Next]_logVars
=============================================================================
