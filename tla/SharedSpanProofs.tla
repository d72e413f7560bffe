-------------------------- MODULE SharedSpanProofs --------------------------
(***************************************************************************)
(* The span shared by goroutines, for any keys, values, errors and codes,  *)
(* and any number of calls and transmissions: one enqueue, transmissions   *)
(* that hold what was set before End unless it was set again, and replays  *)
(* that differ only by what was set since the first of them.               *)
(***************************************************************************)
EXTENDS SharedSpan, SequenceFacts

Maps == [Keys -> Values \cup {NoValue}]
Events == [attrs : Maps, error : Errors \cup {NoError}, status : Codes \cup {0},
           fields : SUBSET Keys, payload : Maps, failed : BOOLEAN]
Steps == [step : {"none", "copy", "keys", "fields", "marshal", "enqueue"}, keys : SUBSET Keys,
          seen : [Keys -> SUBSET (Values \cup {NoValue})], met : BOOLEAN]
Readings == [attrs : [Keys -> SUBSET (Values \cup {NoValue})],
             error : SUBSET (Errors \cup {NoError}), status : SUBSET (Codes \cup {0})]
Histories == [attrs : SUBSET (Keys \X Values), data : SUBSET (Keys \X Values), status : SUBSET Codes]

SpanTypeOK ==
  /\ calls \in Nat
  /\ sampled \in BOOLEAN /\ ended \in BOOLEAN /\ killed \in BOOLEAN
  /\ event \in Events
  /\ data \in Maps
  /\ ending \in Steps
  /\ enqueued \in Nat
  /\ sending \in SUBSET Readings
  /\ wire \in Seq(Events)
  /\ before \in [attrs : Maps, data : Maps, error : Errors \cup {NoError}, status : Codes \cup {0}]
  /\ since \in Histories /\ late \in Histories

\* What a transmission must hold of what was set before End.
Told(e) ==
  /\ Carries(e.attrs, before.attrs, since.attrs)
  /\ e.status \in {before.status} \cup since.status
  /\ before.error # NoError => e.error = before.error
  /\ IF e.failed
     THEN \E key \in Keys, value \in Unfit : before.data[key] = value \/ <<key, value>> \in since.data
     ELSE Carries(e.payload, before.data, since.data) /\ e.fields \subseteq KeysOf(e.payload)
  /\ e.fields # {} => KeysOf(before.data) \subseteq e.fields

\* The event later is what it was earlier but for what was set meanwhile.
Agrees(earlier, later) ==
  /\ earlier.payload = later.payload /\ earlier.failed = later.failed /\ earlier.fields = later.fields
  /\ Carries(later.attrs, earlier.attrs, late.attrs)
  /\ later.status \in {earlier.status} \cup late.status
  /\ earlier.error # NoError => later.error = earlier.error

\* Whatever the sender reads lies between two states of the event.
Between(earlier, s, later) ==
  /\ \A key \in Keys : \A v \in s.attrs[key] :
       /\ v = earlier.attrs[key] \/ <<key, v>> \in late.attrs
       /\ later.attrs[key] = v \/ <<key, later.attrs[key]>> \in late.attrs
  /\ \A v \in s.status : v \in {earlier.status} \cup late.status /\ later.status \in {v} \cup late.status
  /\ \A v \in s.error : (earlier.error # NoError => v = earlier.error) /\ (v # NoError => later.error = v)

\* One goroutine at most is inside End, nothing is sent before it is done, and
\* what was set since the sender marshalled the event was set since End.
Places ==
  /\ enqueued \in {0, 1}
  /\ enqueued = 1 \/ ending.step # "none" => sampled /\ ended
  /\ enqueued = 1 => ending.step = "none"
  /\ sending # {} \/ wire # <<>> => enqueued = 1
  /\ late.attrs \subseteq since.attrs /\ late.status \subseteq since.status

\* The span holds what it held when End was called or what was set since: the
\* race on a nil map can only lose attributes that were not there before.
Kept ==
  /\ ended => /\ Carries(event.attrs, before.attrs, since.attrs)
              /\ Carries(data, before.data, since.data)
              /\ event.status \in {before.status} \cup since.status
              /\ before.error # NoError => event.error = before.error
  /\ ending.met => ending.step = "fields" /\ \A key \in Keys : before.attrs[key] = NoValue

\* What End has put into the event so far, and what it may see of the map.
Progress ==
  /\ ending.step \in {"none", "copy", "keys", "fields"} /\ enqueued = 0 => event.fields = {}
  /\ ending.step \in {"none", "copy", "keys", "fields", "marshal"} /\ enqueued = 0 =>
       event.payload = Nothing /\ ~event.failed
  /\ ending.step \in {"keys", "marshal"} =>
       \A key \in Keys : \A v \in ending.seen[key] : v = before.data[key] \/ <<key, v>> \in since.data
  /\ ending.step = "keys" => \A key \in Keys : data[key] = NoValue => ending.seen[key] \subseteq {NoValue}
  /\ ending.step = "fields" => KeysOf(before.data) \subseteq ending.keys /\ ending.keys \subseteq KeysOf(data)
  /\ ending.step = "marshal" =>
       /\ \A key \in event.fields : NoValue \notin ending.seen[key]
       /\ event.fields # {} => KeysOf(before.data) \subseteq event.fields
  /\ ending.step = "enqueue" \/ enqueued = 1 => Told(event)

\* What was sent, and what is being marshalled, against the event.
Sent ==
  /\ \A i \in DOMAIN wire : Told(wire[i]) /\ Agrees(wire[i], event)
  /\ \A i, j \in DOMAIN wire : i < j => Agrees(wire[i], wire[j])
  /\ \A s \in sending : \A i \in DOMAIN wire : Between(wire[i], s, event)
  /\ \A s \in sending : \E e \in Events : Told(e) /\ Between(e, s, event) /\ Agrees(e, event)

SpanInv == SpanTypeOK /\ Places /\ Kept /\ Progress /\ Sent
-----------------------------------------------------------------------------
(* How the setters and the sender relate one state of the event to another. *)

\* Two agreements make one: a value set meanwhile is never NoValue.
LEMMA AgreesTransitive ==
  ASSUME NEW a, NEW b, NEW c, Agrees(a, b), Agrees(b, c)
  PROVE  Agrees(a, c)
BY DEF Agrees, Carries

\* What holds the values from before End still does when it was set again.
LEMMA ToldAgrees ==
  ASSUME Places, NEW a, NEW b, Told(a), Agrees(a, b)
  PROVE  Told(b)
BY DEF Places, Told, Agrees, Carries

\* The histories only grow, and hold what was set.
LEMMA NotedGrows ==
  ASSUME SpanTypeOK, NEW part \in {"attrs", "data", "status"}, NEW what, Noted(part, what)
  PROVE  /\ since.attrs \subseteq since'.attrs /\ since.data \subseteq since'.data
         /\ since.status \subseteq since'.status
         /\ late.attrs \subseteq late'.attrs /\ late.status \subseteq late'.status
         /\ ended => what \in since'[part]
         /\ sending # {} \/ wire # <<>> => what \in late'[part]
BY DEF Noted, SpanTypeOK, Histories

\* What was told stays told when it is set again.
LEMMA ToldStays ==
  ASSUME UNCHANGED before, since.attrs \subseteq since'.attrs, since.data \subseteq since'.data,
         since.status \subseteq since'.status
  PROVE  \A e : Told(e) => Told(e)'
BY DEF Told, Carries

\* A step changes the event by what it also notes.
Moves(noted) ==
  /\ event'.payload = event.payload /\ event'.failed = event.failed /\ event'.fields = event.fields
  /\ Carries(event'.attrs, event.attrs, noted.attrs)
  /\ event'.status \in {event.status} \cup noted.status
  /\ event.error # NoError => event'.error = event.error

Follows ==
  /\ Moves(late')
  /\ late.attrs \subseteq late'.attrs /\ late.status \subseteq late'.status

\* The event still tells what it told, but for what was set again.
LEMMA ToldMoves ==
  ASSUME UNCHANGED before, since.attrs \subseteq since'.attrs, since.data \subseteq since'.data,
         since.status \subseteq since'.status, Moves(since')
  PROVE  Told(event) => Told(event)'
<1>. SUFFICES ASSUME Told(event) PROVE Told(event)'
  OBVIOUS
<1>1. Carries(event'.attrs, before.attrs, since'.attrs)
  <2>. SUFFICES ASSUME NEW k \in Keys
                PROVE  event'.attrs[k] = before.attrs[k] \/ <<k, event'.attrs[k]>> \in since'.attrs
    BY DEF Carries
  <2>1. event.attrs[k] = before.attrs[k] \/ <<k, event.attrs[k]>> \in since.attrs
    BY DEF Told, Carries
  <2>2. event'.attrs[k] = event.attrs[k] \/ <<k, event'.attrs[k]>> \in since'.attrs
    BY DEF Moves, Carries
  <2>. QED BY <2>1, <2>2
<1>2. event.failed => \E k \in Keys, v \in Unfit : before.data[k] = v \/ <<k, v>> \in since'.data
  BY DEF Told
<1>3. ~event.failed =>
        Carries(event.payload, before.data, since'.data) /\ event.fields \subseteq KeysOf(event.payload)
  BY DEF Told, Carries
<1>4. event'.status \in {before.status} \cup since'.status
  BY DEF Told, Moves
<1>5. before.error # NoError => event'.error = before.error
  BY DEF Told, Moves
<1>6. event.fields # {} => KeysOf(before.data) \subseteq event.fields
  BY DEF Told
<1>7. event'.payload = event.payload /\ event'.failed = event.failed /\ event'.fields = event.fields
  BY DEF Moves
<1>. QED BY <1>1, <1>2, <1>3, <1>4, <1>5, <1>6, <1>7 DEF Told

\* Agreement with the event reaches the event of the next state.
LEMMA AgreesStays ==
  ASSUME Follows
  PROVE  \A a : Agrees(a, event) => Agrees(a, event)'
BY DEF Agrees, Carries, Follows, Moves

\* Agreement between other things is not disturbed.
LEMMA AgreesFrame ==
  ASSUME late.attrs \subseteq late'.attrs, late.status \subseteq late'.status
  PROVE  \A a, b : Agrees(a, b) => Agrees(a, b)'
BY DEF Agrees, Carries

\* A sender that reads may also read what a setter has just put there.
Reads(s, t) ==
  /\ \A key \in Keys : \A v \in t.attrs[key] : v \in s.attrs[key] \/ v = event'.attrs[key]
  /\ \A v \in t.status : v \in s.status \/ v = event'.status
  /\ \A v \in t.error : v \in s.error \/ v = event'.error

\* What the sender reads still lies between the earlier event and the new one.
LEMMA BetweenStays ==
  ASSUME Follows, NEW s, NEW t, Reads(s, t)
  PROVE  \A a : Between(a, s, event) /\ Agrees(a, event) => Between(a, t, event)'
<1>. SUFFICES ASSUME NEW a, Between(a, s, event), Agrees(a, event) PROVE Between(a, t, event)'
  OBVIOUS
<1>1. Agrees(a, event)'
  BY AgreesStays
<1>2. ASSUME NEW key \in Keys, NEW v \in t.attrs[key]
      PROVE  /\ v = a.attrs[key] \/ <<key, v>> \in late'.attrs
             /\ event'.attrs[key] = v \/ <<key, event'.attrs[key]>> \in late'.attrs
  <2>1. CASE v = event'.attrs[key]
    BY <1>1, <2>1 DEF Agrees, Carries
  <2>2. CASE v \in s.attrs[key]
    BY <2>2 DEF Between, Follows, Moves, Carries
  <2>. QED BY <1>2, <2>1, <2>2 DEF Reads
<1>3. ASSUME NEW v \in t.status
      PROVE  v \in {a.status} \cup late'.status /\ event'.status \in {v} \cup late'.status
  BY <1>1, <1>3 DEF Agrees, Between, Follows, Moves, Reads
<1>4. ASSUME NEW v \in t.error
      PROVE  (a.error # NoError => v = a.error) /\ (v # NoError => event'.error = v)
  BY <1>1, <1>4 DEF Agrees, Between, Follows, Moves, Reads
<1>. QED BY <1>2, <1>3, <1>4 DEF Between

\* A setter keeps what is known of the transmissions.
LEMMA SentFrame ==
  ASSUME Sent, UNCHANGED <<before, wire>>,
         since.attrs \subseteq since'.attrs, since.data \subseteq since'.data, since.status \subseteq since'.status,
         sending # {} \/ wire # <<>> => Follows, sending = {} => sending' = {},
         \A t \in sending' : \E s \in sending : Reads(s, t)
  PROVE  Sent'
<1>1. CASE sending = {} /\ wire = <<>>
  BY <1>1 DEF Sent
<1>2. CASE ~(sending = {} /\ wire = <<>>)
  <2>1. Follows
    BY <1>2
  <2>2. (\A e : Told(e) => Told(e)') /\ (\A a : Agrees(a, event) => Agrees(a, event)')
        /\ (\A a, b : Agrees(a, b) => Agrees(a, b)')
    BY <2>1, ToldStays, AgreesStays, AgreesFrame DEF Follows
  <2>3. \A i \in DOMAIN wire : Told(wire[i])' /\ Agrees(wire[i], event)'
    BY <2>2 DEF Sent
  <2>4. \A i, j \in DOMAIN wire : i < j => Agrees(wire[i], wire[j])'
    BY <2>2 DEF Sent
  <2>5. ASSUME NEW t \in sending'
        PROVE  /\ \A i \in DOMAIN wire : Between(wire[i], t, event)'
               /\ \E e \in Events : Told(e)' /\ Between(e, t, event)' /\ Agrees(e, event)'
    <3>1. PICK s \in sending : Reads(s, t)
      BY <2>5
    <3>2. \A a : Between(a, s, event) /\ Agrees(a, event) => Between(a, t, event)'
      BY <2>1, <3>1, BetweenStays
    <3>3. \A i \in DOMAIN wire : Between(wire[i], t, event)'
      BY <3>2 DEF Sent
    <3>4. PICK e \in Events : Told(e) /\ Between(e, s, event) /\ Agrees(e, event)
      BY DEF Sent
    <3>. QED BY <2>2, <3>2, <3>3, <3>4
  <2>. QED BY <2>3, <2>4, <2>5 DEF Sent
<1>. QED BY <1>1, <1>2

\* Before the enqueue nothing was sent.
LEMMA NothingSent ==
  ASSUME wire' = <<>>, sending' = {}
  PROVE  Sent'
BY DEF Sent

-----------------------------------------------------------------------------
(* The invariant holds at the start, and every step keeps it.              *)

\* A call is counted.
LEMMA CallTyped ==
  ASSUME Call, calls \in Nat
  PROVE  calls' \in Nat
BY DEF Call

\* A race kills the process or does not.
LEMMA MayKillTyped ==
  ASSUME NEW window, MayKill(window)
  PROVE  killed' \in BOOLEAN
BY DEF MayKill

\* No key has a value at first.
LEMMA NothingTyped == Nothing \in Maps /\ \A key \in Keys : Nothing[key] = NoValue
BY DEF Nothing, Maps

\* A step of End at its beginning.
LEMMA AtTyped ==
  ASSUME NEW step \in {"none", "copy", "keys", "fields", "marshal", "enqueue"}
  PROVE  /\ At(step) \in Steps /\ At(step).step = step /\ ~At(step).met
         /\ \A key \in Keys : At(step).seen[key] = {}
BY DEF At, Steps

\* A fresh span.
LEMMA SpanInitInv == SpanInit => SpanInv
<1>. SUFFICES ASSUME SpanInit PROVE SpanInv
  OBVIOUS
<1>1. SpanTypeOK
  <2>1. event \in Events /\ wire \in Seq(Events)
    BY NothingTyped DEF SpanInit, Events, Fresh
  <2>2. calls \in Nat /\ data \in Maps /\ enqueued \in Nat /\ sending \in SUBSET Readings
    BY NothingTyped DEF SpanInit
  <2>3. sampled \in BOOLEAN /\ ended \in BOOLEAN /\ killed \in BOOLEAN
    BY DEF SpanInit
  <2>4. ending \in Steps
    BY AtTyped DEF SpanInit
  <2>5. before \in [attrs : Maps, data : Maps, error : Errors \cup {NoError}, status : Codes \cup {0}]
    BY NothingTyped DEF SpanInit
  <2>6. since \in Histories /\ late \in Histories
    BY DEF SpanInit, Nowhere, Histories
  <2>. QED BY <2>1, <2>2, <2>3, <2>4, <2>5, <2>6 DEF SpanTypeOK
<1>2. Places
  BY AtTyped DEF SpanInit, Places, Nowhere
<1>3. Kept
  BY AtTyped DEF SpanInit, Kept
<1>4. Progress
  BY AtTyped DEF SpanInit, Progress, Fresh
<1>5. Sent
  BY DEF SpanInit, Sent
<1>. QED BY <1>1, <1>2, <1>3, <1>4, <1>5 DEF SpanInv

\* What a call notes is of the histories' types.
LEMMA NotedTyped ==
  ASSUME SpanTypeOK, NEW part \in {"attrs", "data", "status"}, NEW what, Noted(part, what),
         part \in {"attrs", "data"} => what \in Keys \X Values, part = "status" => what \in Codes
  PROVE  since' \in Histories /\ late' \in Histories
BY DEF Noted, SpanTypeOK, Histories

\* What is set while the sender is at it is also set since End.
LEMMA NotedPlaces ==
  ASSUME SpanTypeOK, Places, NEW part \in {"attrs", "data", "status"}, NEW what, Noted(part, what)
  PROVE  late'.attrs \subseteq since'.attrs /\ late'.status \subseteq since'.status
BY DEF Noted, SpanTypeOK, Histories, Places

\* An attribute is set, whether or not End has been called.
LEMMA SetAttrStep ==
  ASSUME SpanInv, NEW key \in Keys, NEW value \in Values, SetAttr(key, value)
  PROVE  SpanInv'
<1>0. SpanTypeOK /\ Places /\ Kept /\ Progress /\ Sent
  BY DEF SpanInv
<1>1. /\ event' \in Events /\ event'.attrs = [event.attrs EXCEPT ![key] = value]
      /\ event'.error = event.error /\ event'.status = event.status
      /\ event'.fields = event.fields /\ event'.payload = event.payload /\ event'.failed = event.failed
  BY <1>0 DEF SetAttr, SpanTypeOK, Events, Maps
<1>2. event.attrs \in Maps /\ before.attrs \in Maps
  BY <1>0 DEF SpanTypeOK, Events
<1>3. UNCHANGED <<sampled, ended, data, enqueued, wire, before>>
  BY DEF SetAttr
<1>4. /\ ending' \in Steps /\ ending'.step = ending.step /\ ending'.seen = ending.seen
      /\ ending'.keys = ending.keys
      /\ ending'.met => ending.met \/ (ending.step = "fields" /\ event.attrs = Nothing)
  BY <1>0 DEF SetAttr, SpanTypeOK, Steps
<1>5. /\ since' \in Histories /\ late' \in Histories
      /\ late'.attrs \subseteq since'.attrs /\ late'.status \subseteq since'.status
  BY <1>0, NotedTyped, NotedPlaces DEF SetAttr
<1>6. /\ since.attrs \subseteq since'.attrs /\ since.data \subseteq since'.data
      /\ since.status \subseteq since'.status
      /\ late.attrs \subseteq late'.attrs /\ late.status \subseteq late'.status
      /\ ended => <<key, value>> \in since'.attrs
      /\ sending # {} \/ wire # <<>> => <<key, value>> \in late'.attrs
  BY <1>0, NotedGrows DEF SetAttr
<1>7. sending' \in SUBSET Readings
  <2>. SUFFICES ASSUME NEW s \in sending
                PROVE  [s EXCEPT !.attrs[key] = @ \union {value}] \in Readings
    BY DEF SetAttr
  <2>1. s \in Readings
    BY <1>0 DEF SpanTypeOK
  <2>. QED BY <2>1 DEF Readings
<1>8. calls' \in Nat /\ killed' \in BOOLEAN
  BY <1>0, CallTyped, MayKillTyped DEF SetAttr, SpanTypeOK
<1>9. SpanTypeOK'
  BY <1>0, <1>1, <1>3, <1>4, <1>5, <1>7, <1>8 DEF SpanTypeOK
<1>10. sending = {} => sending' = {}
  BY DEF SetAttr
<1>11. Places'
  BY <1>0, <1>3, <1>4, <1>5, <1>10 DEF Places
<1>12. Kept'
  <2>1. ended => Carries(event'.attrs, before.attrs, since'.attrs)
    BY <1>0, <1>1, <1>2, <1>6 DEF Kept, Carries, Maps
  <2>2. ended => Carries(data, before.data, since'.data) /\ event.status \in {before.status} \cup since'.status
    BY <1>0, <1>6 DEF Kept, Carries
  <2>3. ASSUME ending.step = "fields", event.attrs = Nothing
        PROVE  \A k \in Keys : before.attrs[k] = NoValue
    <3>1. ended /\ since \in Histories
      BY <1>0, <2>3 DEF Places, SpanTypeOK
    <3>. QED BY <1>0, <2>3, <3>1, NothingTyped, SpanValues DEF Kept, Carries, Histories
  <2>. QED BY <1>0, <1>1, <1>3, <1>4, <2>1, <2>2, <2>3 DEF Kept
<1>13. Follows \/ ~(sending # {} \/ wire # <<>>)
  BY <1>1, <1>2, <1>6 DEF Follows, Moves, Carries, Maps
<1>14. ended => Moves(since')
  BY <1>1, <1>2, <1>6 DEF Moves, Carries, Maps
<1>15. Progress'
  <2>1. enqueued = 1 \/ ending.step = "enqueue" => Told(event)'
    BY <1>0, <1>3, <1>6, <1>14, ToldMoves DEF Progress, Places
  <2>. QED BY <1>0, <1>1, <1>3, <1>4, <1>6, <2>1 DEF Progress
<1>16. \A t \in sending' : \E s \in sending : Reads(s, t)
  <2>. SUFFICES ASSUME NEW s \in sending
                PROVE  Reads(s, [s EXCEPT !.attrs[key] = @ \union {value}])
    BY DEF SetAttr
  <2>1. s \in Readings
    BY <1>0 DEF SpanTypeOK
  <2>. QED BY <1>1, <1>2, <2>1 DEF Reads, Readings, Maps
<1>17. Sent'
  BY <1>0, <1>3, <1>6, <1>10, <1>13, <1>16, SentFrame
<1>. QED BY <1>9, <1>11, <1>12, <1>15, <1>17 DEF SpanInv

\* A payload field is set in the span's map; the event does not change.
LEMMA SetDataStep ==
  ASSUME SpanInv, NEW key \in Keys, NEW value \in Values, SetData(key, value)
  PROVE  SpanInv'
<1>0. SpanTypeOK /\ Places /\ Kept /\ Progress /\ Sent
  BY DEF SpanInv
<1>1. UNCHANGED <<sampled, ended, event, enqueued, sending, wire, before>>
  BY DEF SetData
<1>2. data' = [data EXCEPT ![key] = value] /\ data \in Maps /\ data' \in Maps
  BY <1>0 DEF SetData, SpanTypeOK, Maps
<1>3. /\ ending' \in Steps /\ ending'.step = ending.step /\ ending'.keys = ending.keys /\ ending'.met = ending.met
      /\ \A k \in Keys : \A v \in ending'.seen[k] : v \in ending.seen[k] \/ (k = key /\ v = value)
  BY <1>0 DEF SetData, SpanTypeOK, Steps
<1>4. /\ since' \in Histories /\ late' \in Histories
      /\ late'.attrs \subseteq since'.attrs /\ late'.status \subseteq since'.status
  BY <1>0, NotedTyped, NotedPlaces DEF SetData
<1>5. /\ since.attrs \subseteq since'.attrs /\ since.data \subseteq since'.data
      /\ since.status \subseteq since'.status
      /\ late.attrs \subseteq late'.attrs /\ late.status \subseteq late'.status
      /\ ended => <<key, value>> \in since'.data
  BY <1>0, NotedGrows DEF SetData
<1>6. calls' \in Nat /\ killed' \in BOOLEAN
  BY <1>0, CallTyped, MayKillTyped DEF SetData, SpanTypeOK
<1>7. SpanTypeOK'
  BY <1>0, <1>1, <1>2, <1>3, <1>4, <1>6 DEF SpanTypeOK
<1>8. Places'
  BY <1>0, <1>1, <1>3, <1>4 DEF Places
<1>9. Kept'
  BY <1>0, <1>1, <1>2, <1>3, <1>5 DEF Kept, Carries, Maps
<1>10. Moves(since') /\ Follows
  BY <1>1, <1>5 DEF Moves, Follows, Carries
<1>11. Progress'
  <2>1. enqueued = 1 \/ ending.step = "enqueue" => Told(event)'
    BY <1>0, <1>1, <1>5, <1>10, ToldMoves DEF Progress
  <2>2. ending.step \in {"keys", "marshal"} =>
          \A k \in Keys : \A v \in ending'.seen[k] : v = before.data[k] \/ <<k, v>> \in since'.data
    BY <1>0, <1>3, <1>5 DEF Progress, Places
  <2>3. \A k \in Keys : data'[k] = NoValue => data[k] = NoValue /\ k # key
    BY <1>2, SpanValues DEF Maps
  <2>4. KeysOf(data) \subseteq KeysOf(data')
    BY <2>3 DEF KeysOf
  <2>5. ending.step = "keys" => \A k \in Keys : data'[k] = NoValue => ending'.seen[k] \subseteq {NoValue}
    BY <1>0, <1>3, <2>3 DEF Progress
  <2>6. ending.step = "marshal" => \A k \in event.fields : NoValue \notin ending'.seen[k]
    <3>1. event.fields \subseteq Keys
      BY <1>0 DEF SpanTypeOK, Events
    <3>. QED BY <1>0, <1>3, <3>1, SpanValues DEF Progress
  <2>. QED BY <1>0, <1>1, <1>3, <2>1, <2>2, <2>4, <2>5, <2>6 DEF Progress
<1>12. Sent'
  BY <1>0, <1>1, <1>5, <1>10, SentFrame DEF Reads
<1>. QED BY <1>7, <1>8, <1>9, <1>11, <1>12 DEF SpanInv

\* A setter of the error, or of the status, that keeps the first error.
LEMMA ScalarStep ==
  ASSUME SpanInv, event' \in Events, event'.attrs = event.attrs, event'.payload = event.payload,
         event'.failed = event.failed, event'.fields = event.fields, ended => Moves(since'), Follows \/ ~(sending # {} \/ wire # <<>>),
         UNCHANGED <<sampled, ended, data, ending, enqueued, wire, before>>,
         calls' \in Nat, killed' \in BOOLEAN, sending' \in SUBSET Readings, since' \in Histories, late' \in Histories,
         late'.attrs \subseteq since'.attrs, late'.status \subseteq since'.status,
         since.attrs \subseteq since'.attrs, since.data \subseteq since'.data, since.status \subseteq since'.status,
         sending = {} => sending' = {}, \A t \in sending' : \E s \in sending : Reads(s, t)
  PROVE  SpanInv'
<1>0. SpanTypeOK /\ Places /\ Kept /\ Progress /\ Sent
  BY DEF SpanInv
<1>1. SpanTypeOK'
  BY <1>0 DEF SpanTypeOK
<1>2. Places'
  BY <1>0 DEF Places
<1>3. Kept'
  BY <1>0 DEF Kept, Carries, Moves
<1>4. Progress'
  <2>1. enqueued = 1 \/ ending.step = "enqueue" => Told(event)'
    BY <1>0, ToldMoves DEF Progress, Places
  <2>. QED BY <1>0, <2>1 DEF Progress
<1>5. Sent'
  BY <1>0, SentFrame
<1>. QED BY <1>1, <1>2, <1>3, <1>4, <1>5 DEF SpanInv

\* The first error stays: one that was there before End, and one that was sent.
LEMMA RecordErrorStep ==
  ASSUME SpanInv, NEW error \in Errors, RecordError(error)
  PROVE  SpanInv'
<1>0. SpanTypeOK
  BY DEF SpanInv
<1>1. /\ event' \in Events /\ event'.error = FirstError(event.error, error)
      /\ event'.attrs = event.attrs /\ event'.status = event.status
      /\ event'.fields = event.fields /\ event'.payload = event.payload /\ event'.failed = event.failed
  BY <1>0 DEF RecordError, SpanTypeOK, Events, FirstError
<1>2. UNCHANGED <<sampled, ended, data, ending, enqueued, wire, before, since, late>>
  BY DEF RecordError
<1>3. Moves(since') /\ Follows
  BY <1>1, <1>2 DEF Moves, Follows, Carries, FirstError
<1>4. sending' \in SUBSET Readings /\ \A t \in sending' : \E s \in sending : Reads(s, t)
  <2>. SUFFICES ASSUME NEW s \in sending
                PROVE  LET t == [s EXCEPT !.error = @ \union {event'.error}]
                       IN  t \in Readings /\ Reads(s, t)
    BY DEF RecordError
  <2>1. s \in Readings /\ event'.error \in Errors \cup {NoError}
    BY <1>0, <1>1 DEF SpanTypeOK, Events
  <2>. QED BY <2>1 DEF Reads, Readings
<1>5. sending = {} => sending' = {}
  BY DEF RecordError
<1>6. calls' \in Nat /\ killed' \in BOOLEAN
  BY <1>0, CallTyped, MayKillTyped DEF RecordError, SpanTypeOK
<1>7. late.attrs \subseteq since.attrs /\ late.status \subseteq since.status
  BY DEF SpanInv, Places
<1>. QED BY <1>0, <1>1, <1>2, <1>3, <1>4, <1>5, <1>6, <1>7, ScalarStep DEF SpanTypeOK

\* A status replaces the one before and is noted.
LEMMA SetStatusStep ==
  ASSUME SpanInv, NEW code \in Codes, SetStatus(code)
  PROVE  SpanInv'
<1>0. SpanTypeOK /\ Places
  BY DEF SpanInv
<1>1. /\ event' \in Events /\ event'.status = code
      /\ event'.attrs = event.attrs /\ event'.error = event.error
      /\ event'.fields = event.fields /\ event'.payload = event.payload /\ event'.failed = event.failed
  BY <1>0 DEF SetStatus, SpanTypeOK, Events
<1>2. UNCHANGED <<sampled, ended, data, ending, enqueued, wire, killed, before>>
  BY DEF SetStatus
<1>3. /\ since.attrs \subseteq since'.attrs /\ since.data \subseteq since'.data
      /\ since.status \subseteq since'.status
      /\ late.attrs \subseteq late'.attrs /\ late.status \subseteq late'.status
      /\ ended => code \in since'.status
      /\ sending # {} \/ wire # <<>> => code \in late'.status
  BY <1>0, NotedGrows DEF SetStatus
<1>4. /\ since' \in Histories /\ late' \in Histories
      /\ late'.attrs \subseteq since'.attrs /\ late'.status \subseteq since'.status
  BY <1>0, NotedTyped, NotedPlaces DEF SetStatus
<1>5. ended => Moves(since')
  BY <1>1, <1>3 DEF Moves, Carries
<1>6. Follows \/ ~(sending # {} \/ wire # <<>>)
  BY <1>1, <1>3 DEF Moves, Follows, Carries
<1>7. sending' \in SUBSET Readings /\ \A t \in sending' : \E s \in sending : Reads(s, t)
  <2>. SUFFICES ASSUME NEW s \in sending
                PROVE  LET t == [s EXCEPT !.status = @ \union {code}]
                       IN  t \in Readings /\ Reads(s, t)
    BY DEF SetStatus
  <2>1. s \in Readings
    BY <1>0 DEF SpanTypeOK
  <2>. QED BY <1>1, <2>1 DEF Reads, Readings
<1>8. sending = {} => sending' = {}
  BY DEF SetStatus
<1>9. calls' \in Nat /\ killed' \in BOOLEAN
  BY <1>0, <1>2, CallTyped DEF SetStatus, SpanTypeOK
<1>. QED BY <1>1, <1>2, <1>3, <1>4, <1>5, <1>6, <1>7, <1>8, <1>9, ScalarStep

\* The first End remembers, the others return at once.
LEMMA EndStep ==
  ASSUME SpanInv, End
  PROVE  SpanInv'
<1>0. SpanTypeOK /\ Places /\ Kept /\ Progress /\ Sent
  BY DEF SpanInv
<1>1. UNCHANGED <<sampled, event, data, enqueued, sending, wire, killed, since, late>> /\ ended' = TRUE
  BY DEF End
<1>2. calls' \in Nat
  BY <1>0, CallTyped DEF End, SpanTypeOK
<1>3. CASE ended
  <2>1. UNCHANGED <<ending, before>>
    BY <1>3 DEF End
  <2>2. SpanTypeOK'
    BY <1>0, <1>1, <1>2, <2>1 DEF SpanTypeOK
  <2>3. Places' /\ Kept'
    BY <1>0, <1>1, <1>3, <2>1 DEF Places, Kept
  <2>4. Progress'
    BY <1>0, <1>1, <2>1 DEF Progress, Told
  <2>5. Sent'
    BY <1>0, <1>1, <2>1 DEF Sent, Told, Agrees, Between
  <2>. QED BY <2>2, <2>3, <2>4, <2>5 DEF SpanInv
<1>4. CASE ~ended
  <2>1. before' = Held /\ ending' = IF sampled THEN At("copy") ELSE ending
    BY <1>4 DEF End
  <2>2. ending.step = "none" /\ enqueued = 0 /\ sending = {} /\ wire = <<>> /\ ~ending.met
    BY <1>0, <1>4 DEF Places, Kept
  <2>3. ending' \in Steps /\ ending'.step \in {"none", "copy"} /\ ~ending'.met
        /\ (ending'.step # "none" => sampled)
    BY <1>0, <2>1, <2>2, AtTyped DEF SpanTypeOK
  <2>4. SpanTypeOK'
    BY <1>0, <1>1, <1>2, <2>1, <2>3 DEF SpanTypeOK, Events, Held
  <2>5. Places'
    BY <1>0, <1>1, <2>2, <2>3 DEF Places
  <2>6. Kept'
    BY <1>1, <2>1, <2>3 DEF Kept, Held, Carries
  <2>7. Progress'
    BY <1>0, <1>1, <2>2, <2>3 DEF Progress
  <2>8. Sent'
    BY <1>1, <2>2, NothingSent
  <2>. QED BY <2>4, <2>5, <2>6, <2>7, <2>8 DEF SpanInv
<1>. QED BY <1>3, <1>4

\* A window of End yields values that are in the map or were when it opened.
LEMMA OverTyped ==
  ASSUME SpanTypeOK, NEW step \in {"keys", "marshal"}
  PROVE  /\ Over(step) \in Steps /\ Over(step).step = step /\ ~Over(step).met
         /\ \A key \in Keys : Over(step).seen[key] = {data[key]}
<1>1. \A key \in Keys : data[key] \in Values \cup {NoValue}
  BY DEF SpanTypeOK, Maps
<1>. DEFINE seen == [key \in Keys |-> {data[key]}]
<1>2. seen \in [Keys -> SUBSET (Values \cup {NoValue})] /\ \A key \in Keys : seen[key] = {data[key]}
  BY <1>1
<1>3. Over(step) = [At(step) EXCEPT !.seen = seen]
  BY DEF Over
<1>. HIDE DEF seen
<1>. QED BY <1>2, <1>3 DEF At, Steps

\* A step of End before the enqueue: nothing was sent, and the setters' state
\* stays.
LEMMA EndsAt ==
  ASSUME SpanInv, NEW step, Ends(step), step # "none"
  PROVE  /\ SpanTypeOK /\ Places /\ Kept /\ Progress
         /\ UNCHANGED <<calls, sampled, ended, data, sending, wire, killed, before, since, late>>
         /\ ending.step = step /\ sampled /\ ended
         /\ enqueued = 0 /\ sending = {} /\ wire = <<>> /\ Sent'
BY NothingSent DEF SpanInv, Ends, Places

\* End takes the map out: what it holds then is what it held before, or newer.
LEMMA CopyStep ==
  ASSUME SpanInv, Copy
  PROVE  SpanInv'
<1>0. /\ SpanTypeOK /\ Places /\ Kept /\ Progress /\ Sent'
      /\ UNCHANGED <<calls, sampled, ended, data, sending, wire, killed, before, since, late>>
      /\ ending.step = "copy" /\ sampled /\ ended /\ enqueued = 0 /\ sending = {} /\ wire = <<>>
  BY EndsAt DEF Copy
<1>1. UNCHANGED <<event, enqueued>> /\ ending' = IF data = Nothing THEN At("enqueue") ELSE Over("keys")
  BY DEF Copy
<1>2. /\ ending' \in Steps /\ ~ending'.met
      /\ IF data = Nothing THEN ending'.step = "enqueue"
         ELSE ending'.step = "keys" /\ \A key \in Keys : ending'.seen[key] = {data[key]}
  BY <1>0, <1>1, AtTyped, OverTyped
<1>3. SpanTypeOK'
  BY <1>0, <1>1, <1>2 DEF SpanTypeOK
<1>4. Places' /\ Kept'
  BY <1>0, <1>1, <1>2 DEF Places, Kept
<1>5. Progress'
  <2>1. event.fields = {} /\ event.payload = Nothing /\ ~event.failed
    BY <1>0 DEF Progress
  <2>2. data = Nothing => Told(event)
    BY <1>0, <2>1 DEF Kept, Told
  <2>3. Told(event)' <=> Told(event)
    BY <1>0, <1>1 DEF Told
  <2>4. data # Nothing =>
          \A key \in Keys : \A v \in ending'.seen[key] :
            (v = before.data[key] \/ <<key, v>> \in since.data) /\ v = data[key]
    BY <1>0, <1>2 DEF Kept, Carries
  <2>. QED BY <1>0, <1>1, <1>2, <2>1, <2>2, <2>3, <2>4 DEF Progress
<1>. QED BY <1>0, <1>3, <1>4, <1>5 DEF SpanInv

\* The keys it collects are those it began with, and maybe later ones.
LEMMA CollectKeysStep ==
  ASSUME SpanInv, CollectKeys
  PROVE  SpanInv'
<1>0. /\ SpanTypeOK /\ Places /\ Kept /\ Progress /\ Sent'
      /\ UNCHANGED <<calls, sampled, ended, data, sending, wire, killed, before, since, late>>
      /\ ending.step = "keys" /\ sampled /\ ended /\ enqueued = 0 /\ sending = {} /\ wire = <<>>
  BY EndsAt DEF CollectKeys
<1>1. UNCHANGED <<event, enqueued>>
  BY DEF CollectKeys
<1>2. PICK map \in Iterated : ending' = [At("fields") EXCEPT !.keys = KeysOf(map)]
  BY DEF CollectKeys
<1>3. \A key \in Keys : map[key] \in ending.seen[key]
  BY <1>2 DEF Iterated
<1>4. /\ ending' \in Steps /\ ending'.step = "fields" /\ ~ending'.met /\ ending'.keys = KeysOf(map)
  BY <1>2 DEF At, Steps, KeysOf
<1>5. KeysOf(before.data) \subseteq KeysOf(map)
  <2>1. \A key \in Keys : map[key] = before.data[key] \/ map[key] \in Values
    <3>1. since.data \subseteq Keys \X Values
      BY <1>0 DEF SpanTypeOK, Histories
    <3>2. \A key \in Keys : map[key] = before.data[key] \/ <<key, map[key]>> \in since.data
      BY <1>0, <1>3 DEF Progress
    <3>. QED BY <3>1, <3>2
  <2>. QED BY <2>1, SpanValues DEF KeysOf
<1>6. KeysOf(map) \subseteq KeysOf(data)
  BY <1>0, <1>3 DEF Progress, KeysOf
<1>7. SpanTypeOK'
  BY <1>0, <1>1, <1>4 DEF SpanTypeOK
<1>8. Places' /\ Kept'
  BY <1>0, <1>1, <1>4 DEF Places, Kept
<1>9. Progress'
  BY <1>0, <1>1, <1>4, <1>5, <1>6 DEF Progress
<1>. QED BY <1>0, <1>7, <1>8, <1>9 DEF SpanInv

\* data.fields is written, or lost to a SetAttr that met no map; then End was
\* called on a span without attributes, so none of before is lost with it.
LEMMA WriteFieldsStep ==
  ASSUME SpanInv, WriteFields
  PROVE  SpanInv'
<1>0. /\ SpanTypeOK /\ Places /\ Kept /\ Progress /\ Sent'
      /\ UNCHANGED <<calls, sampled, ended, data, sending, wire, killed, before, since, late>>
      /\ ending.step = "fields" /\ sampled /\ ended /\ enqueued = 0 /\ sending = {} /\ wire = <<>>
  BY EndsAt DEF WriteFields
<1>1. UNCHANGED enqueued /\ ending' = Over("marshal")
  BY DEF WriteFields
<1>2. /\ event.fields = {} /\ event.payload = Nothing /\ ~event.failed
      /\ KeysOf(before.data) \subseteq ending.keys /\ ending.keys \subseteq KeysOf(data)
  BY <1>0 DEF Progress
<1>3. event.attrs \in Maps /\ ending.keys \in SUBSET Keys
  BY <1>0 DEF SpanTypeOK, Events, Steps
<1>4. /\ event' \in Events /\ event'.error = event.error /\ event'.status = event.status
      /\ event'.payload = event.payload /\ event'.failed = event.failed
      /\ event'.fields = {} \/ event'.fields = ending.keys
      /\ \A key \in Keys : event'.attrs[key] = event.attrs[key] \/ (ending.met /\ event'.attrs[key] = NoValue)
  <2>1. CASE event' = [event EXCEPT !.fields = ending.keys]
    BY <1>0, <1>3, <2>1 DEF SpanTypeOK, Events
  <2>2. CASE ending.met /\ \E lost \in SUBSET Keys :
                event' = [event EXCEPT !.fields = ending.keys,
                                       !.attrs = [key \in Keys |-> IF key \in lost THEN NoValue ELSE @[key]]]
    <3>1. PICK lost \in SUBSET Keys :
                event' = [event EXCEPT !.fields = ending.keys,
                                       !.attrs = [key \in Keys |-> IF key \in lost THEN NoValue ELSE @[key]]]
      BY <2>2
    <3>. DEFINE rest == [key \in Keys |-> IF key \in lost THEN NoValue ELSE event.attrs[key]]
    <3>2. rest \in Maps /\ \A key \in Keys : rest[key] = event.attrs[key] \/ rest[key] = NoValue
      BY <1>3 DEF Maps
    <3>3. event' = [event EXCEPT !.fields = ending.keys, !.attrs = rest]
      BY <3>1
    <3>. HIDE DEF rest
    <3>. QED BY <1>0, <1>3, <2>2, <3>2, <3>3 DEF SpanTypeOK, Events
  <2>3. CASE event' = event
    BY <1>0, <1>2, <2>3 DEF SpanTypeOK
  <2>. QED BY <2>1, <2>2, <2>3 DEF WriteFields
<1>5. /\ ending' \in Steps /\ ending'.step = "marshal" /\ ~ending'.met
      /\ \A key \in Keys : ending'.seen[key] = {data[key]}
  BY <1>0, <1>1, OverTyped
<1>6. SpanTypeOK'
  BY <1>0, <1>1, <1>4, <1>5 DEF SpanTypeOK
<1>7. Places'
  BY <1>0, <1>1, <1>5 DEF Places
<1>8. Kept'
  <2>1. Carries(event'.attrs, before.attrs, since.attrs)
    BY <1>0, <1>4 DEF Kept, Carries
  <2>. QED BY <1>0, <1>4, <1>5, <2>1 DEF Kept
<1>9. Progress'
  <2>1. \A key \in Keys : \A v \in ending'.seen[key] : v = before.data[key] \/ <<key, v>> \in since.data
    BY <1>0, <1>5 DEF Kept, Carries
  <2>2. \A key \in event'.fields : NoValue \notin ending'.seen[key]
    BY <1>2, <1>3, <1>4, <1>5 DEF KeysOf
  <2>. QED BY <1>0, <1>1, <1>2, <1>4, <1>5, <2>1, <2>2 DEF Progress
<1>. QED BY <1>0, <1>6, <1>7, <1>8, <1>9 DEF SpanInv

\* The payload is marshalled, or capture_error in its place: now the event
\* holds all it must hold.
LEMMA AttachPayloadStep ==
  ASSUME SpanInv, AttachPayload
  PROVE  SpanInv'
<1>0. /\ SpanTypeOK /\ Places /\ Kept /\ Progress /\ Sent'
      /\ UNCHANGED <<calls, sampled, ended, data, sending, wire, killed, before, since, late>>
      /\ ending.step = "marshal" /\ sampled /\ ended /\ enqueued = 0 /\ sending = {} /\ wire = <<>>
  BY EndsAt DEF AttachPayload
<1>1. UNCHANGED enqueued /\ ending' = At("enqueue")
  BY DEF AttachPayload
<1>2. PICK map \in Iterated :
        event' = IF \E key \in Keys : map[key] \in Unfit
                 THEN [event EXCEPT !.failed = TRUE] ELSE [event EXCEPT !.payload = map]
  BY DEF AttachPayload
<1>3. map \in Maps /\ \A key \in Keys : map[key] \in ending.seen[key]
  BY DEF Iterated, Maps
<1>4. /\ event' \in Events /\ event'.error = event.error /\ event'.attrs = event.attrs
      /\ event'.status = event.status /\ event'.fields = event.fields
      /\ IF \E key \in Keys : map[key] \in Unfit THEN event'.failed ELSE ~event'.failed /\ event'.payload = map
  BY <1>0, <1>2, <1>3 DEF SpanTypeOK, Events, Progress
<1>5. /\ \A key \in Keys : map[key] = before.data[key] \/ <<key, map[key]>> \in since.data
      /\ \A key \in event.fields : map[key] # NoValue
      /\ event.fields # {} => KeysOf(before.data) \subseteq event.fields
      /\ event.fields \subseteq Keys
  BY <1>0, <1>3 DEF Progress, SpanTypeOK, Events
<1>6. Told(event)'
  <2>1. event'.failed => \E key \in Keys, value \in Unfit : before.data[key] = value \/ <<key, value>> \in since.data
    BY <1>4, <1>5
  <2>2. ~event'.failed =>
          Carries(event'.payload, before.data, since.data) /\ event'.fields \subseteq KeysOf(event'.payload)
    BY <1>4, <1>5 DEF Carries, KeysOf
  <2>. QED BY <1>0, <1>4, <1>5, <2>1, <2>2 DEF Told, Kept
<1>7. ending' \in Steps /\ ending'.step = "enqueue" /\ ~ending'.met
  BY <1>1, AtTyped
<1>8. SpanTypeOK'
  BY <1>0, <1>1, <1>4, <1>7 DEF SpanTypeOK
<1>9. Places' /\ Kept'
  BY <1>0, <1>1, <1>4, <1>7 DEF Places, Kept
<1>10. Progress'
  BY <1>0, <1>1, <1>6, <1>7 DEF Progress
<1>. QED BY <1>0, <1>8, <1>9, <1>10 DEF SpanInv

\* The event is handed over, complete.
LEMMA EnqueueStep ==
  ASSUME SpanInv, Enqueue
  PROVE  SpanInv'
<1>0. /\ SpanTypeOK /\ Places /\ Kept /\ Progress /\ Sent'
      /\ UNCHANGED <<calls, sampled, ended, data, sending, wire, killed, before, since, late>>
      /\ ending.step = "enqueue" /\ sampled /\ ended /\ enqueued = 0 /\ sending = {} /\ wire = <<>>
  BY EndsAt DEF Enqueue
<1>1. UNCHANGED event /\ ending' = At("none") /\ enqueued' = 1
  BY <1>0 DEF Enqueue
<1>2. ending' \in Steps /\ ending'.step = "none" /\ ~ending'.met
  BY <1>1, AtTyped
<1>3. Told(event)'
  BY <1>0, <1>1 DEF Progress, Told
<1>4. SpanTypeOK'
  BY <1>0, <1>1, <1>2 DEF SpanTypeOK
<1>5. Places' /\ Kept'
  BY <1>0, <1>1, <1>2 DEF Places, Kept
<1>6. Progress'
  BY <1>0, <1>1, <1>2, <1>3 DEF Progress
<1>. QED BY <1>0, <1>4, <1>5, <1>6 DEF SpanInv

\* The sender begins to marshal what the event is now.
LEMMA BeginSendStep ==
  ASSUME SpanInv, BeginSend
  PROVE  SpanInv'
<1>0. SpanTypeOK /\ Places /\ Kept /\ Progress /\ Sent
  BY DEF SpanInv
<1>. DEFINE s == [attrs |-> [key \in Keys |-> {event.attrs[key]}],
                  error |-> {event.error}, status |-> {event.status}]
<1>1. /\ UNCHANGED <<calls, sampled, ended, event, data, ending, enqueued, wire, killed, before, since, late>>
      /\ enqueued > 0 /\ sending' = {s}
  BY DEF BeginSend
<1>2. enqueued = 1
  BY <1>0, <1>1 DEF Places
<1>3. s \in Readings
  BY <1>0 DEF SpanTypeOK, Events, Maps, Readings
<1>4. SpanTypeOK'
  BY <1>0, <1>1, <1>3 DEF SpanTypeOK
<1>5. Places' /\ Kept'
  BY <1>0, <1>1, <1>2 DEF Places, Kept
<1>6. (\A e : Told(e)' <=> Told(e)) /\ (\A a, b : Agrees(a, b)' <=> Agrees(a, b))
  BY <1>1 DEF Told, Agrees
<1>7. Progress'
  BY <1>0, <1>1, <1>6 DEF Progress
<1>8. Told(event) /\ Agrees(event, event)
  BY <1>0, <1>2 DEF Progress, Agrees, Carries
<1>9. PICK r \in Readings : r = s
  BY <1>3
<1>10. \A a : Agrees(a, event) => Between(a, r, event)'
  BY <1>1, <1>9 DEF Agrees, Between, Carries
<1>11. event \in Events
  BY <1>0 DEF SpanTypeOK
<1>12. sending' = {r}
  BY <1>1, <1>9
<1>. HIDE DEF s
<1>13. Sent'
  <2>1. \A i \in DOMAIN wire : (Told(wire[i]) /\ Agrees(wire[i], event))' /\ Between(wire[i], r, event)'
    BY <1>0, <1>1, <1>6, <1>10 DEF Sent
  <2>2. \A i, j \in DOMAIN wire : i < j => Agrees(wire[i], wire[j])'
    BY <1>0, <1>1, <1>6 DEF Sent
  <2>3. PICK e \in Events : e = event
    BY <1>11
  <2>4. Told(e)' /\ Between(e, r, event)'
    BY <1>6, <1>8, <1>10, <2>3
  <2>5. Agrees(e, event)'
    BY <1>1, <2>3 DEF Agrees, Carries
  <2>. QED BY <1>1, <1>12, <2>1, <2>2, <2>4, <2>5 DEF Sent
<1>. QED BY <1>4, <1>5, <1>7, <1>13 DEF SpanInv

\* What the sender read agrees with what was before it and with the event of
\* now.
LEMMA ReadAgrees ==
  ASSUME NEW s, NEW a, NEW sent, Between(a, s, event), Agrees(a, event),
         \A key \in Keys : sent.attrs[key] \in s.attrs[key], sent.error \in s.error, sent.status \in s.status,
         sent.payload = event.payload, sent.failed = event.failed, sent.fields = event.fields
  PROVE  Agrees(a, sent) /\ Agrees(sent, event)
BY DEF Between, Agrees, Carries

\* The sender is done: nothing went out, or what it read of the event.
LEMMA FinishSendStep ==
  ASSUME SpanInv, FinishSend
  PROVE  SpanInv'
<1>0. SpanTypeOK /\ Places /\ Kept /\ Progress /\ Sent
  BY DEF SpanInv
<1>1. /\ UNCHANGED <<calls, sampled, ended, event, data, ending, enqueued, killed, before, since, late>>
      /\ sending # {} /\ sending' = {}
  BY DEF FinishSend
<1>2. (\A e : Told(e)' <=> Told(e)) /\ (\A a, b : Agrees(a, b)' <=> Agrees(a, b))
  BY <1>1 DEF Told, Agrees
<1>3. Places' /\ Kept'
  BY <1>0, <1>1 DEF Places, Kept
<1>4. Progress'
  BY <1>0, <1>1, <1>2 DEF Progress
<1>5. CASE UNCHANGED wire
  <2>1. SpanTypeOK'
    BY <1>0, <1>1, <1>5 DEF SpanTypeOK
  <2>2. Sent'
    BY <1>0, <1>1, <1>2, <1>5 DEF Sent
  <2>. QED BY <1>3, <1>4, <2>1, <2>2 DEF SpanInv
<1>6. CASE ~UNCHANGED wire
  <2>1. PICK s \in sending : \E attrs \in Maps, error \in s.error, status \in s.status :
          /\ \A key \in Keys : attrs[key] \in s.attrs[key]
          /\ wire' = Append(wire, [event EXCEPT !.attrs = attrs, !.error = error, !.status = status])
    BY <1>6 DEF FinishSend, Maps
  <2>2. PICK attrs \in Maps, error \in s.error, status \in s.status :
          /\ \A key \in Keys : attrs[key] \in s.attrs[key]
          /\ wire' = Append(wire, [event EXCEPT !.attrs = attrs, !.error = error, !.status = status])
    BY <2>1
  <2>. DEFINE sent == [event EXCEPT !.attrs = attrs, !.error = error, !.status = status]
  <2>3. s \in Readings
    BY <1>0 DEF SpanTypeOK
  <2>4. /\ sent \in Events /\ sent.attrs = attrs /\ sent.error = error /\ sent.status = status
        /\ sent.fields = event.fields /\ sent.payload = event.payload /\ sent.failed = event.failed
    BY <1>0, <2>3 DEF SpanTypeOK, Events, Readings
  <2>. HIDE DEF sent
  <2>5. /\ wire' \in Seq(Events) /\ Len(wire') = Len(wire) + 1 /\ Len(wire) \in Nat
        /\ DOMAIN wire = 1..Len(wire) /\ DOMAIN wire' = 1..(Len(wire) + 1)
        /\ wire'[Len(wire) + 1] = sent /\ \A i \in 1..Len(wire) : wire'[i] = wire[i]
    BY <1>0, <2>2, <2>4, AppendElements DEF SpanTypeOK, sent
  <2>6. PICK e \in Events : Told(e) /\ Between(e, s, event) /\ Agrees(e, event)
    BY <1>0 DEF Sent
  <2>7. \A a : Between(a, s, event) /\ Agrees(a, event) => Agrees(a, sent) /\ Agrees(sent, event)
    BY <2>2, <2>4, ReadAgrees
  <2>8. Told(sent) /\ Agrees(sent, event)
    BY <1>0, <2>6, <2>7, ToldAgrees
  <2>9. SpanTypeOK'
    BY <1>0, <1>1, <2>5 DEF SpanTypeOK
  <2>10. \A i \in DOMAIN wire' : Told(wire'[i]) /\ Agrees(wire'[i], event)
    BY <1>0, <2>5, <2>8 DEF Sent
  <2>11. \A i, j \in DOMAIN wire' : i < j => Agrees(wire'[i], wire'[j])
    <3>. SUFFICES ASSUME NEW i \in DOMAIN wire', NEW j \in DOMAIN wire', i < j
         PROVE  Agrees(wire'[i], wire'[j])
      OBVIOUS
    <3>1. i \in 1..Len(wire) /\ (j \in 1..Len(wire) \/ j = Len(wire) + 1)
      BY <2>5
    <3>2. CASE j \in 1..Len(wire)
      BY <1>0, <2>5, <3>1, <3>2 DEF Sent
    <3>3. CASE j = Len(wire) + 1
      <4>1. Between(wire[i], s, event) /\ Agrees(wire[i], event)
        BY <1>0, <2>5, <3>1 DEF Sent
      <4>. QED BY <2>5, <2>7, <3>1, <3>3, <4>1
    <3>. QED BY <3>1, <3>2, <3>3
  <2>12. Sent'
    BY <1>1, <1>2, <2>10, <2>11 DEF Sent
  <2>. QED BY <1>3, <1>4, <2>9, <2>12 DEF SpanInv
<1>. QED BY <1>5, <1>6

\* A step that changes nothing.
LEMMA SpanStutter ==
  ASSUME SpanInv, UNCHANGED spanVars
  PROVE  SpanInv'
<1>. USE DEF SpanInv, spanVars
<1>1. SpanTypeOK'
  BY DEF SpanTypeOK
<1>2. Places' /\ Kept'
  BY DEF Places, Kept
<1>3. Progress'
  BY DEF Progress, Told
<1>4. /\ \A e : Told(e)' <=> Told(e)
      /\ \A a, b : Agrees(a, b)' <=> Agrees(a, b)
      /\ \A a, s, b : Between(a, s, b)' <=> Between(a, s, b)
  BY DEF Told, Agrees, Between
<1>5. Sent'
  BY <1>4 DEF Sent
<1>. QED BY <1>1, <1>2, <1>3, <1>5

\* The invariant holds in every reachable state.
THEOREM SpanInvariance == SpanSpec => []SpanInv
<1>1. SpanInv /\ [SpanNext]_spanVars => SpanInv'
  <2>. SUFFICES ASSUME SpanInv, [SpanNext]_spanVars PROVE SpanInv'
    OBVIOUS
  <2>1. CASE Setter \/ End
    BY <2>1, SetAttrStep, SetDataStep, RecordErrorStep, SetStatusStep, EndStep DEF Setter
  <2>2. CASE Delivers
    BY <2>2, CopyStep, CollectKeysStep, WriteFieldsStep, AttachPayloadStep, EnqueueStep,
       BeginSendStep, FinishSendStep DEF Delivers
  <2>3. CASE UNCHANGED spanVars
    BY <2>3, SpanStutter
  <2>. QED BY <2>1, <2>2, <2>3 DEF SpanNext
<1>. QED BY <1>1, SpanInitInv, PTL DEF SpanSpec

\* However many goroutines call End, by hand or deferred, the span is enqueued
\* once at most, and only when it is sampled and ended.
THEOREM OneEnqueue == SpanSpec => []EnqueuedOnce
<1>1. SpanInv => EnqueuedOnce
  BY DEF SpanInv, Places, EnqueuedOnce
<1>. QED BY <1>1, SpanInvariance, PTL

\* Every transmission holds what the span held when End was called or what was
\* set again since, whatever setters run beside End and beside the sender; the
\* payload goes only if JSON cannot express a value that was set.
THEOREM NothingSetIsLost == SpanSpec => []SetBeforeEndShips
<1>1. SpanInv => SetBeforeEndShips
  BY DEF SpanInv, Sent, Told, SetBeforeEndShips
<1>. QED BY <1>1, SpanInvariance, PTL

\* However often the event is sent again and written meanwhile, a later
\* transmission differs from an earlier one only by what was set since the
\* sender first marshalled the event.
THEOREM ReplaysAgree == SpanSpec => []ReplayAgrees
<1>1. SpanInv => ReplayAgrees
  BY DEF SpanInv, Sent, Agrees, ReplayAgrees
<1>. QED BY <1>1, SpanInvariance, PTL
=============================================================================
