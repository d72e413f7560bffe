----------------------------- MODULE SharedSpan -----------------------------
(***************************************************************************)
(* One span used by several goroutines (trace.go): the setters, which hold *)
(* s.mu, and End, which takes the event and the payload map out under s.mu *)
(* and works on them after unlocking it, while the event it enqueued is    *)
(* marshalled by the sender, once or again after a reconnect.              *)
(*                                                                         *)
(* A step of End, or of the sender, that touches a map without the mutex   *)
(* is an open window: the state in which the step has begun.  A setter     *)
(* that writes the same map in an open window is a data race, of which the *)
(* Go runtime kills the process or not, and whose write the other side     *)
(* sees or not.  Setters exclude each other by the mutex and are atomic.   *)
(***************************************************************************)
EXTENDS Integers, Sequences

CONSTANTS Keys,      \* names of attributes and of payload fields
          Values,    \* what they are set to
          Unfit,     \* the values of payload fields that JSON cannot express
          NoValue,   \* of a key that is not set
          Errors,    \* messages recorded by the user code
          Codes,     \* statuses set by it
          MaxCalls,  \* bound of the model: calls of the setters and of End
          MaxSends   \* bound of the model: transmissions of the event

NoError == ""

ASSUME SpanBounds == MaxCalls \in Nat /\ MaxSends \in Nat /\ NoError \notin Errors
ASSUME SpanValues == Unfit \subseteq Values /\ NoValue \notin Values

VARIABLES
  calls,    \* how many calls were made, by whatever goroutines
  sampled, ended,
  event,    \* s.ev: its Metadata (a nil map: no key is set), error, status, data.fields, Payload
  data,     \* s.payload (a nil map: no key is set)
  ending,   \* End: its step, the keys collected, the values an open window may
            \* read of each key, and whether it met a SetAttr
  enqueued, \* how often the event was handed to the pipeline
  sending,  \* what the sender that marshals the event may read of it, if it does
  wire,     \* the event as it was transmitted, each time
  killed,   \* the runtime has killed the process
  before,   \* history: what the span held when End was called
  since,    \* history: what was set since then
  late      \* history: what was set since the sender first marshalled the event

spanVars == <<calls, sampled, ended, event, data, ending, enqueued, sending, wire, killed,
              before, since, late>>

Nothing == [key \in Keys |-> NoValue]

\* failed: attachPayload's marshal failed, and the Payload is capture_error alone.
Fresh == [attrs |-> Nothing, error |-> NoError, status |-> 0, fields |-> {},
          payload |-> Nothing, failed |-> FALSE]

At(step) == [step |-> step, keys |-> {}, seen |-> [key \in Keys |-> {}], met |-> FALSE]

Nowhere == [attrs |-> {}, data |-> {}, status |-> {}]

SpanInit ==
  /\ calls = 0
  /\ sampled \in BOOLEAN
  /\ ended = FALSE
  /\ event = Fresh
  /\ data = Nothing
  /\ ending = At("none")
  /\ enqueued = 0
  /\ sending = {}
  /\ wire = <<>>
  /\ killed = FALSE
  /\ before = [attrs |-> Nothing, data |-> Nothing, error |-> NoError, status |-> 0]
  /\ since = Nowhere
  /\ late = Nowhere

-----------------------------------------------------------------------------
\* Some goroutine calls: which one makes no difference, the rest of End being
\* steps of its own.
Call ==
  /\ ~killed
  /\ calls < MaxCalls
  /\ calls' = calls + 1

\* The outcomes of a write into a map that an open window reads or writes.
MayKill(window) == killed' \in (IF window THEN BOOLEAN ELSE {FALSE})

\* The histories: a part of the span was set.
Noted(part, what) ==
  /\ since' = IF ended THEN [since EXCEPT ![part] = @ \union {what}] ELSE since
  /\ late' = IF sending # {} \/ wire # <<>> THEN [late EXCEPT ![part] = @ \union {what}] ELSE late

\* Only in a window of End that found no map can a write get lost: End and
\* SetAttr both see nil and each stores a map of its own.
SetAttr(key, value) ==
  /\ Call
  /\ event' = [event EXCEPT !.attrs[key] = value]
  /\ ending' = [ending EXCEPT !.met = @ \/ (ending.step = "fields" /\ event.attrs = Nothing)]
  /\ sending' = {[s EXCEPT !.attrs[key] = @ \union {value}] : s \in sending}
  /\ MayKill(ending.step = "fields" \/ sending # {})
  /\ Noted("attrs", <<key, value>>)
  /\ UNCHANGED <<sampled, ended, data, enqueued, wire, before>>

SetData(key, value) ==
  /\ Call
  /\ data' = [data EXCEPT ![key] = value]
  /\ ending' = IF ending.step \in {"keys", "marshal"}
               THEN [ending EXCEPT !.seen[key] = @ \union {value}] ELSE ending
  /\ MayKill(ending.step \in {"keys", "marshal"})
  /\ Noted("data", <<key, value>>)
  /\ UNCHANGED <<sampled, ended, event, enqueued, sending, wire, before>>

\* Seeded bug: the last error wins.
LastError(old, new) == new

\* The first error wins.
FirstError(old, new) == IF old = NoError THEN new ELSE old

\* A string is two words: the sender may read it while it is half written.
RecordError(error) ==
  /\ Call
  /\ event' = [event EXCEPT !.error = FirstError(@, error)]
  /\ sending' = {[s EXCEPT !.error = @ \union {event'.error}] : s \in sending}
  /\ MayKill(sending # {} /\ event.error = NoError)
  /\ UNCHANGED <<sampled, ended, data, ending, enqueued, wire, before, since, late>>

\* The last status wins.
SetStatus(code) ==
  /\ Call
  /\ event' = [event EXCEPT !.status = code]
  /\ sending' = {[s EXCEPT !.status = @ \union {code}] : s \in sending}
  /\ Noted("status", code)
  /\ UNCHANGED <<sampled, ended, data, ending, enqueued, wire, killed, before>>

-----------------------------------------------------------------------------
(* End.  A goroutine that loses the compare-and-swap returns at once.      *)

Held == [attrs |-> event.attrs, data |-> data, error |-> event.error, status |-> event.status]

\* Seeded bug: the flag is set when the event has been enqueued.
EndUnguarded ==
  /\ Call
  /\ ended' = TRUE
  /\ before' = Held
  /\ ending' = IF sampled THEN At("copy") ELSE ending
  /\ UNCHANGED <<sampled, event, data, enqueued, sending, wire, killed, since, late>>

End ==
  /\ Call
  /\ ended' = TRUE
  /\ IF ended THEN UNCHANGED <<ending, before>>
     ELSE before' = Held /\ ending' = IF sampled THEN At("copy") ELSE ending
  /\ UNCHANGED <<sampled, event, data, enqueued, sending, wire, killed, since, late>>

\* End is at a step of its own; the setters' state and the sender's stay.
Ends(step) ==
  /\ ~killed
  /\ ending.step = step
  /\ UNCHANGED <<calls, sampled, ended, data, sending, wire, killed, before, since, late>>

\* The window of a step that iterates over the payload map.
Over(step) == [At(step) EXCEPT !.seen = [key \in Keys |-> {data[key]}]]

\* Seeded bug: hands the event over before its payload is attached.
CopyEnqueues ==
  /\ Ends("copy")
  /\ ending' = IF data = Nothing THEN At("enqueue") ELSE Over("keys")
  /\ enqueued' = 1
  /\ UNCHANGED event

Copy ==
  /\ Ends("copy")
  /\ ending' = IF data = Nothing THEN At("enqueue") ELSE Over("keys")
  /\ UNCHANGED <<event, enqueued>>

\* An iteration over the payload map yields, of each key, one of the values it
\* had while the window was open.
Iterated == {map \in [Keys -> Values \union {NoValue}] : \A key \in Keys : map[key] \in ending.seen[key]}

KeysOf(map) == {key \in Keys : map[key] # NoValue}

CollectKeys ==
  /\ Ends("keys")
  /\ \E map \in Iterated : ending' = [At("fields") EXCEPT !.keys = KeysOf(map)]
  /\ UNCHANGED <<event, enqueued>>

\* data.fields, and data.pii with it.
WriteFields ==
  /\ Ends("fields")
  /\ \/ event' = [event EXCEPT !.fields = ending.keys]
     \/ /\ ending.met
        /\ \/ \E lost \in SUBSET Keys :
                event' = [event EXCEPT !.fields = ending.keys,
                                       !.attrs = [key \in Keys |-> IF key \in lost THEN NoValue ELSE @[key]]]
           \/ event' = event
  /\ ending' = Over("marshal")
  /\ UNCHANGED enqueued

\* attachPayload marshals the map into bytes; a value that JSON cannot express
\* costs the whole payload.
AttachPayload ==
  /\ Ends("marshal")
  /\ \E map \in Iterated :
       event' = IF \E key \in Keys : map[key] \in Unfit
                THEN [event EXCEPT !.failed = TRUE] ELSE [event EXCEPT !.payload = map]
  /\ ending' = At("enqueue")
  /\ UNCHANGED enqueued

Enqueue ==
  /\ Ends("enqueue")
  /\ ending' = At("none")
  /\ enqueued' = enqueued + 1
  /\ UNCHANGED event

\* The sender: the stream marshals the event, whose pointer the span still has.
BeginSend ==
  /\ ~killed
  /\ enqueued > 0 /\ sending = {}
  /\ Len(wire) < MaxSends
  /\ sending' = {[attrs |-> [key \in Keys |-> {event.attrs[key]}],
                  error |-> {event.error}, status |-> {event.status}]}
  /\ UNCHANGED <<calls, sampled, ended, event, data, ending, enqueued, wire, killed, before, since, late>>

\* Nothing goes out if the stream is broken, or if the marshaller meets a map
\* of another size than it has counted.
FinishSend ==
  /\ ~killed
  /\ sending' = {}
  /\ \E s \in sending :
       \/ \E attrs \in [Keys -> Values \union {NoValue}], error \in s.error, status \in s.status :
            /\ \A key \in Keys : attrs[key] \in s.attrs[key]
            /\ wire' = Append(wire, [event EXCEPT !.attrs = attrs, !.error = error, !.status = status])
       \/ UNCHANGED wire
  /\ UNCHANGED <<calls, sampled, ended, event, data, ending, enqueued, killed, before, since, late>>

Setter ==
  \/ \E key \in Keys, value \in Values : SetAttr(key, value) \/ SetData(key, value)
  \/ \E error \in Errors : RecordError(error)
  \/ \E code \in Codes : SetStatus(code)

Delivers == Copy \/ CollectKeys \/ WriteFields \/ AttachPayload \/ Enqueue \/ BeginSend \/ FinishSend

SpanNext == Setter \/ End \/ Delivers

SpanSpec == SpanInit /\ [][SpanNext]_spanVars

-----------------------------------------------------------------------------
(* Properties.                                                             *)

\* End is called by several goroutines, by a deferred function and by hand: a
\* span is enqueued once, and only when it is sampled and ended (trace.go:127).
EnqueuedOnce == enqueued <= 1 /\ (enqueued > 0 => sampled /\ ended)

\* Every key has the value it had, or one it was given among the sets.
Carries(map, old, sets) ==
  \A key \in Keys : map[key] = old[key] \/ <<key, map[key]>> \in sets

\* A transmission holds what was set before End was called, unless it was set
\* again since: attributes, status, the first error, and the payload.  The
\* payload is missing as a whole if JSON cannot express a value set before End
\* or since (attachPayload ships capture_error instead), and for no other
\* reason.  data.fields names fields of the payload, if that was not replaced,
\* and all of those set before End unless the race on a nil map lost it.
SetBeforeEndShips ==
  \A i \in DOMAIN wire :
    /\ Carries(wire[i].attrs, before.attrs, since.attrs)
    /\ wire[i].status \in {before.status} \union since.status
    /\ before.error # NoError => wire[i].error = before.error
    /\ IF wire[i].failed
       THEN \E key \in Keys, value \in Unfit : before.data[key] = value \/ <<key, value>> \in since.data
       ELSE /\ Carries(wire[i].payload, before.data, since.data)
            /\ wire[i].fields \subseteq KeysOf(wire[i].payload)
    /\ wire[i].fields # {} => KeysOf(before.data) \subseteq wire[i].fields

\* A replay repeats the event although the span is still written: payload and
\* data.fields are the same, an error sent stays, and an attribute or a status
\* that differs was set after the sender first marshalled the event.
ReplayAgrees ==
  \A i, j \in DOMAIN wire : i < j =>
    /\ wire[i].payload = wire[j].payload /\ wire[i].failed = wire[j].failed
    /\ wire[i].fields = wire[j].fields
    /\ Carries(wire[j].attrs, wire[i].attrs, late.attrs)
    /\ wire[j].status \in {wire[i].status} \union late.status
    /\ wire[i].error # NoError => wire[j].error = wire[i].error

\* "A Span is safe for concurrent use." (trace.go:21-22)
SafeForConcurrentUse == ~killed
=============================================================================
