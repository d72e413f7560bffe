---------------------------- MODULE RequestSpans ----------------------------
(***************************************************************************)
(* Spans around user code: Middleware and GinMiddleware (middleware.go),   *)
(* Trace (trace.go), PanicMiddleware and CapturePanic (panic.go), and the  *)
(* registry of the spans active on each goroutine (logs.go), while the     *)
(* user code returns, fails or panics at any depth.                        *)
(*                                                                         *)
(* Each goroutine has a stack of frames.  In mode "run" the user code of   *)
(* the innermost frame runs and may do anything: enter another layer,      *)
(* write the response, record an error, return, return an error, panic.    *)
(* It uses the context it was handed last; in gin that is the context of   *)
(* c.Request, which GinMiddleware replaces and does not restore.  A panic  *)
(* unwinds frame by frame through the deferred functions.  Every span is   *)
(* sampled; a span is shipped when it is ended, with the fields it has at  *)
(* that moment.                                                            *)
(***************************************************************************)
EXTENDS Integers, Sequences, Functions

CONSTANTS Goroutines,
          MaxDepth,  \* bound of the model: nested layers
          MaxSpans   \* bound of the model: spans ever started

ASSUME BoundsAssumption == MaxDepth \in Nat /\ MaxSpans \in Nat

VARIABLES
  enabled,   \* Enabled(); turns TRUE when Configure is called
  frames,    \* per goroutine: the layers around the running code, outermost first
  request,   \* per goroutine: the span in c.Request's context, 0 if none
  mode,      \* per goroutine: what its innermost frame does
  response,  \* per goroutine: the status of its request's response, 0 before the header
  ambient,   \* ambientSpans: per goroutine, the registry's stack of span numbers
  spans,     \* the spans started so far
  panicked,  \* history: the spans a panic was recorded on while they were open
  torn       \* history: the spans whose layer a panic left without its epilogue

vars == <<enabled, frames, request, mode, response, ambient, spans, panicked, torn>>

\* A layer that has no span, or that stepped aside, has span 0.  "engine" is
\* gin's, around the handlers that share one c.Request.  context: the span of
\* the context the layer got, or made; 0 if that has none.
Frames == [layer : {"http", "gin", "trace", "panic", "capture", "engine"},
           span : Nat, context : Nat]
Spans == [layer : {"http", "gin", "trace", "crash"},
          error : {"none", "app", "http", "panic"}, status : {0, 200, 500}, ended : BOOLEAN]

Init ==
  /\ enabled \in BOOLEAN
  /\ frames = [g \in Goroutines |-> <<>>]
  /\ request = [g \in Goroutines |-> 0]
  /\ mode = [g \in Goroutines |-> "idle"]
  /\ response = [g \in Goroutines |-> 0]
  /\ ambient = [g \in Goroutines |-> <<>>]
  /\ spans = <<>>
  /\ panicked = {}
  /\ torn = {}

Enable ==
  /\ enabled' = TRUE
  /\ UNCHANGED <<frames, request, mode, response, ambient, spans, panicked, torn>>

-----------------------------------------------------------------------------
Top(g) == frames[g][Len(frames[g])]

\* c.Request goes with its engine.
Leave(g) ==
  /\ frames' = [frames EXCEPT ![g] = SubSeq(@, 1, Len(@) - 1)]
  /\ request' = [request EXCEPT ![g] = IF Top(g).layer = "engine" THEN 0 ELSE @]

\* An engine is around the running code; a handler that serves another engine
\* is left out.
InEngine(g) == \E i \in DOMAIN frames[g] : frames[g][i].layer = "engine"

\* The running code may call c.Next(): net/http handlers have no *gin.Context.
InGin(g) ==
  \E i \in DOMAIN frames[g] :
    /\ frames[g][i].layer = "engine"
    /\ \A j \in DOMAIN frames[g] : j > i => frames[g][j].layer \notin {"http", "panic"}

\* The running code is a gin handler's own, which takes its context from
\* c.Request whenever it needs one; CapturePanic hands on none.
HandlesGin(g) ==
  \E i \in DOMAIN frames[g] :
    /\ frames[g][i].layer \in {"gin", "engine"}
    /\ \A j \in DOMAIN frames[g] : j > i => frames[g][j].layer = "capture"

\* Seeded bug: the span started last, wherever it was started.
ContextSpanLast(g) == Len(spans)

\* SpanFromContext, of the context the running code has.
ContextSpan(g) ==
  IF frames[g] = <<>> THEN 0
  ELSE IF HandlesGin(g) THEN request[g]
  ELSE Top(g).context

NewSpan(layer) == [layer |-> layer, error |-> "none", status |-> 0, ended |-> FALSE]

\* RecordError keeps the first error.
WithError(span, error) == [span EXCEPT !.error = IF @ = "none" THEN error ELSE @]

WithPanic(span) == [WithError(span, "panic") EXCEPT !.status = 500]

\* recordPanic records nothing without a span or while the SDK is disabled.
RecordPanic(id) ==
  IF id # 0 /\ enabled
  THEN /\ spans' = [spans EXCEPT ![id] = WithPanic(@)]
       /\ panicked' = IF spans[id].ended THEN panicked ELSE panicked \cup {id}
  ELSE UNCHANGED <<spans, panicked>>

Push(g, id) == ambient' = [ambient EXCEPT ![g] = Append(@, id)]

\* popCurrentSpan; a frame without a span deferred none.
Pop(g) ==
  ambient' = IF Top(g).span # 0 /\ ambient[g] # <<>>
             THEN [ambient EXCEPT ![g] = SubSeq(@, 1, Len(@) - 1)] ELSE ambient

-----------------------------------------------------------------------------
(* User code.                                                              *)

\* A request, or a background job.
Begin(g) ==
  /\ mode[g] = "idle"
  /\ mode' = [mode EXCEPT ![g] = "run"]
  /\ UNCHANGED <<enabled, frames, request, response, ambient, spans, panicked, torn>>

CanEnter(g, layer) ==
  /\ mode[g] = "run"
  /\ Len(frames[g]) < MaxDepth
  /\ layer = "gin" => InGin(g)
  /\ layer = "engine" => ~InEngine(g)

\* Middleware, GinMiddleware and Trace start a span, make it the current one
\* and hand on a context with it, GinMiddleware in c.Request.
EnterTraced(g, layer) ==
  /\ CanEnter(g, layer)
  /\ layer = "trace" \/ enabled
  /\ Len(spans) < MaxSpans
  /\ LET id == Len(spans) + 1
     IN  /\ spans' = Append(spans, NewSpan(layer))
         /\ frames' = [frames EXCEPT ![g] = Append(@, [layer |-> layer, span |-> id, context |-> id])]
         /\ request' = IF layer = "gin" THEN [request EXCEPT ![g] = id] ELSE request
         /\ Push(g, id)
  /\ UNCHANGED <<enabled, mode, response, panicked, torn>>

\* PanicMiddleware, CapturePanic, an engine, Middleware and GinMiddleware while
\* the SDK is disabled, and GinMiddlewareNoData when its skip says so.
EnterUntraced(g, layer) ==
  /\ CanEnter(g, layer)
  /\ layer = "http" => ~enabled
  /\ frames' = [frames EXCEPT ![g] =
                  Append(@, [layer |-> layer, span |-> 0, context |-> ContextSpan(g)])]
  /\ request' = IF layer = "engine" THEN [request EXCEPT ![g] = ContextSpan(g)] ELSE request
  /\ UNCHANGED <<enabled, mode, response, ambient, spans, panicked, torn>>

WriteHeader(g) ==
  /\ mode[g] = "run"
  /\ response[g] = 0
  /\ \E code \in {200, 500} : response' = [response EXCEPT ![g] = code]
  /\ UNCHANGED <<enabled, frames, request, mode, ambient, spans, panicked, torn>>

\* span.RecordError on the span of the context.
RecordAppError(g) ==
  /\ mode[g] = "run"
  /\ ContextSpan(g) # 0
  /\ spans' = [spans EXCEPT ![ContextSpan(g)] = WithError(@, "app")]
  /\ UNCHANGED <<enabled, frames, request, mode, response, ambient, panicked, torn>>

\* The user code of the innermost frame ends.
Leaves(g) ==
  /\ mode[g] = "run"
  /\ frames[g] # <<>>
  /\ \E how \in {"return", "error", "panic"} : mode' = [mode EXCEPT ![g] = how]
  /\ UNCHANGED <<enabled, frames, request, response, ambient, spans, panicked, torn>>

\* Outside all layers the request is over.  A panic that gets here is
\* recovered by net/http's server, or ends the process.
Finish(g) ==
  /\ frames[g] = <<>>
  /\ mode[g] \in {"run", "panic"}
  /\ mode' = [mode EXCEPT ![g] = "idle"]
  /\ response' = [response EXCEPT ![g] = 0]
  /\ UNCHANGED <<enabled, frames, request, ambient, spans, panicked, torn>>

-----------------------------------------------------------------------------
(* Epilogues: the layer's own code after the user code returned.           *)

\* The status statusRecorder and gin's writer report.
Status(g) == IF response[g] = 0 THEN 200 ELSE response[g]

\* Seeded bug: the generic message of a 500 replaces the error.
CloseRequestOverwrites(g, span) ==
  [span EXCEPT !.status = Status(g),
               !.error = IF Status(g) = 500 THEN "http" ELSE @, !.ended = TRUE]

\* SetStatus, RecordError for a 5xx or, with gin, for c.Errors; then End.
CloseRequest(g, span) ==
  LET failed == IF mode[g] = "error" /\ span.layer = "gin" THEN WithError(span, "app")
                ELSE IF Status(g) = 500 THEN WithError(span, "http") ELSE span
  IN  [failed EXCEPT !.status = Status(g), !.ended = TRUE]

\* RecordError for an error returned; then End.
CloseTrace(g, span) ==
  [(IF mode[g] = "error" THEN WithError(span, "app") ELSE span) EXCEPT !.ended = TRUE]

Epilogue(g) ==
  /\ mode[g] \in {"return", "error"}
  /\ LET id == Top(g).span
     IN  spans' = IF id = 0 THEN spans
                  ELSE [spans EXCEPT ![id] =
                          IF @.layer = "trace" THEN CloseTrace(g, @) ELSE CloseRequest(g, @)]
  /\ Pop(g)
  /\ Leave(g)
  /\ mode' = [mode EXCEPT ![g] = "run"]
  /\ UNCHANGED <<enabled, response, panicked, torn>>

-----------------------------------------------------------------------------
(* A panic reaches the innermost frame.                                    *)

\* Seeded bug: the pop is not deferred.
UnwindUnpopped(g) ==
  /\ mode[g] = "panic"
  /\ frames[g] # <<>>
  /\ Top(g).layer \in {"http", "trace", "engine"} \/ (Top(g).layer = "gin" /\ Top(g).span = 0)
  /\ torn' = torn \cup ({Top(g).span} \ {0})
  /\ Leave(g)
  /\ UNCHANGED <<enabled, mode, response, spans, ambient, panicked>>

\* Middleware and Trace defer only the pop: no epilogue runs and the span is
\* not ended.  Nor does a middleware recover that stepped aside, or an engine.
Unwind(g) ==
  /\ mode[g] = "panic"
  /\ frames[g] # <<>>
  /\ Top(g).layer \in {"http", "trace", "engine"} \/ (Top(g).layer = "gin" /\ Top(g).span = 0)
  /\ torn' = torn \cup ({Top(g).span} \ {0})
  /\ Pop(g)
  /\ Leave(g)
  /\ UNCHANGED <<enabled, mode, response, spans, panicked>>

\* GinMiddleware's deferred function recovers and records the panic,
GinRecords(g) ==
  /\ mode[g] = "panic"
  /\ frames[g] # <<>>
  /\ Top(g).layer = "gin" /\ Top(g).span # 0
  /\ RecordPanic(Top(g).span)
  /\ mode' = [mode EXCEPT ![g] = "recorded"]
  /\ UNCHANGED <<enabled, frames, request, response, ambient, torn>>

\* Seeded bug: re-panics and leaves the span open.
GinForgetsEnd(g) ==
  /\ mode[g] = "recorded"
  /\ Pop(g)
  /\ Leave(g)
  /\ mode' = [mode EXCEPT ![g] = "panic"]
  /\ UNCHANGED <<enabled, response, panicked, spans, torn>>

\* ends the span and panics again; the deferred pop, registered before it,
\* runs last.
GinRepanics(g) ==
  /\ mode[g] = "recorded"
  /\ spans' = [spans EXCEPT ![Top(g).span].ended = TRUE]
  /\ Pop(g)
  /\ Leave(g)
  /\ mode' = [mode EXCEPT ![g] = "panic"]
  /\ UNCHANGED <<enabled, response, panicked, torn>>

\* gin.Recovery, among the handlers of an engine, answers 500 and returns.
RecoveryRecovers(g) ==
  /\ mode[g] = "panic"
  /\ frames[g] # <<>>
  /\ Top(g).layer \in {"gin", "engine"}
  /\ response' = [response EXCEPT ![g] = IF @ = 0 THEN 500 ELSE @]
  /\ mode' = [mode EXCEPT ![g] = "run"]
  /\ UNCHANGED <<enabled, frames, request, ambient, spans, panicked, torn>>

\* PanicMiddleware records the panic on the span of the request it was given,
\* answers 500 unless the response is under way, and returns.
PanicMiddlewareRecovers(g) ==
  /\ mode[g] = "panic"
  /\ frames[g] # <<>>
  /\ Top(g).layer = "panic"
  /\ RecordPanic(Top(g).context)
  /\ response' = [response EXCEPT ![g] = IF @ = 0 THEN 500 ELSE @]
  /\ Leave(g)
  /\ mode' = [mode EXCEPT ![g] = "run"]
  /\ UNCHANGED <<enabled, ambient, torn>>

\* CapturePanic records the panic on the span of the context it was given, or
\* on a span of its own that it ends at once, and panics again.
CaptureRecords(g) ==
  /\ mode[g] = "panic"
  /\ frames[g] # <<>>
  /\ Top(g).layer = "capture"
  /\ IF Top(g).context # 0 \/ ~enabled
     THEN RecordPanic(Top(g).context)
     ELSE /\ Len(spans) < MaxSpans
          /\ spans' = Append(spans, [WithPanic(NewSpan("crash")) EXCEPT !.ended = TRUE])
          /\ UNCHANGED panicked
  /\ Leave(g)
  /\ UNCHANGED <<enabled, mode, response, ambient, torn>>

-----------------------------------------------------------------------------
RequestStep(g) ==
  \/ Begin(g)
  \/ \E layer \in {"http", "gin", "trace"} : EnterTraced(g, layer)
  \/ \E layer \in {"http", "gin", "panic", "capture", "engine"} : EnterUntraced(g, layer)
  \/ WriteHeader(g) \/ RecordAppError(g) \/ Leaves(g) \/ Finish(g)
  \/ Epilogue(g)
  \/ Unwind(g) \/ GinRecords(g) \/ GinRepanics(g)
  \/ RecoveryRecovers(g) \/ PanicMiddlewareRecovers(g) \/ CaptureRecords(g)

Next == Enable \/ \E g \in Goroutines : RequestStep(g)

Spec == Init /\ [][Next]_vars

-----------------------------------------------------------------------------
TypeOK ==
  /\ enabled \in BOOLEAN
  /\ frames \in [Goroutines -> Seq(Frames)]
  /\ request \in [Goroutines -> DOMAIN spans \cup {0}]
  /\ mode \in [Goroutines -> {"idle", "run", "return", "error", "panic", "recorded"}]
  /\ response \in [Goroutines -> {0, 200, 500}]
  /\ ambient \in [Goroutines -> Seq(DOMAIN spans)]
  /\ spans \in Seq(Spans)
  /\ \A id \in DOMAIN spans : spans[id].ended => (spans[id].layer = "trace" \/ spans[id].status # 0)
  /\ panicked \subseteq DOMAIN spans /\ torn \subseteq DOMAIN spans

SpansOf(g) == {frames[g][i].span : i \in DOMAIN frames[g]} \ {0}
OpenSpans == UNION {SpansOf(g) : g \in Goroutines}

\* The registry of a goroutine holds exactly the spans of the layers around
\* the code it runs, innermost last, whatever panics passed through and
\* although the SDK may be enabled between the entry and the exit of a layer.
\* So a log line is stamped with the span around it and an idle goroutine's
\* entry is gone (the map has no other cleanup).
ActiveSpans ==
  \A g \in Goroutines :
    /\ Range(ambient[g]) = SpansOf(g)
    /\ \A i, j \in DOMAIN ambient[g] : i < j => ambient[g][i] < ambient[g][j]

\* A span on which a panic was recorded before it ended ships with that panic,
\* or with an error recorded before it, never with the generic "http 500" of
\* the epilogue that follows (RecordError, trace.go:102-105) and never clean.
PanicNotMasked == \A id \in panicked : spans[id].ended => spans[id].error \in {"app", "panic"}

\* A request span ships on every path but one: a panic that leaves Middleware
\* itself, which nobody inside it recovered.  Recovered by PanicMiddleware, the
\* documented wiring (panic.go:63-66), or with GinMiddleware it always ships.
RequestsShip ==
  \A id \in DOMAIN spans :
    spans[id].layer \in {"http", "gin"} /\ id \notin OpenSpans =>
      spans[id].ended \/ (spans[id].layer = "http" /\ id \in torn)

\* The spans of the contexts a goroutine still has at hand.
AtHand(g) == {request[g]} \cup {frames[g][i].context : i \in DOMAIN frames[g]}

\* What was shipped is not written any more (the sender marshals the event
\* without the span's mutex), but for the one span that stays reachable after
\* its End: GinMiddleware leaves it in c.Request (middleware.go:123, 184), and
\* gin code that runs after it writes its own errors there.  An error that was
\* shipped stays even then.
EndedIsFinal ==
  [][\A id \in DOMAIN spans :
       spans[id].ended /\ spans'[id] # spans[id] =>
         /\ spans[id].layer = "gin"
         /\ \E g \in Goroutines : InEngine(g) /\ id \in AtHand(g)
         /\ spans'[id].ended
         /\ spans[id].error # "none" => spans'[id].error = spans[id].error]_vars

\* CapturePanic: "only the evidence is captured first. Panic values and stacks
\* surface on the Errors page" (panic.go:32-34): a span that carries a panic is
\* shipped when the layers around it are left.
PanicEvidenceShips ==
  \A id \in DOMAIN spans : spans[id].error = "panic" /\ id \notin OpenSpans => spans[id].ended
=============================================================================
