# Verification of the Dataflow SDK for Go

TLA+ models of the SDK's own logic, the TLC configurations that check them on
small instances, and TLAPS proofs of the properties that matter most. Paths
below are relative to the repository; `client.go:164` is a line of it.

## The system

The SDK is imported into a host program. Goroutines of the host start and end
spans and log lines; the SDK's own goroutines ship them to a server.

| Part | Code | State | Operations | Talks to |
|---|---|---|---|---|
| Configuration and startup | `config.go`, `startSender` in `client.go`, `init.go` | `configured`, `active`, `startMu`, `started`, `globalPipeline`, `globalLogs` | `Configure`, `current`, `Enabled`, `startSender`, `startLogs` | every other part, through atomic pointers |
| Event replay buffer | `buffer.go` | `events`, `base`, `capacity` | `Add`, `After`, `Acked`, `Len` | called by `enqueue` and by the sender, under `b.mu` |
| Event delivery | `client.go` | `acked`, the `wake` token, and per stream `ackCh`, `errCh`, the window being sent | `enqueue`, `run`, `streamOnce`, the receiver goroutine | the ingestion server over a bidirectional gRPC stream |
| Payload protection | `attachPayload` in `trace.go`, `encoder/` | the key and salt of the pipeline | `attachPayload`, `encryptionSalt`, `encryptPayload` | settings and pipeline |
| Log shipping | `logs.go` | `pending`, `dropped`, the `signal` token | `logLine`, `take`, `flushNow`, `post`, `FlushLogs`, the flusher's loop | the REST log endpoint |
| Spans | `trace.go` | the event, its payload, `ended` | `StartSpan`, setters, `RecordError`, `End`, `Trace`, `TraceVoid`, `Transport` | buffer (through `enqueue`), registry |
| Registry of active spans | end of `logs.go` | `ambientSpans`, a stack of spans per goroutine | push, pop, `currentSpan` | middlewares, `Trace`, the log helpers |
| HTTP middlewares | `middleware.go` | the response's status and size | `Middleware`, `GinMiddleware`, `GinMiddlewareNoData` | spans, registry |
| Panic capture | `panic.go` | none | `CapturePanic`, `PanicMiddleware`, `recordPanic` | spans |
| SQL tracing | `sqltrace.go` | none of its own | driver, connection and statement wrappers | spans, `database/sql`, the base driver |
| Route scanner | `scan/`, `cmd/dataflow-scan` | none | a function of Go syntax trees | the catalog endpoint |
| PII classes, manifest, agent attribution | `pii.go`, `manifest.go`, `agent.go` | none | pure functions and one best-effort POST | settings |
| Integrations | `contrib/*` | none | adapters from library hooks to spans and log lines | spans, logs |

What is hard here, and hard to test: an acknowledgement protocol over streams
that break, with a bounded buffer that drops; wake tokens on channels of
capacity one; a start that may happen twice, or while spans are already ending;
two goroutines flushing the same lines; deferred functions under panics; a span
that is written while it is shipped; a driver library that answers a call by
calling again. The list, line by line, is `hazards` in `PROJECT.json`.

What makes each part correct:

- *Buffer.* Numbers are consecutive and never reused; `After` returns exactly
  what is not acknowledged; only the oldest leave.
- *Delivery.* An event leaves memory only when the server stored it or an
  overflow dropped it; what the server stores has no gap that an overflow did
  not make; an acknowledgement stands for stored events only; a sleeping
  sender is always woken; every event is eventually stored or dropped.
- *Startup.* One sender and one flusher; a passive start is revived; no span is
  lost once a capable `Configure` has returned; a payload's salt matches its
  key; `Configure` returns.
- *Logs.* A line has one owner; it is stored twice at most; every line is
  delivered or counted as dropped; no signal is lost.
- *Layers around user code.* The registry is unwound on every path; the first
  error is kept; a request span ships, also when a panic was recovered inside
  it; what shipped is not written afterwards, but where gin code can still reach
  the span.
- *One span.* It is enqueued once; what was set before `End`, and not again
  since, is in each transmission of its event; a replay differs only by what
  was set meanwhile.
- *Client calls.* The spans of a call, through retries and fallbacks, tell its
  result, and join a trace that their goroutine has at hand, or none.
- *Algorithms.* The scan finds what the routers serve; its catalog is canonical;
  log fields are merged within the server's limits; the addresses that several
  parts derive from one environment are of one server.

## Modules

| Module | Models | Uses |
|---|---|---|
| `EventBuffer` | `buffer.go` | |
| `Delivery` | `client.go`, the server and the network as environment | extends `EventBuffer`; instantiates `AtLeastOnceLog` |
| `AtLeastOnceLog` | what delivery promises, with no goroutines or streams | |
| `Startup`, `MCStartup` | `config.go`, `startSender`, and the spans that meet them | |
| `LogPipeline` | `logs.go` from `logLine` to the server | instantiates `BestEffortLog` |
| `BestEffortLog` | what log shipping promises, with no slices, batches or goroutines | |
| `LogRecords` | `logs.go` up to the record, `contrib/zap` | |
| `RequestSpans` | `middleware.go`, `panic.go`, `Trace`, the registry | |
| `ClientSpans` | `Transport`, `sqltrace.go`, the GORM and redis hooks, with `database/sql` as environment | extends `RequestSpans` |
| `SharedSpan` | one span of `trace.go` under concurrent use, to the wire | |
| `Catalog` | `finalize` of `scan/scan.go`: order, duplicates and cap | |
| `RouteScan` | the walk of `scan/scan.go`, with the routers of the source as reference | extends `Catalog` |
| `Settings` | how `config.go`, `manifest.go` and `scan.go` derive addresses | |
| `MCAlgorithms` | the inputs of `RouteScan`, `Settings` and `LogRecords` | extends the three |
| `SequenceFacts` | lemmas about sequences and their ranges | |
| `EventBufferProofs`, `DeliveryProofs`, `StartupProofs`, `LogPipelineProofs`, `ClientSpansProofs`, `SharedSpanProofs`, `AlgorithmsProofs` | the theorems | extend their components |

Definitions marked "Seeded bug" stand just before the definition they vary.
They are plausible mistakes (a dropped guard, an off-by-one, a swapped order);
each property is known to fail under at least one of them.

### EventBuffer

An event is its sequence number. Every method holds `b.mu` throughout, so each
is one step. The code never searches the slice: it computes an offset from
`base`, so what has to be shown is that the arithmetic agrees with the contents
(`Contiguous`, `AfterIsExact`), also for acknowledgements below `base` or above
anything assigned.

### Delivery

A step is one access to something shared: a buffer method, a load or store of
`p.acked`, a channel operation, a `Send` or a `Recv`. `enqueue` is two steps
(append, token), the acknowledgement is two steps (watermark, trim), and the
place in `streamOnce` is `pc`:

| `pc` | place |
|---|---|
| `dial` | before `grpc.NewClient` / `StreamEvents` |
| `sleep` | `time.Sleep(backoff)` in `run` |
| `fetch` | `p.buf.After(p.acked.Load())` |
| `idle` | the select on `p.wake` |
| `send` | inside the loop over the window, `pending` being the rest |
| `wait` | the loop until the watermark covers `last` |
| `trim` | between `p.acked.Store` and `p.buf.Acked` |

The environment: the server receives in order, stores a prefix of what it
received, acknowledges with the last number it stored or the highest it has,
may crash or lose the connection at any moment (`Break`), which loses the wire
and any suffix of the acknowledgements, and may leave an old handler that still
stores what it holds (`ServerPersistStale`). A `Send` on a broken stream either
fails or succeeds locally and is lost. An event of `Unsendable` carries a string
that was cut inside a character; protobuf refuses it, so its `Send` ends the
stream (`SendRejected`), however often it is replayed.

### Startup

Settings are reduced to three Booleans: the endpoint and key are present, an
encryption key is present, a log endpoint can be derived. `Configure` is seven
steps, and a span with a payload is up to six (`StartSpan`, `current`'s store,
the load of the settings in `attachPayload`, `encryptionSalt`,
`encryptPayload`, `enqueue`), each of which loads a pointer of its own.
Errors of the key setup and of `Encrypt` are nondeterministic.

### LogPipeline

A line is its number in the order in which the mutex admitted it. `logLine` is
two steps (under the mutex, then the signal), a flush is `Take` followed by
POSTs, each of which ends well, or fails with the batch stored or not stored; a
batch is also given up, with no POST made, if `http.NewRequest` rejects the URL
(`logs.go:203-205`). That is a choice for each batch in the model, and one for
the whole process in the code. The background flusher and callers of `FlushLogs`
run the same code at once. The `stop` case of the loop is not modelled: nothing closes the channel.

`BestEffortLog` says what the comments of `logs.go` promise: memory gives up its
oldest line when it is full, a line is handed to the network once, a POST that
failed once is repeated once, and what is given up, after that or because no
request can be made, is counted. Its state is
read off the pipeline's: what waits is the buffer, what is being posted is in
some flusher's hands (`InHand`), what failed once is the batches at their second
attempt (`Retried`).

### RequestSpans

Each goroutine has a stack of frames, one per layer around the running code.
User code may enter another layer, write the response, record an error, return,
return an error or panic; the epilogues and deferred functions of each layer
follow the code. Sampling is left out (every span is sampled), and "ended"
means handed to `enqueue`. An untraced layer is one without a span: the panic
layers, a middleware that stepped aside, and gin's engine.

What the running code finds with `SpanFromContext` (`ContextSpan`) is the span of
the context it was handed last: the frame's, which a net/http handler gets as an
argument, or in gin the one in `c.Request` (the variable `request`).
`GinMiddleware` replaces `c.Request` and does not restore it (`middleware.go:123`,
`:184`), so handlers of the same engine that run after it returned find its
ended span. Inside an engine gin code may call `c.Next()`; an engine goes with
its `c.Request` when it is left. A handler that serves another engine, and code
that keeps a context it was handed earlier, are left out.

A panic unwinds frame by frame. `torn` are the spans whose layer it left without
running the epilogue; `panicked` those on which it was recorded while they were
open. The two differ: `PanicMiddleware` and `gin.Recovery` recover a panic, and
what is around them must ship as after any other 500. A panic that is recorded
on the ended span of a gin middleware changes a span that has shipped already,
so nobody sees it. Whether gin collected `c.Errors` is a choice of the handler
that returns ("error").

### ClientSpans

The user code of `RequestSpans` makes a call: through the HTTP transport, a
database handle, a prepared statement, GORM or redis. A step is what runs
between two points at which code outside the SDK runs, so `Enabled()` is read
once in it. The base call succeeds, fails, answers `ErrSkip` or `ErrBadConn`
where the interface allows it, or panics into the layers. `Followed` is what
`database/sql` then does; which context interfaces a base driver has (`caps`)
decides whether a wrapper falls back to preparing, and to statements without a
context. Driver, statement and connection are values of the call, since
wrappers keep no state between calls.

### SharedSpan

Setters hold `s.mu` and are one step each; they give keys values, and overwrite
them. `End` is one step per access to what it shares: the compare-and-swap, the
copies under the mutex, the iteration over the payload map, the write of
`data.fields`, the marshalling, `enqueue`; the sender's marshalling begins and
finishes. Which goroutine calls makes no difference, so calls are counted and
have no name. A step that touches a map without the mutex is an *open window*:
while it lasts another goroutine's write to that map is a data race, of which
the runtime kills the process or not (`MayKill`), and which the other side sees
or not. The properties of the `SharedSpan` run speak of the processes that
survive.

A value of `Unfit` is one that `json.Marshal` refuses (a channel, a NaN): if it
is in the map when `attachPayload` marshals it, the whole payload is replaced by
`capture_error` (`trace.go:208-211`, `failed` in the model), and `data.fields`,
written before, still names the keys. So `SetBeforeEndShips` requires the payload
of every transmission but one that has such a reason. Since setters also
overwrite attributes and the status of an event that was sent (`trace.go:86`,
`:121`), `ReplayAgrees` allows a replay to differ by exactly those: `late`
collects what was set since the sender first marshalled the event.

### Catalog, RouteScan, LogRecords, Settings

`Catalog` is apart from the walk that fills it, which is recursive. A path is a
sequence of segments, ordered as strings are: `Segments` lists the segments in
their order. `RouteScan` writes the scanner's walk as operators on abstract syntax, one for
each function of `scan.go`, and next to it `Served`: the same syntax as Go
scopes and routers read it. The inputs grow
by a file, a function or a statement. `Plain` names the sources for which the
paths must agree too; what lies outside it is listed below. `LogRecords` keeps
the order in which Go walks a map open, so a call has a set of results.
`Settings` writes an address as its tokens.

## What is checked

| Run | Bounds | Shows |
|---|---|---|
| `Delivery` | 2 producers, buffer of 3, window of 2, 5 events of which the last cannot be sent, 1 failure, `ackCh` of 1 | the buffer's arithmetic, the safety of delivery, refinement of `AtLeastOnceLog`, liveness |
| `DeliveryBackoff`, `DeliveryUnsendable` | as small as shows it | violations, see below |
| `Startup` | 2 configuring goroutines, 1 tracing, 3 calls, 4 kinds of settings | the safety of the start, and that `Configure` returns |
| `LogPipeline` | 2 loggers, 1 caller, 2 slots, batches of 1, 3 lines | ownership, accounting, signals, refinement of `BestEffortLog`, liveness |
| `ClientSpans` | 3 layers deep, 2 spans, calls within 2 layers, 2 tries, 1 goroutine (5.1 million states) | unwinding, errors, shipping; what the spans of a call tell |
| `RequestSpansPanic` | as small as shows it | violation |
| `SharedSpan` | 5 calls, 2 keys, 2 values of which JSON takes one, 2 errors, 2 transmissions (1.1 million states) | what survives concurrent use |
| `SharedSpanRace` | 3 calls, 1 key | violation |
| `Algorithms` | 3 of 11 statements in 2 files of 2 functions each, a catalog of 2; every form of endpoint; records of 2 fields from loggers derived twice | the scanner, the addresses, the fields |
| `LoggersTee` | one logger | violation |
| `SettingsUrl` | one host | violation |

Why the bounds are enough to be interesting. In `Delivery` five events through
a buffer of three force overflows while a window is in flight; a window of two
is acknowledged in parts; the last event ends the stream whenever its turn
comes, so replays follow replays that ended in the middle, without limit, and
one failure may come at any other moment; an `ackCh` of one makes the receiver
block. Two producers make `enqueue`'s two steps overlap with each other and
with the sender's. In `Startup` three calls allow a passive start, a revival
and a span, or two racing configurations and a span. In `LogPipeline` three
lines through two slots overflow, a take of two lines needs two batches, and two
flushers work at once. In `ClientSpans` three layers allow the documented
nesting (`Middleware`, `PanicMiddleware`, `Trace`), an engine with a middleware
that has returned before the next handler runs, and every other order, and a
second span after the first; two tries allow a fallback, a retry, and a
fallback after a retry. Goroutines share nothing there but the switch, so one
is enough. In `SharedSpan` five calls allow two goroutines to set and overwrite
before `End`, during it, and between two transmissions. In `Algorithms` three statements declare a
group, use it, and use it again in a callback, another function or another
file. The proofs remove the bounds where they apply.

Deadlock is not checked in `Delivery` (with nothing left to add the sender
rests on the wake channel), `Startup` (nobody has to call anything) and the
runs whose inputs end (`ClientSpans`, `SharedSpan`, `Algorithms`, `SettingsUrl`).
`LogPipeline` (whose ticker never stops) is checked for it.

### Fairness

- `Delivery`: the goroutines inside `enqueue`, the sender and the receiver are
  weakly fair (Go schedules runnable goroutines), and the server handles what
  reaches it. Enqueueing and failures are not fair. Failures are bounded:
  nothing can be promised to a client that is cut off for ever. Streams that the
  client ends itself by an event it cannot send are not bounded, and liveness is
  claimed of the events that no window can hold with, or behind, such a one
  (`Unhindered`). The fairness of the sender is of the goroutine as a whole, not
  of single cases of a select.
- `Startup`: weak fairness of a goroutine inside `Configure`, strong fairness
  of `Lock` (Go's mutex hands over to a waiter after a millisecond).
- `LogPipeline`: the ticker ticks, goroutines are scheduled, and the HTTP
  client's five-second timeout ends each POST.

### Where the code departs from its documentation

Runs marked as violations show:

- *`DeliveryBackoff`.* `streamOnce` returns only errors, so the reset
  `backoff = time.Second` (`client.go:115`) is dead: after enough failures over
  the process's life every reconnect waits 30 seconds.
- *`DeliveryUnsendable`.* Statements and stacks are cut at a number of bytes
  (`sqltrace.go:222`, `gormtrace.go:163`, `redistrace.go:120`, `panic.go:93`),
  and a string that ends inside a character cannot be marshalled. The event is
  replayed until an overflow drops it, and holds up those behind it.
- *`RequestSpansPanic`.* A panic that `CapturePanic` re-raises through
  `Middleware` or `Trace` skips `span.End`, and the evidence stays on a span
  that never ships. `RequestsShip` says when spans do ship.
- *`SharedSpanRace`.* `End` and the sender use the maps of a span outside
  `s.mu`, so a span is not safe for concurrent use (`trace.go:21-22`).
  `SetBeforeEndShips` and `ReplayAgrees` say what a surviving process ships.
- *`LoggersTee`.* `zaptrace.Wrap` makes the host's core write each entry twice.
- *`SettingsUrl`.* `httpBaseURL` receives an endpoint whose scheme is already
  stripped (`config.go:163-165`), so an `http://` endpoint derives no base
  (`manifest.go:92-104`, against `manifest.go:88-90` and `README.md:178-179`), and
  logs and manifest stay off. `BaseAgrees` asks for a base of TLS endpoints only,
  and of any other only that it be the scanner's if there is one, so it would
  hold of code that derives one, too.

Read off the code without a run of their own: `current` may overwrite an
explicit configuration with defaults (`config.go:107`, against `config.go:85`);
`Enabled` is true in a passive process (`config.go:96`, against `config.go:99`);
`startSender` runs at every `Configure` of a passive process and no `startOnce`
exists (against `client.go:34-35`); a window of up to 64 events is sent before
an acknowledgement (`client.go:171-179`, against `client.go:120-121`); a base
driver that answers `ErrSkip`, as the interface invites it to, leaves an error
span of status 500 for a query that then succeeds through a prepared statement
with a second span (`sqltrace.go:87`, `Followed` in `ClientSpans`; against "one
DB_QUERY span per query/execution", `sqltrace.go:14-15`; `ResultTold` is what
holds); `FlushLogs` waits only for what it takes itself
(`logs.go:249`, against `logs.go:244-246`), so a line that the background
flusher took before is unsent when it returns (`FlushEmpties` is what the call
does ensure, `EventuallySettled` that the line goes out if the process lives
on); in `GinMiddleware` the
registry is unwound after the panic is recorded, not before it
(`middleware.go:97-99`; deferred calls run last in, first out).

Of start and logs: a span that ends between `configured.Store` (`config.go:89`)
and `globalPipeline.Store` (`client.go:72`) sees encrypted settings and no salt,
keeps its payload in plaintext and may then be enqueued in the new pipeline
(against `trace.go:90-91`; `EncryptedOnceReady` says from when on the promise
holds). "The last configuration wins" (`config.go:79`) holds of the settings,
not of the pipeline, which keeps the first capable ones. If the key setup fails
at the start, payloads travel in plaintext for the life of the process, although
a key is configured (`client.go:66-68` logs it). At exactly the limit of
fields, whether a later map replaces an earlier value depends on the order in
which Go walks it (`logs.go:302`). A slog group also prefixes the attributes
that were given before it (`logs.go:392-393` calls this "kept simple").
`EventCapture.Events` returns the events and keeps them (against
`testsupport.go:33`).

Of client calls: a key that redis does not have (`redis.Nil`) makes an error
span; a legacy connection closes the prepared statement before its rows are
read (`sqltrace.go:82`); a base statement is asked for the interfaces of a
connection (`sqltrace.go:132`, `:147`), so its spans start traces of their own;
a panic of a base call leaves its span open. In gin, a span that is started from
`c.Request.Context()` after `GinMiddleware` returned has the ended request span as
its parent, and an error recorded there is written into an event that may have
been sent (`middleware.go:123`).

Of the scanner, which says "anything dynamic is skipped" (`scan/scan.go:6`): a
group with a dynamic path has its routes extracted without the prefix;
`Group("/")` gives paths that begin with two slashes; a variable bound in one
function keeps its prefix in the next ones and out of its block; the prefix of
a chained `r.Group("/x").GET(...)` is lost; the body of a literal called in
place, the init statement of an `if` and a `var g = r.Group(...)` are not seen.
An endpoint that ends in a slash gets its port behind the slash
(`config.go:171-176`).

## What is proved

The proofs are in the modules `*Proofs`, on top of the lemmas of
`SequenceFacts`. They hold for every value of the constants that satisfies the
named assumptions: sizes are positive, `None` and the background flusher are
nothing else, settings are settings, a host is not a scheme, segments are
listed once. No proof uses fairness.

| Theorem | Property |
|---|---|
| `EventBufferProofs!BufferSound`, `AfterSound`, `NumbersAdvance`, `OldestFirst` | `Contiguous`, `AfterIsExact`, `SeqNeverRewinds`, `OldestLeaveFirst` |
| `DeliveryProofs!TypeCorrect`, `NothingTrimmedEarly`, `NoGapsEver`, `AcksNeverLie`, `SleepsOnlyWhenDone` | `TypeOK`, `TrimmedIsDurable`, `NoGaps`, `AcksAreDurable`, `NoLostWakeup` |
| `DeliveryProofs!OnlyAccepted`, `Implements` | `Assigned` (of the proofs), `ImplementsLog`: the refinement of `AtLeastOnceLog` |
| `StartupProofs!Typed`, `NeverTwoSenders`, `PassiveStartRevives`, `NoneLostOnceReady`, `SaltFits`, `EncryptedFromThenOn` | `TypeOK`, `OneSender`, `Revived`, `NotLostOnceReady`, `SaltMatchesKey`, `EncryptedOnceReady` |
| `LogPipelineProofs!Typed`, `BufferEndsInNewest`, `NoSignalIsLost`, `FlushEmptiesBuffer`, `EveryLineHasOneOwner`, `StoredTwiceAtMost`, `EveryLineIsAccounted` | `TypeOK`, `PendingIsNewest`, `NoLostSignal`, `FlushEmpties`, `OneOwner`, `AtMostTwice`, `Accounted` |
| `ClientSpansProofs!TypeCorrect`, `RegistryExact`, `PanicTold`, `RequestSpansShip`, `ShippedIsFinal` | `TypeOK`, `ActiveSpans`, `PanicNotMasked`, `RequestsShip`, `EndedIsFinal` |
| `ClientSpansProofs!CallsTold`, `CallsJoin` | `ResultTold`, `JoinsAmbientTrace` |
| `SharedSpanProofs!OneEnqueue`, `NothingSetIsLost`, `ReplaysAgree` | `EnqueuedOnce`, `SetBeforeEndShips`, `ReplayAgrees` |
| `LogPipelineProofs!Implements` | `ImplementsBestEffort`: the refinement of `BestEffortLog` |
| `AlgorithmsProofs!OneServer`, `CatalogIsCanonical`, `RecordsMerged` | `BaseAgrees`, `CatalogCanonical`, `FieldsMerged` |

*Buffer.* `BufTypeOK /\ Contiguous` is inductive. From it the suffix that
`After` cuts off is shown to be the set of larger numbers; the proof splits on
the three places an acknowledgement may fall: below `base`, inside, above.
`SeqNeverRewinds` is proved from the same invariant and has no run of its own:
`ImplementsLog` implies it, since only `Accept` moves the number, by one.

*Delivery.* `NoGaps` is not inductive: it says what is stored, and a later
event could be stored first if it could overtake on its way. `Strengthening` in
`Delivery` says why it cannot. `InOrder` requires of each queue on the way (the
rest of the window, the wire, what the server has received, what an old handler
still holds) that whatever precedes an event in the numbering is stored,
dropped, ahead of the queue, or ahead of it in the queue (`Follows`). That the
client may resume at `acked + 1` rests on `AcksAreDurable` and `NoGaps` together:
the watermark is stored, and everything below it is stored or dropped. The
lemmas on `Follows` (cutting the front off, taking the first, appending) carry
each action's step. `NoLostWakeup` needs no more than this: when the sender
goes to rest its buffer holds nothing above the watermark, and whoever fills it
afterwards has the token still to put.

*Refinement.* `Implements` maps each state of `Delivery` to a state of
`AtLeastOnceLog`. It needs, besides the invariant, that no number is under way
or stored which the buffer did not assign, and none dropped that is still in
it (`Assigned`). Then an append is `Accept`, with the drop of the oldest if the
buffer is full; a store of the server, on the live stream or by a stale
handler, is `Persist`, of numbers that leave no gap by `InOrder`; a trim is
`Release`, of what is durable by `AcksAreDurable`; and every other step stutters.

*Startup.* `TypeOK /\ Strengthening` is inductive. `Exclusive` ties the places
between `Lock` and `Unlock` to the mutex; `Starting` says that whoever is about
to start finds no pipeline, and that a pipeline implies `started` (without this
`~started` alone would let a second start in); `Tracing` says what each of the
loads of a span has already seen. A pipeline is published once and never
replaced, which is why three loads agree.

*LogPipeline.* The inductive invariant `PInv` adds to the properties that what
left the buffer lies below what is in it (`Left`), that a flusher holds
consecutive lines of its own and holds none unless it is posting (`Owned`), and
that of the lines it holds only the batch at the head may be on the server
already, once if it has been tried once (`Copies`). `Accounted` adds up sets, so
it takes more than ownership: `Counted` is shown to be kept because a batch
that was cut from consecutive lines is as large as the code counts it, and
because a line changes hands between sets that do not meet.

*Refinement of the log.* `Implements` needs `PInv` before and after each step. A
buffered line is `Accept`: since the buffer is `(Left + 1)..accepted` before and
after, an overflow gives up the smallest waiting number. A swap is `HandOver`,
of empty hands by `Owned`. A POST is `Ship`, `Fail` or `GiveUp` of the flusher's
batch: batches of two flushers do not meet, so settling one clears exactly its
lines from those that failed, and a batch has the number of lines the code
adds to `p.dropped`. Signals, ticks and calls of `FlushLogs` stutter.

*Layers and calls.* A step of one goroutine must not disturb what is true of
another's layers, although all spans are in one sequence. `RInv` therefore
says, for each goroutine, that its registry is the list of the spans of its
frames (`Stack`), that its spans are below no other goroutine's (`Private`), and
of each span in no frame that it ended as it should, or was lost for the one
reason there is (`Fine`). `Handed`, a part of `Stack`, says which span a context
may carry: that of a layer around it or, in gin, one of `LeftBehind`, the gin
spans that have ended; and outside an engine the innermost (`Latest`), which is
what a call joins there. `Settles(g)` is what any step of goroutine `g` may do,
that is, write its own open spans, write ended ones left behind that it has at
hand (`Rewritten`), and append new ones; one lemma per action shows that the action settles, and one
lemma for all (`Settled`) that what settles keeps `RInv`. `CInv` adds the calls:
`Attempting` says what the spans of a call that is under way already tell (every
attempt before the current one failed, the current one is open), which is what
`ResultTold` needs of a call that retries or falls back; `Joins` that its spans
have the parent that the goroutine has still, since the layers do not move
while a call is under way. `FinalStep` is the action property of what shipped,
proved along with the invariant: an ended span is written only as `Rewritten`
allows.

*SharedSpan.* `SpanInvariance` is an invariant over the places of `End` and of
the sender. `Places`: one goroutine at most is past the compare-and-swap, and
nothing is sent before it is done. `Kept`: what the span holds is what it held
when `End` was called or what was set since; the race on a nil map loses only
attributes that were not there before. `Progress`: what each step of `End` has
put into the event so far, and which values it may see of each key of the
payload map; from the last step on the event tells what it has to (`Told`).
`Sent`: from one transmission to the next, and to the event as it is now, only
what is in `late` has changed (`Agrees`), and what the sender may read of the
event lies between two states of it (`Between`). It holds of the processes that
survive the races of the maps; that they need not is `SafeForConcurrentUse`.

*Settings.* An endpoint that does not end in a slash has one of five forms, and
each is computed for a host and a port of any name: the base of logs and
manifest is the scanner's server if there is one, and there is one with an
override, or with TLS.

*Catalog.* The found routes are any sequence of records with a verb and a path
of known segments. `Less` is a strict order, and total on routes of different
keys; so among `n` distinct keys the number of routes before a route, its rank,
takes each value from 0 to `n - 1` once, and the `CHOOSE` of `sorted` has exactly
one answer at each place. Ranks grow with the order, hence the result is sorted,
and what the cut loses has a rank that no kept route reaches.

*Fields.* A call's record is what is left after loops over attributes and over
maps in whatever order Go takes. What holds after each round holds after the
loop: the numbers of rounds at which it fails would have a least one, and that
one is neither zero nor follows any other (`Upto`, `Iteration`). The loop over
one map, in any order, keeps `Merged`: no field beyond the limit, each value one
that was given, and, while there is room, the one given last. `LogsOK` ties the
record to the arguments of the call that made it.

Only model-checked, and why:

- *All liveness* (`EventuallyDelivered`, `EventuallyDrained`,
  `ConfigureReturns`, `EventuallySettled`): it rests on fairness, and the prover
  has no rules for `ENABLED`.
- `RoutesExact` of `RouteScan`: the scanner is recursive over syntax, and what
  it computes is a matter of induction over data.

Nothing is assumed of the library but its theorem modules.

## What is not modelled

- TLS, gRPC framing, HTTP, the cipher: they are operations that succeed or fail.
- The text of messages, names and stacks; headers and body excerpts. That a
  clipped string may end inside a character is in `Delivery` (`Unsendable`).
- Log levels, timestamps and sampling; the numeric settings.
- `pii.go`: a table of keywords matched against the characters of names. A
  model would be the table again. (Multiword keywords match anywhere, so
  "ship_address" is an IP address.)
- The upload of catalog and manifest: one POST each, best effort.
- `contrib/zerolog`, `agent.go`, `testsupport.go`, `sdk/` and `gen/`: adapters
  without state, test support, generated code.
- `Driver`'s registration, and the summaries of statements.
- The package attribution of `trace.go`, which reads the stack.
- A server that acknowledges numbers of an earlier process: the client numbers
  from one in each process and `proto/dataflow.proto` does not say what the
  server makes of it.

## Plan

Every safety property that a run checks is a theorem, but for `RoutesExact`, and
so are both refinements. What could be added:

1. *Liveness of `FlushLogs`.* It returns only when logging pauses; a run without
   `MaxLines` would need a bound of another kind (line numbers modulo the
   buffer) to tell a pause from a bound.
2. *Scanner.* A table of depth-indexed functions in place of the recursive
   operators would make `RoutesExact` provable for each depth, at the price of
   a model further from `scan.go`.
3. *A model of `Startup` and `Delivery` together*, in which the pipeline that
   `Configure` publishes is the one that delivers. Each is proved for itself; what
   joins them is one pointer, which is published once (`OneSender`).
