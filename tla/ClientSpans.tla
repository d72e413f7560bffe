---------------------------- MODULE ClientSpans ----------------------------
(***************************************************************************)
(* The user code of RequestSpans calls out: through the HTTP transport     *)
(* (trace.go), the tracing database driver under database/sql              *)
(* (sqltrace.go), the GORM plugin and the redis hook (contrib).  Each      *)
(* wrapper opens a span, makes the base call and finishes the span by what *)
(* the base call returned; database/sql, which is not part of the          *)
(* repository, decides by the same result whether it calls the driver      *)
(* again: it prepares a statement after driver.ErrSkip and retries on      *)
(* another connection after driver.ErrBadConn.                             *)
(*                                                                         *)
(* One step is what happens between two points at which code outside the   *)
(* SDK runs: Enabled() is read once in it, and a panic of the base call    *)
(* unwinds the layers of RequestSpans.                                     *)
(***************************************************************************)
EXTENDS RequestSpans

CONSTANTS MaxTries,  \* bound of the model: database/sql tries three times
          CallDepth  \* bound of the model: layers around a call

ASSUME TriesAssumption == MaxTries \in Nat \ {0} /\ CallDepth \in Nat

VARIABLE call  \* per goroutine: the call it is in

clientVars == <<vars, call>>

\* "sql" is db.QueryContext or db.ExecContext, "stmt" the same of a prepared
\* statement; the others have a hook of the SDK around the operation.
APIs == {"http", "redis", "gorm", "sql", "stmt"}

\* No call: the user code itself runs.  caps: which of its connections and
\* statements the base driver gives QueryerContext and ExecerContext; opened:
\* the spans of the call; on: the SDK was enabled at each of its attempts.
NoCall == [api |-> "none", caps |-> {}, via |-> "none", tries |-> 0, on |-> TRUE,
           result |-> "none", opened |-> <<>>]

\* Parent 0: the root of a trace of its own.
NewClient(parent) == [parent |-> parent, error |-> FALSE, status |-> 0, ended |-> FALSE]

ClientInit == Init /\ call = [g \in Goroutines |-> NoCall]

-----------------------------------------------------------------------------
(* An attempt begins.                                                      *)

\* Seeded bug: the span of the request that is served, not of the context.
ParentRequest(g, c) == IF frames[g] = <<>> THEN 0 ELSE frames[g][1].span

\* A statement's base is asked for the interfaces of a connection, which it
\* seldom has, and is else used without the context.
Parent(g, c) == IF c.via = "stmt" /\ "stmt" \notin c.caps THEN 0 ELSE ContextSpan(g)

\* Before the base call; no span while the SDK is disabled.
Opened(g, c) ==
  [c EXCEPT !.on = @ /\ enabled,
            !.opened = IF enabled THEN Append(@, NewClient(Parent(g, c))) ELSE @]

\* Prepare fails, or the statement is used.  A Prepare that fails with
\* ErrBadConn uses up a try and leaves no span; it is left out.
Prepared(g, c) == {Opened(g, [c EXCEPT !.via = "stmt"]), [c EXCEPT !.result = "error"]}

\* The hooks of the transport, of redis and of GORM open their span at once.
Hooked(g, c) == {Opened(g, [c EXCEPT !.via = "hook"])}

\* database/sql enters a connection through QueryContext or ExecContext, which
\* tracedConn always has; without the base's, tracedConn prepares.
Entered(g, c) ==
  IF c.api = "sql" /\ "conn" \notin c.caps THEN Prepared(g, c)
  ELSE IF c.api \in {"sql", "stmt"}
  THEN {Opened(g, [c EXCEPT !.via = IF c.api = "sql" THEN "conn" ELSE "stmt"])}
  ELSE Hooked(g, c)

StartCall(g, api) ==
  /\ mode[g] = "run"
  /\ call[g] = NoCall
  /\ Len(frames[g]) <= CallDepth
  /\ \E caps \in SUBSET (CASE api = "sql" -> {"conn", "stmt"} [] api = "stmt" -> {"stmt"} [] OTHER -> {}) :
       \E c \in Entered(g, [NoCall EXCEPT !.api = api, !.caps = caps, !.tries = 1]) :
         call' = [call EXCEPT ![g] = c]
  /\ UNCHANGED vars

-----------------------------------------------------------------------------
(* The base call returns.                                                  *)

InBase(g) == call[g].api # "none" /\ call[g].result = "none"

\* "failed": a response with status 500; "notfound": gorm.ErrRecordNotFound.
Outcomes(g) ==
  {"ok", "error"} \union
  CASE call[g].api = "http" -> {"failed"}
    [] call[g].api = "gorm" -> {"notfound"}
    [] call[g].via = "conn" -> {"skip", "badconn"}
    [] call[g].via = "stmt" -> {"badconn"}
    [] OTHER -> {}

\* Seeded bug: returns on an error before it ends the span.
FinishedUnlessError(api, span, outcome) ==
  IF outcome = "ok" THEN [span EXCEPT !.status = 200, !.ended = TRUE] ELSE [span EXCEPT !.error = TRUE]

\* FinishDBSpan, and the end of RoundTrip, which gives an error no status.
Finished(api, span, outcome) ==
  LET good == outcome \in {"ok", "notfound", "failed"}
  IN  [span EXCEPT !.error = ~good, !.ended = TRUE,
                   !.status = IF outcome = "failed" THEN 500 ELSE IF good THEN 200
                              ELSE IF api = "http" THEN 0 ELSE 500]

\* The call with the span of its last attempt finished.  There is none if the
\* SDK was disabled: the GORM plugin then writes an attribute of a nil span
\* and recovers from its own panic.
Closed(c, outcome) ==
  [c EXCEPT !.opened = [i \in DOMAIN @ |-> IF @[i].ended THEN @[i] ELSE Finished(c.api, @[i], outcome)]]

\* What database/sql, or the caller, does with the result.
Followed(g, c, outcome) ==
  IF outcome = "skip" THEN Prepared(g, c)
  ELSE IF outcome = "badconn" /\ c.tries < MaxTries
  THEN Entered(g, [c EXCEPT !.tries = @ + 1])
  ELSE {[c EXCEPT !.result = IF outcome = "badconn" THEN "error" ELSE outcome]}

BaseReturns(g, outcome) ==
  /\ InBase(g)
  /\ \E c \in Followed(g, Closed(call[g], outcome), outcome) : call' = [call EXCEPT ![g] = c]
  /\ UNCHANGED vars

\* No wrapper defers its last part: a panic leaves the open span unfinished.
BasePanics(g) ==
  /\ InBase(g)
  /\ call' = [call EXCEPT ![g] = NoCall]
  /\ mode' = [mode EXCEPT ![g] = "panic"]
  /\ UNCHANGED <<enabled, frames, request, response, ambient, spans, panicked, torn>>

Resume(g) ==
  /\ call[g].result # "none"
  /\ call' = [call EXCEPT ![g] = NoCall]
  /\ UNCHANGED vars

-----------------------------------------------------------------------------
ClientStep(g) ==
  \/ \E api \in APIs : StartCall(g, api)
  \/ \E outcome \in Outcomes(g) : BaseReturns(g, outcome)
  \/ BasePanics(g) \/ Resume(g)

ClientNext ==
  \/ Enable /\ UNCHANGED call
  \/ \E g \in Goroutines :
       \/ call[g] = NoCall /\ RequestStep(g) /\ UNCHANGED call
       \/ ClientStep(g)

ClientSpec == ClientInit /\ [][ClientNext]_clientVars

-----------------------------------------------------------------------------
(* Properties.                                                             *)

\* When a call has returned, through whatever retries and fallbacks, each of
\* its spans is ended, none says more than one attempt did, and together they
\* tell the result: a call that succeeded has exactly one successful span, the
\* last, and a call that failed has none.
ResultTold ==
  \A g \in Goroutines : call[g].result # "none" =>
    LET opened == call[g].opened
    IN  /\ \A i \in DOMAIN opened : opened[i].ended /\ (opened[i].error => opened[i].status # 200)
        /\ call[g].result \in {"ok", "notfound"} /\ call[g].on =>
             {i \in DOMAIN opened : opened[i].status = 200} = {Len(opened)}
        /\ call[g].result \in {"error", "failed"} =>
             \A i \in DOMAIN opened : opened[i].status # 200

\* A span of a call joins the trace that the log lines of the same goroutine
\* are stamped with, the innermost of the registry, or, in a statement of a
\* base driver, starts a trace of its own.  In gin it joins what c.Request
\* says, which may be an outer span of the goroutine, none, or the span of a
\* GinMiddleware that has returned; but never one of another goroutine's open
\* spans, and never another span that has ended.
JoinsAmbientTrace ==
  \A g \in Goroutines : \A i \in DOMAIN call[g].opened :
    LET parent == call[g].opened[i].parent
    IN  \/ parent = (IF ambient[g] = <<>> THEN 0 ELSE ambient[g][Len(ambient[g])])
        \/ parent = 0 /\ call[g].api \in {"sql", "stmt"}
        \/ /\ InEngine(g)
           /\ parent # 0 /\ parent \notin SpansOf(g) => spans[parent].layer = "gin" /\ spans[parent].ended
=============================================================================
