------------------------------ MODULE Startup ------------------------------
(***************************************************************************)
(* How the SDK comes to life (config.go, startSender in client.go) while   *)
(* the program already uses it.  Any number of goroutines call Configure;  *)
(* others start and end spans, which load the settings and the pipeline    *)
(* through atomic pointers at several separate moments (attachPayload and  *)
(* enqueue).                                                               *)
(*                                                                         *)
(* Settings are reduced to what decides the control flow.  A pipeline is   *)
(* represented by the settings it was built with, its number in the order  *)
(* of creation, and whether its encryption key was set up; the salt and    *)
(* the key of a payload by the number of the pipeline they came from.      *)
(***************************************************************************)
EXTENDS Naturals

CONSTANTS Configurers,    \* goroutines that call Configure
          Tracers,        \* goroutines that start and end spans
          Configs,        \* what Configure is called with
          None,           \* a nil pointer
          MaxCalls        \* bound of the model: calls of Configure, and spans

\* capable: the endpoint and the API key are set.  encrypted: so is the
\* encryption key.  http: httpBaseURL finds a base for the log endpoint.
Settings == [capable : BOOLEAN, encrypted : BOOLEAN, http : BOOLEAN]

\* resolve(Config{}), what current falls back to.
Default == [capable |-> FALSE, encrypted |-> FALSE, http |-> FALSE]

Pipelines == [cfg : Settings, id : Nat \ {0}, keyed : BOOLEAN]

ASSUME ConfigsAssumption == Configs \subseteq Settings
ASSUME NoneAssumption ==
  None \notin Settings /\ None \notin Configurers /\ None \notin Pipelines
ASSUME MaxCallsAssumption == MaxCalls \in Nat

VARIABLES
  configured,  \* the settings, or None
  active,      \* what Enabled reports
  startMu,     \* the goroutine that holds startMu, or None
  started,     \* started
  pipeline,    \* globalPipeline: None or a pipeline
  logs,        \* globalLogs: None or the settings it was started with
  pc,          \* where each goroutine that calls Configure stands
  arg,         \* the settings it resolved
  senders,     \* history: how many event senders were spawned
  flushers,    \* history: how many log flushers were spawned
  returned,    \* history: the settings whose Configure has returned
  span,        \* where each tracer stands
  set,         \* the settings its attachPayload loaded
  salt,        \* the pipeline that gave its salt, 0 for none
  key,         \* the pipeline that gave its key, 0 for plaintext
  sent,        \* the pipeline that took its event; 0 when enqueue found none
  ready,       \* history: a capable Configure had returned before End
  failed,      \* history: Encrypt returned an error
  calls        \* history: calls of Configure, and spans started

startVars  == <<configured, active, startMu, started, pipeline, logs>>
configVars == <<pc, arg, returned>>
countVars  == <<senders, flushers>>
spanVars   == <<span, set, salt, key, sent, ready, failed>>
vars == <<startVars, configVars, countVars, spanVars, calls>>

Init ==
  /\ configured = None /\ active = FALSE
  /\ startMu = None /\ started = FALSE
  /\ pipeline = None /\ logs = None
  /\ pc = [g \in Configurers |-> "idle"]
  /\ arg = [g \in Configurers |-> Default]
  /\ returned = {}
  /\ senders = 0 /\ flushers = 0
  /\ span = [t \in Tracers |-> "idle"]
  /\ set = [t \in Tracers |-> Default]
  /\ salt = [t \in Tracers |-> 0]
  /\ key = [t \in Tracers |-> 0]
  /\ sent = [t \in Tracers |-> 0]
  /\ ready = [t \in Tracers |-> FALSE]
  /\ failed = [t \in Tracers |-> FALSE]
  /\ calls = 0

-----------------------------------------------------------------------------
(* Configure.                                                              *)

StoreSettings(g) ==
  /\ pc[g] = "idle"
  /\ calls < MaxCalls
  /\ calls' = calls + 1
  /\ \E c \in Configs :
       /\ arg' = [arg EXCEPT ![g] = c]
       /\ configured' = c
  /\ pc' = [pc EXCEPT ![g] = "lock"]
  /\ UNCHANGED <<active, startMu, started, pipeline, logs, returned, countVars, spanVars>>

\* Seeded bug: does not take the mutex.
LockIgnored(g) ==
  /\ pc[g] = "lock"
  /\ startMu' = g
  /\ pc' = [pc EXCEPT ![g] = "check"]
  /\ UNCHANGED <<configured, active, started, pipeline, logs, arg, returned,
                 countVars, spanVars, calls>>

Lock(g) ==
  /\ pc[g] = "lock"
  /\ startMu = None
  /\ startMu' = g
  /\ pc' = [pc EXCEPT ![g] = "check"]
  /\ UNCHANGED <<configured, active, started, pipeline, logs, arg, returned,
                 countVars, spanVars, calls>>

\* Seeded bug: one start for ever, as a sync.Once would give.
CheckOnce(g) ==
  /\ pc[g] = "check"
  /\ IF ~started
     THEN /\ started' = TRUE
          /\ pc' = [pc EXCEPT ![g] = IF arg[g].capable THEN "logs" ELSE "unlock"]
     ELSE pc' = [pc EXCEPT ![g] = "unlock"] /\ UNCHANGED started
  /\ UNCHANGED <<configured, active, startMu, pipeline, logs, arg, returned,
                 senders, flushers, spanVars, calls>>

\* Seeded bug: a capable configuration always starts the sender.
CheckAlways(g) ==
  /\ pc[g] = "check"
  /\ started' = TRUE
  /\ pc' = [pc EXCEPT ![g] = IF arg[g].capable THEN "logs" ELSE "unlock"]
  /\ UNCHANGED <<configured, active, startMu, pipeline, logs, arg, returned,
                 senders, flushers, spanVars, calls>>

\* Seeded bug: startSender gives up without a key and leaves the mutex locked.
CheckKeepsLock(g) ==
  /\ pc[g] = "check"
  /\ IF ~started \/ pipeline = None
     THEN /\ started' = TRUE
          /\ pc' = [pc EXCEPT ![g] = IF arg[g].capable THEN "logs" ELSE "activate"]
     ELSE pc' = [pc EXCEPT ![g] = "unlock"] /\ UNCHANGED started
  /\ UNCHANGED <<configured, active, startMu, pipeline, logs, arg, returned,
                 senders, flushers, spanVars, calls>>

\* The test under startMu, and the early returns of startSender: without an
\* endpoint or a key the SDK stays passive.
Check(g) ==
  /\ pc[g] = "check"
  /\ IF ~started \/ pipeline = None
     THEN /\ started' = TRUE
          /\ pc' = [pc EXCEPT ![g] = IF arg[g].capable THEN "logs" ELSE "unlock"]
     ELSE pc' = [pc EXCEPT ![g] = "unlock"] /\ UNCHANGED started
  /\ UNCHANGED <<configured, active, startMu, pipeline, logs, arg, returned,
                 senders, flushers, spanVars, calls>>

\* Seeded bug: without a log endpoint there is no pipeline either.
StartLogsBails(g) ==
  /\ pc[g] = "logs"
  /\ IF arg[g].http
     THEN /\ logs' = arg[g] /\ flushers' = flushers + 1
          /\ pc' = [pc EXCEPT ![g] = "build"]
     ELSE pc' = [pc EXCEPT ![g] = "unlock"] /\ UNCHANGED <<logs, flushers>>
  /\ UNCHANGED <<configured, active, startMu, started, pipeline, arg, returned,
                 senders, spanVars, calls>>

\* sendManifest (which keeps no state) and startLogs.
StartLogs(g) ==
  /\ pc[g] = "logs"
  /\ IF arg[g].http
     THEN logs' = arg[g] /\ flushers' = flushers + 1
     ELSE UNCHANGED <<logs, flushers>>
  /\ pc' = [pc EXCEPT ![g] = "build"]
  /\ UNCHANGED <<configured, active, startMu, started, pipeline, arg, returned,
                 senders, spanVars, calls>>

\* Build the pipeline, with its key when one is wanted and can be derived,
\* publish it and spawn its sender.
StartPipeline(g) ==
  /\ pc[g] = "build"
  /\ \E keyOk \in BOOLEAN :
       pipeline' = [cfg |-> arg[g], id |-> senders + 1, keyed |-> arg[g].encrypted /\ keyOk]
  /\ senders' = senders + 1
  /\ pc' = [pc EXCEPT ![g] = "unlock"]
  /\ UNCHANGED <<configured, active, startMu, started, logs, arg, returned,
                 flushers, spanVars, calls>>

Unlock(g) ==
  /\ pc[g] = "unlock"
  /\ startMu' = None
  /\ pc' = [pc EXCEPT ![g] = "activate"]
  /\ UNCHANGED <<configured, active, started, pipeline, logs, arg, returned,
                 countVars, spanVars, calls>>

Activate(g) ==
  /\ pc[g] = "activate"
  /\ active' = TRUE
  /\ returned' = returned \cup {arg[g]}
  /\ pc' = [pc EXCEPT ![g] = "idle"]
  /\ UNCHANGED <<configured, startMu, started, pipeline, logs, arg, countVars,
                 spanVars, calls>>

Configure(g) ==
  \/ StoreSettings(g) \/ Lock(g) \/ Check(g) \/ StartLogs(g) \/ StartPipeline(g)
  \/ Unlock(g) \/ Activate(g)

-----------------------------------------------------------------------------
(* A span that carries a payload.                                          *)

\* Seeded bug: nothing stands in for settings that are missing.
StartSpanUnresolved(t) ==
  /\ span[t] = "idle"
  /\ calls < MaxCalls
  /\ calls' = calls + 1
  /\ span' = [span EXCEPT ![t] = "open"]
  /\ UNCHANGED <<startVars, configVars, countVars, set, salt, key, sent, ready, failed>>

\* StartSpan asks current for the settings; nil makes it resolve the default.
StartSpan(t) ==
  /\ span[t] = "idle"
  /\ calls < MaxCalls
  /\ calls' = calls + 1
  /\ span' = [span EXCEPT ![t] = IF configured = None THEN "default" ELSE "open"]
  /\ UNCHANGED <<startVars, configVars, countVars, set, salt, key, sent, ready, failed>>

\* configured.Store(s) in current.
StoreDefault(t) ==
  /\ span[t] = "default"
  /\ configured' = Default
  /\ span' = [span EXCEPT ![t] = "open"]
  /\ UNCHANGED <<active, startMu, started, pipeline, logs, configVars, countVars,
                 set, salt, key, sent, ready, failed, calls>>

\* End reaches attachPayload, which loads the settings.
End(t) ==
  /\ span[t] = "open"
  /\ set' = [set EXCEPT ![t] = configured]
  /\ ready' = [ready EXCEPT ![t] = \E c \in returned : c.capable]
  /\ failed' = [failed EXCEPT ![t] = FALSE]
  /\ salt' = [salt EXCEPT ![t] = 0]
  /\ key' = [key EXCEPT ![t] = 0]
  /\ sent' = [sent EXCEPT ![t] = 0]
  /\ span' = [span EXCEPT ![t] = IF configured.encrypted THEN "salt" ELSE "enqueue"]
  /\ UNCHANGED <<startVars, configVars, countVars, calls>>

\* encryptionSalt: the empty string without a pipeline or without its key.
LoadSalt(t) ==
  /\ span[t] = "salt"
  /\ IF pipeline = None \/ ~pipeline.keyed
     THEN span' = [span EXCEPT ![t] = "enqueue"] /\ UNCHANGED salt
     ELSE /\ span' = [span EXCEPT ![t] = "encrypt"]
          /\ salt' = [salt EXCEPT ![t] = pipeline.id]
  /\ UNCHANGED <<startVars, configVars, countVars, set, key, sent, ready, failed, calls>>

\* Seeded bug: encrypts only while the settings of the moment ask for it.
EncryptRereads(t) ==
  /\ span[t] = "encrypt"
  /\ key' = [key EXCEPT ![t] = IF configured.encrypted THEN pipeline.id ELSE 0]
  /\ span' = [span EXCEPT ![t] = "enqueue"]
  /\ UNCHANGED <<startVars, configVars, countVars, set, salt, sent, ready, failed, calls>>

\* encryptPayload loads the pipeline again.  A failure ships plaintext.
Encrypt(t) ==
  /\ span[t] = "encrypt"
  /\ \E ok \in BOOLEAN :
       /\ key' = [key EXCEPT ![t] =
                   IF pipeline # None /\ pipeline.keyed /\ ok THEN pipeline.id ELSE 0]
       /\ failed' = [failed EXCEPT ![t] = ~ok]
  /\ span' = [span EXCEPT ![t] = "enqueue"]
  /\ UNCHANGED <<startVars, configVars, countVars, set, salt, sent, ready, calls>>

\* enqueue loads it a third time.
Enqueue(t) ==
  /\ span[t] = "enqueue"
  /\ sent' = [sent EXCEPT ![t] = IF pipeline = None THEN 0 ELSE pipeline.id]
  /\ span' = [span EXCEPT ![t] = "ended"]
  /\ UNCHANGED <<startVars, configVars, countVars, set, salt, key, ready, failed, calls>>

\* The goroutine is done with the span and may start another one.
NextSpan(t) ==
  /\ span[t] = "ended"
  /\ span' = [span EXCEPT ![t] = "idle"]
  /\ UNCHANGED <<startVars, configVars, countVars, set, salt, key, sent, ready, failed, calls>>

Trace(t) ==
  \/ StartSpan(t) \/ StoreDefault(t) \/ End(t) \/ LoadSalt(t) \/ Encrypt(t)
  \/ Enqueue(t) \/ NextSpan(t)

-----------------------------------------------------------------------------
Next ==
  \/ \E g \in Configurers : Configure(g)
  \/ \E t \in Tracers : Trace(t)

Spec == Init /\ [][Next]_vars

\* A goroutine inside Configure is scheduled, and sync.Mutex does not starve
\* a waiter for ever; nobody has to call Configure or start a span.
Fairness ==
  \A g \in Configurers :
    /\ SF_vars(Lock(g))
    /\ WF_vars(Check(g) \/ StartLogs(g) \/ StartPipeline(g) \/ Unlock(g) \/ Activate(g))

FairSpec == Spec /\ Fairness

-----------------------------------------------------------------------------
TypeOK ==
  /\ configured \in Settings \cup {None}
  /\ active \in BOOLEAN
  /\ startMu \in Configurers \cup {None}
  /\ started \in BOOLEAN
  /\ pipeline \in Pipelines \cup {None}
  /\ logs \in Settings \cup {None}
  /\ pc \in [Configurers -> {"idle", "lock", "check", "logs", "build", "unlock", "activate"}]
  /\ arg \in [Configurers -> Settings]
  /\ returned \in SUBSET Settings
  /\ senders \in Nat /\ flushers \in Nat
  /\ span \in [Tracers -> {"idle", "default", "open", "salt", "encrypt", "enqueue", "ended"}]
  /\ set \in [Tracers -> Settings]
  /\ salt \in [Tracers -> Nat] /\ key \in [Tracers -> Nat] /\ sent \in [Tracers -> Nat]
  /\ ready \in [Tracers -> BOOLEAN] /\ failed \in [Tracers -> BOOLEAN]
  /\ calls \in Nat
  /\ (\E t \in Tracers : span[t] = "open") => configured # None

\* "The first later Configure that carries a key revives the pipeline"
\* (config.go:84): once any capable Configure has returned there is one.
Revived == (\E c \in returned : c.capable) => pipeline # None

\* Mutual exclusion of the start, and what holds between its steps.
Holding == {"check", "logs", "build", "unlock"}

Exclusive == \A g \in Configurers : pc[g] \in Holding <=> startMu = g

Starting ==
  /\ senders = IF pipeline = None THEN 0 ELSE 1
  /\ pipeline # None => pipeline.id = 1 /\ started
  /\ flushers <= 1
  /\ pipeline = None /\ (\A g \in Configurers : pc[g] # "build") => flushers = 0
  /\ \A g \in Configurers :
       /\ pc[g] \in {"logs", "build"} => pipeline = None /\ arg[g].capable /\ started
       /\ pc[g] \in {"unlock", "activate"} /\ arg[g].capable => pipeline # None

Tracing ==
  \A t \in Tracers :
    /\ span[t] \in {"open", "salt", "encrypt", "enqueue", "ended"} => configured # None
    /\ ready[t] => pipeline # None
    /\ span[t] \in {"salt", "encrypt"} => key[t] = 0
    /\ span[t] = "salt" => salt[t] = 0
    /\ span[t] = "encrypt" => salt[t] = 1 /\ pipeline # None /\ pipeline.keyed
    /\ key[t] # 0 => key[t] = 1 /\ salt[t] = 1 /\ pipeline # None
    /\ span[t] = "ended" /\ pipeline = None => sent[t] = 0
    /\ span[t] = "ended" => sent[t] \in {0, 1}
    /\ span[t] = "ended" /\ (ready[t] \/ key[t] # 0) => sent[t] = 1
    /\ /\ span[t] \in {"enqueue", "ended"}
       /\ ready[t] /\ set[t].encrypted /\ pipeline.keyed /\ ~failed[t]
       => key[t] # 0

\* The strengthening that makes the properties below inductive.
Strengthening == Exclusive /\ Starting /\ Tracing /\ Revived

\* However many goroutines configure the SDK, and however often a passive
\* start is revived, one goroutine at most sends events and one flushes logs:
\* two senders would interleave two numberings on one server.
OneSender == senders <= 1 /\ flushers <= 1

\* A span that ends after a capable Configure has returned is never lost for
\* want of a pipeline, though enqueue reads the pointer long after End began.
NotLostOnceReady == \A t \in Tracers : span[t] = "ended" /\ ready[t] => sent[t] # 0

\* An encrypted payload carries the salt its own key was derived from and
\* travels on the pipeline both came from, although salt, key and pipeline are
\* three separate loads.
SaltMatchesKey ==
  \A t \in Tracers :
    span[t] = "ended" /\ key[t] # 0 => salt[t] = key[t] /\ sent[t] = key[t]

\* What is left of "payloads are encrypted client-side when an encryption key
\* is configured" (trace.go:90-91): it holds of a span that ends when a capable
\* Configure has returned, if the pipeline was built with its key and Encrypt
\* does not fail.
EncryptedOnceReady ==
  \A t \in Tracers :
    span[t] = "ended" /\ ready[t] /\ set[t].encrypted /\ pipeline.keyed /\ ~failed[t]
      => key[t] # 0

\* Every Configure returns.
ConfigureReturns == \A g \in Configurers : pc[g] = "lock" ~> pc[g] = "idle"

=============================================================================
