---------------------------- MODULE StartupProofs ----------------------------
(***************************************************************************)
(* Startup, for any number of goroutines and any settings: the invariant   *)
(* TypeOK /\ Strengthening is inductive, and the properties follow.        *)
(***************************************************************************)
EXTENDS Startup, TLAPS

Inv == TypeOK /\ Strengthening

\* The settings current falls back to are settings.
LEMMA DefaultIsSettings == Default \in Settings /\ Default # None
<1>1. Default \in Settings
  BY DEF Default, Settings
<1>. QED BY <1>1, NoneAssumption

\* Nothing is started yet.
LEMMA InitInv == Init => Inv
<1>. SUFFICES ASSUME Init PROVE Inv
  OBVIOUS
<1>. USE NoneAssumption DEF Init
<1>1. TypeOK
  BY DEF TypeOK, Settings, Default
<1>2. Exclusive /\ Starting /\ Tracing /\ Revived
  BY DEF Exclusive, Holding, Starting, Tracing, Revived
<1>. QED BY <1>1, <1>2 DEF Inv, Strengthening

\* What StartPipeline publishes.
LEMMA PipelineBuilt ==
  ASSUME TypeOK, NEW g \in Configurers, StartPipeline(g)
  PROVE  pipeline' \in Pipelines /\ pipeline'.id = senders + 1
<1>1. PICK keyOk \in BOOLEAN :
        pipeline' = [cfg |-> arg[g], id |-> senders + 1, keyed |-> arg[g].encrypted /\ keyOk]
  BY DEF StartPipeline
<1>2. arg[g] \in Settings /\ senders + 1 \in Nat \ {0}
  BY DEF TypeOK
<1>3. (arg[g].encrypted /\ keyOk) \in BOOLEAN
  OBVIOUS
<1>. QED BY <1>1, <1>2, <1>3 DEF Pipelines

\* Each step of a goroutine that calls Configure keeps the types.
LEMMA ConfigureType ==
  ASSUME Inv, NEW g \in Configurers, Configure(g)
  PROVE  TypeOK'
<1>. USE ConfigsAssumption, NoneAssumption, MaxCallsAssumption
     DEF Inv, TypeOK, startVars, configVars, countVars, spanVars, Settings, Pipelines
<1>1. CASE StoreSettings(g)
  BY <1>1 DEF StoreSettings
<1>2. CASE Lock(g)
  BY <1>2 DEF Lock
<1>3. CASE Check(g)
  <2>1. started' \in BOOLEAN
    BY <1>3 DEF Check
  <2>2. \E there \in {"logs", "unlock"} : pc' = [pc EXCEPT ![g] = there]
    BY <1>3 DEF Check
  <2>. QED BY <1>3, <2>1, <2>2 DEF Check
<1>4. CASE StartLogs(g)
  BY <1>4 DEF StartLogs
<1>5. CASE StartPipeline(g)
  <2>1. senders + 1 \in Nat
    OBVIOUS
  <2>2. pipeline' \in Pipelines
    BY <1>5, PipelineBuilt
  <2>. QED BY <1>5, <2>1, <2>2 DEF StartPipeline
<1>6. CASE Unlock(g)
  BY <1>6 DEF Unlock
<1>7. CASE Activate(g)
  BY <1>7 DEF Activate
<1>. QED BY <1>1, <1>2, <1>3, <1>4, <1>5, <1>6, <1>7 DEF Configure

\* Each step of a goroutine that traces keeps the types.
LEMMA TraceType ==
  ASSUME Inv, NEW t \in Tracers, Trace(t)
  PROVE  TypeOK'
<1>. USE NoneAssumption, MaxCallsAssumption
     DEF Inv, TypeOK, startVars, configVars, countVars, spanVars, Settings, Pipelines
<1>1. CASE StartSpan(t)
  BY <1>1 DEF StartSpan
<1>2. CASE StoreDefault(t)
  <2>1. configured' = Default /\ Default \in Settings /\ Default # None
    BY <1>2, DefaultIsSettings DEF StoreDefault
  <2>. QED BY <1>2, <2>1 DEF StoreDefault
<1>3. CASE End(t)
  BY <1>3 DEF End
<1>4. CASE LoadSalt(t)
  <2>1. pipeline # None => pipeline.id \in Nat
    OBVIOUS
  <2>. QED BY <1>4, <2>1 DEF LoadSalt
<1>5. CASE Encrypt(t)
  <2>1. pipeline # None => pipeline.id \in Nat
    OBVIOUS
  <2>2. PICK ok \in BOOLEAN :
          /\ key' = [key EXCEPT ![t] =
                      IF pipeline # None /\ pipeline.keyed /\ ok THEN pipeline.id ELSE 0]
          /\ failed' = [failed EXCEPT ![t] = ~ok]
    BY <1>5 DEF Encrypt
  <2>3. key' \in [Tracers -> Nat]
    BY <2>1, <2>2
  <2>4. failed' \in [Tracers -> BOOLEAN]
    BY <2>2
  <2>. QED BY <1>5, <2>3, <2>4 DEF Encrypt
<1>6. CASE Enqueue(t)
  BY <1>6 DEF Enqueue
<1>7. CASE NextSpan(t)
  BY <1>7 DEF NextSpan
<1>. QED BY <1>1, <1>2, <1>3, <1>4, <1>5, <1>6, <1>7 DEF Trace

\* A step of one tracer t leaves the start alone, and what it does to its own
\* span keeps Tracing.
LEMMA TraceStrengthening ==
  ASSUME Inv, NEW t \in Tracers, Trace(t)
  PROVE  Strengthening'
<1>1. /\ UNCHANGED <<pipeline, startMu, started, senders, flushers>>
      /\ UNCHANGED <<pc, arg, returned>>
  BY DEF Trace, StartSpan, StoreDefault, End, LoadSalt, Encrypt, Enqueue, NextSpan,
         startVars, configVars, countVars
<1>2. Exclusive' /\ Starting' /\ Revived'
  BY <1>1 DEF Inv, Strengthening, Exclusive, Starting, Revived
<1>3. configured # None => configured' # None
  BY DefaultIsSettings
     DEF Trace, StartSpan, StoreDefault, End, LoadSalt, Encrypt, Enqueue, NextSpan, startVars
<1>4. Tracing'
  <2>. USE DEF Inv, TypeOK, Strengthening, Tracing
  <2>1. CASE StartSpan(t)
    BY <1>1, <2>1 DEF StartSpan, startVars, spanVars
  <2>2. CASE StoreDefault(t)
    BY <1>1, <2>2, DefaultIsSettings DEF StoreDefault
  <2>3. CASE End(t)
    BY <1>1, <2>3 DEF End, Revived, startVars
  <2>4. CASE LoadSalt(t)
    BY <1>1, <2>4 DEF LoadSalt, Starting, startVars
  <2>5. CASE Encrypt(t)
    BY <1>1, <2>5 DEF Encrypt, Starting, startVars
  <2>6. CASE Enqueue(t)
    BY <1>1, <2>6 DEF Enqueue, Starting, startVars
  <2>7. CASE NextSpan(t)
    BY <1>1, <2>7 DEF NextSpan, startVars
  <2>. QED BY <2>1, <2>2, <2>3, <2>4, <2>5, <2>6, <2>7 DEF Trace
<1>. QED BY <1>2, <1>4 DEF Strengthening

\* A step of a goroutine g inside Configure.
LEMMA ConfigureStrengthening ==
  ASSUME Inv, NEW g \in Configurers, Configure(g)
  PROVE  Strengthening'
<1>. USE NoneAssumption DEF Inv, Strengthening
<1>1. CASE StoreSettings(g)
  <2>1. configured' # None
    BY <1>1, ConfigsAssumption DEF StoreSettings
  <2>2. Exclusive' /\ Starting' /\ Revived'
    BY <1>1 DEF StoreSettings, TypeOK, Exclusive, Holding, Starting, Revived, countVars
  <2>3. Tracing'
    BY <1>1, <2>1 DEF StoreSettings, Tracing, spanVars
  <2>. QED BY <2>2, <2>3
<1>2. CASE Lock(g)
  <2>1. Exclusive' /\ Starting' /\ Revived'
    BY <1>2 DEF Lock, TypeOK, Exclusive, Holding, Starting, Revived, countVars
  <2>2. Tracing'
    BY <1>2 DEF Lock, Tracing, spanVars
  <2>. QED BY <2>1, <2>2
<1>3. CASE Check(g)
  <2>1. PICK there \in {"logs", "unlock"} :
          /\ pc' = [pc EXCEPT ![g] = there]
          /\ there = "logs" => pipeline = None /\ arg[g].capable
          /\ there = "unlock" => pipeline # None \/ ~arg[g].capable
    <3>1. CASE pipeline = None
      BY <1>3, <3>1 DEF Check
    <3>2. CASE pipeline # None /\ started
      BY <1>3, <3>2 DEF Check
    <3>3. CASE pipeline # None /\ ~started
      BY <3>3 DEF Starting
    <3>. QED BY <3>1, <3>2, <3>3
  <2>2. Exclusive' /\ Starting' /\ Revived'
    BY <1>3, <2>1 DEF Check, TypeOK, Exclusive, Holding, Starting, Revived
  <2>3. Tracing'
    BY <1>3 DEF Check, Tracing, spanVars
  <2>. QED BY <2>2, <2>3
<1>4. CASE StartLogs(g)
  <2>1. Exclusive' /\ Starting' /\ Revived'
    BY <1>4 DEF StartLogs, TypeOK, Exclusive, Holding, Starting, Revived
  <2>2. Tracing'
    BY <1>4 DEF StartLogs, Tracing, spanVars
  <2>. QED BY <2>1, <2>2
<1>5. CASE StartPipeline(g)
  <2>1. pipeline = None /\ senders = 0 /\ arg[g].capable
    BY <1>5 DEF StartPipeline, Starting
  <2>2. pipeline' # None /\ pipeline'.id = 1 /\ senders' = 1
    <3>1. pipeline' \in Pipelines /\ pipeline'.id = senders + 1
      BY <1>5, PipelineBuilt
    <3>2. senders' = senders + 1
      BY <1>5 DEF StartPipeline
    <3>. QED BY <2>1, <3>1, <3>2
  <2>3. Exclusive' /\ Starting' /\ Revived'
    BY <1>5, <2>1, <2>2 DEF StartPipeline, TypeOK, Exclusive, Holding, Starting, Revived
  <2>4. Tracing'
    BY <1>5, <2>1, <2>2 DEF StartPipeline, Tracing, spanVars
  <2>. QED BY <2>3, <2>4
<1>6. CASE Unlock(g)
  <2>1. Exclusive' /\ Starting' /\ Revived'
    BY <1>6 DEF Unlock, TypeOK, Exclusive, Holding, Starting, Revived, countVars
  <2>2. Tracing'
    BY <1>6 DEF Unlock, Tracing, spanVars
  <2>. QED BY <2>1, <2>2
<1>7. CASE Activate(g)
  <2>1. Exclusive' /\ Starting' /\ Revived'
    BY <1>7 DEF Activate, TypeOK, Exclusive, Holding, Starting, Revived, countVars
  <2>2. Tracing'
    BY <1>7 DEF Activate, Tracing, spanVars
  <2>. QED BY <2>1, <2>2
<1>. QED BY <1>1, <1>2, <1>3, <1>4, <1>5, <1>6, <1>7 DEF Configure

\* The invariant holds of every reachable state.
THEOREM Invariance == Spec => []Inv
<1>1. Inv /\ [Next]_vars => Inv'
  <2>. SUFFICES ASSUME Inv, [Next]_vars PROVE Inv'
    OBVIOUS
  <2>1. ASSUME NEW g \in Configurers, Configure(g) PROVE Inv'
    BY <2>1, ConfigureType, ConfigureStrengthening DEF Inv
  <2>2. ASSUME NEW t \in Tracers, Trace(t) PROVE Inv'
    BY <2>2, TraceType, TraceStrengthening DEF Inv
  <2>3. CASE UNCHANGED vars
    BY <2>3 DEF vars, startVars, configVars, countVars, spanVars, Inv, TypeOK,
       Strengthening, Exclusive, Starting, Tracing, Revived
  <2>. QED BY <2>1, <2>2, <2>3 DEF Next
<1>. QED BY InitInv, <1>1, PTL DEF Spec

\* The variables keep their types, and no span loads settings that are missing.
THEOREM Typed == Spec => []TypeOK
<1>1. Inv => TypeOK
  BY DEF Inv
<1>. QED BY Invariance, <1>1, PTL

\* However many goroutines configure the SDK at once, one event sender at most
\* and one log flusher at most are ever spawned.
THEOREM NeverTwoSenders == Spec => []OneSender
<1>1. Inv => OneSender
  BY DEF Inv, TypeOK, Strengthening, Starting, OneSender
<1>. QED BY Invariance, <1>1, PTL

\* A Configure that carries an endpoint and a key revives a passive start.
THEOREM PassiveStartRevives == Spec => []Revived
<1>1. Inv => Revived
  BY DEF Inv, Strengthening
<1>. QED BY Invariance, <1>1, PTL

\* Once a capable Configure has returned, no span is lost for want of a pipeline.
THEOREM NoneLostOnceReady == Spec => []NotLostOnceReady
<1>1. Inv => NotLostOnceReady
  BY DEF Inv, Strengthening, Tracing, NotLostOnceReady
<1>. QED BY Invariance, <1>1, PTL

\* Salt, key and pipeline of an encrypted payload belong together, though they
\* are three loads.
THEOREM SaltFits == Spec => []SaltMatchesKey
<1>1. Inv => SaltMatchesKey
  BY DEF Inv, Strengthening, Tracing, SaltMatchesKey
<1>. QED BY Invariance, <1>1, PTL

\* Once a capable Configure has returned, a payload that must be encrypted is.
THEOREM EncryptedFromThenOn == Spec => []EncryptedOnceReady
<1>1. Inv => EncryptedOnceReady
  BY DEF Inv, Strengthening, Tracing, EncryptedOnceReady
<1>. QED BY Invariance, <1>1, PTL
=============================================================================
