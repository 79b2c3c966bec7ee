------------------------ MODULE AgentLifecycleProofs ------------------------
(***************************************************************************)
(* The agent's life, for every set of environments, files and endpoints:   *)
(* the storage manager is used as MetricsStorageProofs assumes it is, and  *)
(* what was checked of the configuration when it was loaded still holds    *)
(* when the tickers, the collectors and the emitter use it.                *)
(***************************************************************************)
EXTENDS AgentLifecycle, MetricsStorageProofs

\* What loading makes of an environment and a file.
IsConfig(c) ==
    /\ c.minimum \in Int /\ c.default \in Int
    /\ \A use \in {"metrics", "status"} : c.credentials[use] \subseteq Parts
    /\ DOMAIN c.endpoints = 1..Len(c.endpoints) /\ Len(c.endpoints) \in Nat
    /\ \A i \in DOMAIN c.endpoints : IsEndpoint(c.endpoints[i])
-----------------------------------------------------------------------------
(* The inductive invariant.                                                *)

Types ==
    /\ phase \in {"load", "secrets", "starting", "running", "stopping", "closed",
                  "fatal", "panicked", "exited"}
    /\ next \in 1..7 \cup 1..(Len(conf.endpoints) + 1)
    /\ waited \in 0..(Patience + 1)
    /\ DOMAIN tickers \subseteq Senders
    /\ stage \in [Senders -> {"idle", "collected", "declare"}]

\* Before storage has been started nothing runs.
NothingRuns ==
    /\ phase = "load" => next = 1
    /\ phase \in {"load", "secrets"} => definer.pc = "none" /\ DOMAIN tickers = {}

\* The configuration the agent goes on with is the one it has checked.
Accepted == phase \notin {"load", "fatal"} => IsConfig(conf) /\ ValidateConfig(conf)

\* The channels are closed when there are no tickers any more, and no sooner
\* than the agent has been told to end.
ClosedAtTheEnd ==
    /\ phase \in {"load", "secrets", "starting", "running", "stopping"} => open
    /\ ~open \/ phase = "panicked" => tickers = << >>

OwnInv ==
    /\ Types /\ NothingRuns /\ Accepted /\ ClosedAtTheEnd
    /\ TickersArePaced /\ TickersAreUsable

IInv == StorageInv /\ OwnInv
-----------------------------------------------------------------------------
(* Lemmas about the configuration.                                         *)

\* Whatever the environment and the file give, the result has the form of a
\* configuration (NewConfig, Unmarshal, main).
LEMMA LoadedIsConfig ==
    ASSUME NEW start \in Starts
    PROVE  IsConfig(Completed(Unmarshal(start.file, start.env)))
  <1> DEFINE env == start.env  file == start.file  new == NewConfig(env)  c == Unmarshal(file, env)
  <1>1. IsEnvironment(env) /\ IsFile(file) BY StartConstants
  <1>2. /\ DOMAIN new = {"minimum", "default", "limit", "logSize", "enabled", "credentials", "endpoints"}
        /\ new.minimum \in Int /\ new.default \in Int
        /\ new.credentials \in [Uses -> SUBSET Parts] /\ new.endpoints = <<>>
    <2> HIDE DEF env
    <2>1. env.minimum \in Int /\ env.default \in Int /\ env.credentials \in [Uses -> SUBSET Parts]
      BY <1>1 DEF IsEnvironment
    <2>2. DOMAIN new = {"minimum", "default", "limit", "logSize", "enabled", "credentials", "endpoints"}
      BY DEF NewConfig
    <2>3. new.minimum \in Int /\ new.default \in Int
      <3>1. /\ new.minimum = GetDefaultString(env.minimum, 10)
            /\ new.default = GetDefaultString(env.default, 300)
        BY DEF NewConfig
      <3>2. GetDefaultString(env.minimum, 10) \in Int /\ GetDefaultString(env.default, 300) \in Int
        BY <2>1 DEF GetDefaultString
      <3> HIDE DEF new
      <3> QED BY <3>1, <3>2
    <2>4. new.credentials \in [Uses -> SUBSET Parts] /\ new.endpoints = <<>>
      BY <2>1 DEF NewConfig
    <2> QED BY <2>2, <2>3, <2>4
  <1> HIDE DEF new
  <1>3. /\ DOMAIN c = DOMAIN new
        /\ \A name \in DOMAIN new : c[name] =
                IF name \notin DOMAIN file THEN new[name]
                ELSE IF name = "credentials"
                     THEN [use \in DOMAIN new[name] |-> new[name][use] \cup file[name][use]]
                     ELSE file[name]
    BY DEF Unmarshal, new
  <1> HIDE DEF c
  <1>4. c.minimum \in Int /\ c.default \in Int BY <1>1, <1>2, <1>3 DEF IsFile
  <1>5. c.credentials \in [Uses -> SUBSET Parts] BY <1>1, <1>2, <1>3 DEF IsFile
  <1>6. /\ DOMAIN c.endpoints = 1..Len(c.endpoints) /\ Len(c.endpoints) \in Nat
        /\ \A i \in DOMAIN c.endpoints : IsEndpoint(c.endpoints[i])
    BY <1>1, <1>2, <1>3 DEF IsFile
  <1>7. /\ Completed(c).minimum \in Int /\ Completed(c).default \in Int
        /\ Completed(c).credentials = c.credentials
        /\ Completed(c).endpoints = c.endpoints
    BY <1>2, <1>3, <1>4 DEF Completed, GetDefaultString, FloorInterval
  <1>8. IsConfig(Completed(c)) BY <1>5, <1>6, <1>7 DEF IsConfig, Uses
  <1> QED BY <1>8 DEF c

\* No interval that is used is below the minimum, nor below five seconds.
LEMMA IntervalIsPaced ==
    ASSUME NEW c, IsConfig(c), ValidateConfig(c), NEW e, IsEndpoint(e)
    PROVE  CollectionInterval(e, c) >= c.minimum /\ CollectionInterval(e, c) >= FloorInterval
  BY DEF IsConfig, ValidateConfig, ValidIntervals, IsEndpoint, CollectionInterval, FloorInterval

\* Checked credentials always make the header their kind calls for.
LEMMA HeaderIsRight ==
    ASSUME NEW parts \in SUBSET Parts, ValidateCredentials(parts)
    PROVE  HttpAuthHeader(parts) = IF parts = {} THEN ""
                                   ELSE IF "token" \in parts THEN "Bearer" ELSE "Basic"
  <1>1. "token" \in parts \/ "username" \in parts \/ parts = {} BY DEF ValidateCredentials, Parts
  <1>2. CASE "token" \in parts BY <1>2 DEF HttpAuthHeader, ValidateCredentials
  <1>3. CASE "token" \notin parts /\ "username" \in parts
    BY <1>3 DEF HttpAuthHeader, ValidateCredentials
  <1>4. CASE parts = {} BY <1>4 DEF HttpAuthHeader, ValidateCredentials
  <1> QED BY <1>1, <1>2, <1>3, <1>4

\* The emitter of a checked configuration answers only who may read it.
LEMMA RepliesAreGuarded ==
    ASSUME NEW c, IsConfig(c), ValidateConfig(c), NEW use \in {"metrics", "status"}
    PROVE  /\ c.credentials[use] # {} => Reply(c, use, "none") # 200 /\ Reply(c, use, "wrong") # 200
           /\ Emits(c, use) => Reply(c, use, "right") = 200
  <1>1. CASE ~Emits(c, use) BY <1>1 DEF Reply, Emits
  <1>2. CASE Emits(c, use)
    <2>1. EmitterIsValid(c, use) /\ c.credentials[use] \subseteq Parts
      BY DEF ValidateConfig, IsConfig
    <2>2. "token" \notin c.credentials[use] BY <1>2, <2>1 DEF EmitterIsValid
    <2>3. c.credentials[use] # {} => c.credentials[use] \cap {"username", "password"} # {}
      BY <2>1, <2>2 DEF Parts
    <2> QED BY <1>2, <2>3 DEF Reply, Emits
  <1> QED BY <1>1, <1>2
-----------------------------------------------------------------------------
(* The steps keep the invariant.                                           *)

\* Whatever main, the workers and the consumers do, the storage manager sees a
\* step of its own or none.
LEMMA StepsUseStorage == ASSUME IInv, [Next]_vars PROVE [StorageStep]_storageVars
  <1>1. CASE UNCHANGED vars BY <1>1 DEF vars
  <1>2. CASE StartStorage
    <2>1. definer.pc = "none" BY <1>2 DEF StartStorage, IInv, OwnInv, NothingRuns
    <2> QED BY <1>2, <2>1 DEF StartStorage, StorageStep
  <1>3. CASE StopStorage BY <1>3 DEF StopStorage, StorageStep
  <1>4. CASE Consume BY <1>4 DEF Consume, StorageStep
  <1>5. ASSUME NEW s \in Senders, Send(s) PROVE [StorageStep]_storageVars
    BY <1>5 DEF Send, StorageStep
  <1>6. CASE Load \/ TakeLiteral \/ RejectSpecifier \/ FetchSecret \/ SecretMissing \/ GiveUp
             \/ StartEndpoint \/ Run \/ StopCollectors \/ Exit \/ Signal
    BY <1>6 DEF Load, TakeLiteral, RejectSpecifier, FetchSecret, SecretMissing, GiveUp,
                StartEndpoint, Run, StopCollectors, Exit, Signal
  <1>7. ASSUME NEW s \in Senders, Collect(s) \/ SendOnClosed(s) PROVE UNCHANGED storageVars
    BY <1>7 DEF Collect, SendOnClosed
  <1> QED BY <1>1, <1>2, <1>3, <1>4, <1>5, <1>6, <1>7 DEF Next, Main

\* Initially nothing has been loaded.
LEMMA Initially == Init => IInv
  <1> SUFFICES ASSUME Init PROVE IInv
    OBVIOUS
  <1>1. StorageInv BY StorageInitially DEF Init
  <1>2. DOMAIN tickers = {} BY DEF Init
  <1>3. Types BY <1>2, StartConstants DEF Init, Types
  <1>4. NothingRuns /\ Accepted /\ ClosedAtTheEnd
    BY <1>2, StartConstants DEF Init, StorageInit, NothingRuns, Accepted, ClosedAtTheEnd
  <1>5. TickersArePaced /\ TickersAreUsable BY <1>2 DEF TickersArePaced, TickersAreUsable
  <1> QED BY <1>1, <1>3, <1>4, <1>5 DEF IInv, OwnInv

\* The start up to storage.
LEMMA StartKeeps ==
    ASSUME IInv,
           \/ Load \/ TakeLiteral \/ RejectSpecifier \/ FetchSecret \/ SecretMissing \/ GiveUp
           \/ StartStorage
    PROVE  OwnInv'
  <1>1. phase \in {"load", "secrets"} /\ DOMAIN tickers = {} /\ open
    BY DEF Load, TakeLiteral, RejectSpecifier, FetchSecret, SecretMissing, GiveUp, StartStorage,
           Resolving, IInv, OwnInv, NothingRuns, ClosedAtTheEnd
  <1>2. UNCHANGED <<open, tickers, stage>>
    BY DEF Load, TakeLiteral, RejectSpecifier, FetchSecret, SecretMissing, GiveUp, StartStorage,
           StartStoringMetrics, storageVars
  <1>3. TickersArePaced' /\ TickersAreUsable'
    BY <1>1, <1>2 DEF TickersArePaced, TickersAreUsable
  <1>4. phase' \in {"secrets", "starting", "fatal"}
    BY <1>1 DEF Load, TakeLiteral, RejectSpecifier, FetchSecret, SecretMissing, GiveUp, StartStorage,
           Resolving, Resolved, Fatal
  <1>5. ClosedAtTheEnd' BY <1>1, <1>2, <1>4 DEF ClosedAtTheEnd
  <1>6. Accepted' /\ next' \in 1..7 \cup 1..(Len(conf'.endpoints) + 1) /\ waited' \in 0..(Patience + 1)
    <2>1. CASE Load
      <3>1. next = 1 /\ waited \in 0..(Patience + 1) BY <2>1 DEF Load, IInv, OwnInv, NothingRuns, Types
      <3>2. UNCHANGED <<next, waited>> BY <2>1 DEF Load, Fatal
      <3>3. phase' = "fatal" \/ (IsConfig(conf') /\ ValidateConfig(conf'))
        BY <2>1, LoadedIsConfig DEF Load, Fatal
      <3> QED BY <3>1, <3>2, <3>3 DEF Accepted
    <2>2. CASE TakeLiteral \/ RejectSpecifier \/ FetchSecret \/ SecretMissing \/ GiveUp
      <3>1. phase = "secrets" /\ next \in 1..6 /\ UNCHANGED conf
        BY <2>2 DEF TakeLiteral, RejectSpecifier, FetchSecret, SecretMissing, GiveUp, Resolving,
                    Resolved, Fatal, Values
      <3>2. next' = next \/ next' = next + 1
        BY <2>2 DEF TakeLiteral, RejectSpecifier, FetchSecret, SecretMissing, GiveUp, Resolved, Fatal
      <3>3. waited' = waited \/ waited' = 0 \/ (waited <= Patience /\ waited' = waited + 1)
        BY <2>2 DEF TakeLiteral, RejectSpecifier, FetchSecret, SecretMissing, GiveUp, Resolved, Fatal
      <3>4. Accepted' BY <3>1 DEF IInv, OwnInv, Accepted
      <3>5. next' \in 1..7 BY <3>1, <3>2
      <3>6. waited' \in 0..(Patience + 1) BY <3>3, StartConstants DEF IInv, OwnInv, Types
      <3> QED BY <3>4, <3>5, <3>6
    <2>3. CASE StartStorage
      <3>1. phase = "secrets" /\ UNCHANGED <<conf, waited>> /\ (next' = next \/ next' = 1)
        BY <2>3 DEF StartStorage, Fatal
      <3> QED BY <3>1, StartConstants DEF IInv, OwnInv, Types, Accepted
    <2> QED BY <2>1, <2>2, <2>3
  <1>7. Types' BY <1>2, <1>4, <1>6 DEF IInv, OwnInv, Types
  <1>8. NothingRuns'
    <2>1. phase' = "secrets" => UNCHANGED definer
      BY <1>1 DEF Load, TakeLiteral, RejectSpecifier, FetchSecret, SecretMissing, GiveUp, StartStorage,
             Fatal, storageVars
    <2> QED BY <1>1, <1>2, <1>4, <2>1 DEF IInv, OwnInv, NothingRuns
  <1> QED BY <1>3, <1>5, <1>6, <1>7, <1>8 DEF OwnInv

\* The tickers of the configured endpoints: a valid endpoint gives a ticker that
\* is paced and whose collector can make its requests.
LEMMA EndpointsKeep == ASSUME IInv, StartEndpoint PROVE OwnInv'
  <1> DEFINE e == conf.endpoints[next]  id == <<e.type, e.url>>
  <1>1. /\ phase = "starting" /\ next \in DOMAIN conf.endpoints /\ next' = next + 1
        /\ UNCHANGED <<storageVars, phase, conf, values, waited, stage>>
        /\ tickers' = [x \in (DOMAIN tickers \ {id}) \cup (IF IsEnabled(e) THEN {id} ELSE {}) |->
                         IF x = id THEN CollectionInterval(e, conf) ELSE tickers[x]]
    BY DEF StartEndpoint
  <1>2. IsConfig(conf) /\ ValidateConfig(conf) /\ IsEndpoint(e) /\ ValidateEndpoint(e)
    BY <1>1 DEF IInv, OwnInv, Accepted, IsConfig, ValidateConfig
  <1> HIDE DEF e
  <1>3. /\ \A x \in DOMAIN tickers' : x # id => x \in DOMAIN tickers /\ tickers'[x] = tickers[x]
        /\ id \in DOMAIN tickers' => IsEnabled(e) /\ tickers'[id] = CollectionInterval(e, conf)
    BY <1>1
  <1>4. TickersArePaced'
    BY <1>1, <1>2, <1>3, IntervalIsPaced DEF IInv, OwnInv, TickersArePaced
  <1>5. TickersAreUsable'
    <2> SUFFICES ASSUME NEW x \in DOMAIN tickers'
                 PROVE  \E i \in DOMAIN conf.endpoints :
                            LET f == conf.endpoints[i] IN
                            /\ x = <<f.type, f.url>> /\ IsEnabled(f)
                            /\ HttpAuthHeader(f.credentials) =
                                    IF f.credentials = {} THEN ""
                                    ELSE IF "token" \in f.credentials THEN "Bearer" ELSE "Basic"
      BY <1>1 DEF TickersAreUsable
    <2>1. CASE x # id BY <1>3, <2>1 DEF IInv, OwnInv, TickersAreUsable
    <2>2. CASE x = id
      <3>1. HttpAuthHeader(e.credentials) = IF e.credentials = {} THEN ""
                ELSE IF "token" \in e.credentials THEN "Bearer" ELSE "Basic"
        BY <1>2, HeaderIsRight DEF IsEndpoint, ValidateEndpoint
      <3> QED BY <1>1, <1>3, <2>2, <3>1 DEF e
    <2> QED BY <2>1, <2>2
  <1>6. Types'
    <2>1. next \in 1..Len(conf.endpoints) /\ Len(conf.endpoints) \in Nat
      BY <1>1, <1>2 DEF IsConfig
    <2>2. next' \in 1..(Len(conf.endpoints) + 1) BY <1>1, <2>1
    <2>3. DOMAIN tickers' \subseteq Senders
      BY <1>2, <1>3 DEF IInv, OwnInv, Types, IsEndpoint
    <2> QED BY <1>1, <2>2, <2>3 DEF IInv, OwnInv, Types
  <1>7. open /\ open' = open BY <1>1 DEF IInv, OwnInv, ClosedAtTheEnd, storageVars
  <1>8. NothingRuns' /\ Accepted' /\ ClosedAtTheEnd'
    BY <1>1, <1>7 DEF IInv, OwnInv, NothingRuns, Accepted, ClosedAtTheEnd
  <1> QED BY <1>4, <1>5, <1>6, <1>8 DEF OwnInv

\* Later on the configuration and the place in it stay as they are, and the
\* tickers do so or are all stopped.
LEMMA LaterKeeps ==
    ASSUME IInv, phase \notin {"load", "secrets"}, phase' \notin {"load", "secrets"},
           phase' \in {"starting", "running", "stopping", "closed", "panicked", "exited", "fatal"},
           UNCHANGED <<conf, next, waited>>,
           phase = "fatal" => phase' = "fatal",
           stage' \in [Senders -> {"idle", "collected", "declare"}],
           tickers' = tickers \/ tickers' = << >>,
           phase' \in {"starting", "running", "stopping"} => open',
           ~open' \/ phase' = "panicked" => tickers' = << >>
    PROVE  OwnInv'
  <1>1. DOMAIN tickers' = {} \/ tickers' = tickers OBVIOUS
  <1>2. TickersArePaced' /\ TickersAreUsable' BY <1>1 DEF IInv, OwnInv, TickersArePaced, TickersAreUsable
  <1>3. Types' BY <1>1 DEF IInv, OwnInv, Types
  <1>4. NothingRuns' /\ Accepted' /\ ClosedAtTheEnd'
    BY DEF IInv, OwnInv, NothingRuns, Accepted, ClosedAtTheEnd
  <1> QED BY <1>2, <1>3, <1>4 DEF OwnInv

\* Every step keeps the invariant.
LEMMA StepKeeps == IInv /\ [Next]_vars => IInv'
  <1> SUFFICES ASSUME IInv, [Next]_vars PROVE OwnInv'
    BY StepsUseStorage, StorageStepKeeps DEF IInv
  <1>1. ASSUME UNCHANGED <<phase, conf, next, waited, tickers, stage, open>>,
               phase \notin {"load", "secrets"}
        PROVE  OwnInv'
    BY <1>1, LaterKeeps DEF IInv, OwnInv, Types, ClosedAtTheEnd
  <1>2. CASE UNCHANGED vars
    BY <1>2 DEF vars, startVars, storageVars, IInv, OwnInv, Types, NothingRuns, Accepted,
                ClosedAtTheEnd, TickersArePaced, TickersAreUsable
  <1>3. CASE \/ Load \/ TakeLiteral \/ RejectSpecifier \/ FetchSecret \/ SecretMissing \/ GiveUp
             \/ StartStorage
    BY <1>3, StartKeeps
  <1>4. CASE StartEndpoint BY <1>4, EndpointsKeep
  <1>5. CASE Run \/ Signal \/ Exit \/ StopCollectors \/ StopStorage
    <2>1. /\ UNCHANGED <<conf, next, waited, stage>>
          /\ phase \in {"starting", "running", "stopping", "closed"}
          /\ phase' \in {"running", "stopping", "closed", "exited"}
      BY <1>5 DEF Run, Signal, Exit, StopCollectors, StopStorage, startVars
    <2>2. \/ UNCHANGED <<tickers, open>>
          \/ UNCHANGED <<phase, open>> /\ tickers' = << >>
          \/ phase' = "closed" /\ tickers = << >> /\ UNCHANGED tickers
      BY <1>5 DEF Run, Signal, Exit, StopCollectors, StopStorage, storageVars, startVars
    <2>3. phase' \in {"running", "stopping"} => open' = open /\ phase \in {"starting", "running", "stopping"}
      BY <1>5 DEF Run, Signal, Exit, StopCollectors, StopStorage, storageVars, startVars
    <2> QED BY <2>1, <2>2, <2>3, LaterKeeps DEF IInv, OwnInv, Types, ClosedAtTheEnd
  <1>6. ASSUME NEW s \in Senders, Collect(s) \/ Send(s) \/ SendOnClosed(s) PROVE OwnInv'
    <2>1. phase \in {"starting", "running", "stopping", "closed"}
      BY <1>6 DEF Collect, Send, SendOnClosed, Alive
    <2>2. /\ UNCHANGED <<conf, next, waited, tickers, open>>
          /\ stage' \in [Senders -> {"idle", "collected", "declare"}]
      BY <1>6 DEF Collect, Send, SendOnClosed, SendMetrics, SendDefinitions, startVars, storageVars,
                  IInv, OwnInv, Types
    <2>3. phase' = phase \/ (phase' = "panicked" /\ ~open)
      BY <1>6 DEF Collect, Send, SendOnClosed, startVars
    <2> QED BY <2>1, <2>2, <2>3, LaterKeeps DEF IInv, OwnInv, Types, ClosedAtTheEnd
  <1>7. CASE Consume
    <2>1. UNCHANGED <<phase, conf, next, waited, tickers, stage, open>> /\ Alive
      BY <1>7 DEF Consume, startVars, Definer, ReceiveDefinitions, LookUp, Create, DeleteTag,
                  UpdateTags, Writer, ReceiveMetrics, WriteMetrics
    <2> QED BY <1>1, <2>1 DEF Alive
  <1> QED BY <1>2, <1>3, <1>4, <1>5, <1>6, <1>7 DEF Next, Main

\* The invariant holds throughout the agent's life.
LEMMA Invariant == Spec => []IInv
  BY Initially, StepKeeps, PTL DEF Spec
-----------------------------------------------------------------------------
(* Theorems.                                                               *)

\* The agent uses its storage manager as one that is started once and may then
\* be filled and stopped at any time (main, the workers of the collectors).
THEOREM LifecycleUsesStorage == Spec => StorageSpec
  <1>1. Init => StorageInit BY DEF Init
  <1>2. IInv /\ [Next]_vars => [StorageStep]_storageVars BY StepsUseStorage
  <1> QED BY <1>1, <1>2, Invariant, PTL DEF Spec, StorageSpec

\* So what MetricsStorageProofs proves of it holds in the agent's life
\* (consumeMetricDefinitions, consumeMetrics).
THEOREM StorageInLifecycle == Spec => []AsSentLast /\ []OneTenantPerSender /\ KeepsTagsInUse
  BY LifecycleUsesStorage, DefinitionsAreAsSentLast, TenantsStayApart, TagsInUseAreKept, PTL

\* No queue exceeds its channel, every goroutine is where it can be, a ticker
\* has a worker, and the places main counts stay within what it counts.
THEOREM LifecycleTypeCorrect == Spec => []TypeOK
  <1>1. IInv => TypeOK
    BY DEF IInv, OwnInv, Types, StorageInv, Channels, Working, Writing, KnownIds, TypeOK
  <1> QED BY <1>1, Invariant, PTL

\* No ticker is faster than the configured minimum, nor than five seconds
\* (validateConfig, StartCollecting).
THEOREM TickersArePacedHolds == Spec => []TickersArePaced
  <1>1. IInv => TickersArePaced BY DEF IInv, OwnInv
  <1> QED BY <1>1, Invariant, PTL

\* A ticker runs only for an enabled endpoint of the configuration, and with
\* credentials its collector makes a request with (ValidateEndpoint).
THEOREM TickersAreUsableHolds == Spec => []TickersAreUsable
  <1>1. IInv => TickersAreUsable BY DEF IInv, OwnInv
  <1> QED BY <1>1, Invariant, PTL

\* Credentials of the emitter that were accepted guard what it emits, and let
\* those who have them read it (validateConfig, StartEmitter).
THEOREM EmitterIsGuardedHolds == Spec => []EmitterIsGuarded
  <1>1. IInv => EmitterIsGuarded
    BY RepliesAreGuarded DEF IInv, OwnInv, Accepted, EmitterIsGuarded
  <1> QED BY <1>1, Invariant, PTL

\* The agent panics on a closed channel only when no ticker is left (main).
THEOREM PanicsOnlyAtTheEndHolds == Spec => []PanicsOnlyAtTheEnd
  <1>1. IInv => PanicsOnlyAtTheEnd BY DEF IInv, OwnInv, ClosedAtTheEnd, PanicsOnlyAtTheEnd
  <1> QED BY <1>1, Invariant, PTL
=============================================================================
