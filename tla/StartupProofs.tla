---------------------------- MODULE StartupProofs ----------------------------
(***************************************************************************)
(* A process serves only when it is ready, and gives back what it opened   *)
(* to load its configuration, whatever fails and whatever is configured.   *)
(***************************************************************************)
EXTENDS Startup, FiniteSetTheorems, TLAPS

(* The first n of the parameters, in the order they are rendered in.       *)
First(n) == {Names[i] : i \in 1 .. n}

(* What is read at each point of the loading.                              *)
ReadSoFar ==
    /\ pc \in {"awsSecret", "access"} => DOMAIN params = Parameters
    /\ pc \in {"load", "gcp", "openParameters", "openSecrets"} =>
           DOMAIN params = {}
    /\ pc = "render" => \E n \in 0 .. 4 : DOMAIN params = First(n)

TypeInv == TypeOK /\ ReadSoFar

-----------------------------------------------------------------------------
LEMMA ParameterNames ==
    /\ Parameters = First(5)
    /\ \A i \in 1 .. 5 : Names[i] \in Parameters
    /\ First(0) = {}
  BY DEF Parameters, Names, First

(* RenderParameter counts what it has read to find the next name.          *)
LEMMA FirstCount ==
    ASSUME NEW n \in 0 .. 4
    PROVE  /\ Cardinality(First(n)) = n
           /\ First(n) \cup {Names[n + 1]} = First(n + 1)
  <1>1. /\ Names[1] = "db-host"
        /\ Names[2] = "db-port"
        /\ Names[3] = "db-name"
        /\ Names[4] = "firebase-credentials"
        /\ Names[5] = "rds-secret-arn"
    BY DEF Names
  <1>2. \A k \in 0 .. 4 : First(k) \cup {Names[k + 1]} = First(k + 1)
    <2> SUFFICES ASSUME NEW k \in 0 .. 4
                 PROVE  First(k) \cup {Names[k + 1]} = First(k + 1)
      OBVIOUS
    <2>1. 1 .. (k + 1) = (1 .. k) \cup {k + 1}
      OBVIOUS
    <2>2. QED
      BY <2>1 DEF First
  <1>3. \A k \in 0 .. 3 : Names[k + 1] \notin First(k)
    BY <1>1 DEF First
  <1>4. Cardinality(First(0)) = 0 /\ IsFiniteSet(First(0))
    BY ParameterNames, FS_EmptySet
  <1>5. ASSUME NEW k \in 0 .. 3, IsFiniteSet(First(k)), Cardinality(First(k)) = k
        PROVE  IsFiniteSet(First(k + 1)) /\ Cardinality(First(k + 1)) = k + 1
    <2>1. First(k) \cup {Names[k + 1]} = First(k + 1) /\ Names[k + 1] \notin First(k)
      BY <1>2, <1>3
    <2>2. /\ IsFiniteSet(First(k) \cup {Names[k + 1]})
          /\ Cardinality(First(k) \cup {Names[k + 1]}) =
                 IF Names[k + 1] \in First(k) THEN Cardinality(First(k))
                                              ELSE Cardinality(First(k)) + 1
      BY <1>5, FS_AddElement
    <2>3. QED
      BY <1>5, <2>1, <2>2
  <1>6. IsFiniteSet(First(1)) /\ Cardinality(First(1)) = 1
    BY <1>4, <1>5
  <1>7. IsFiniteSet(First(2)) /\ Cardinality(First(2)) = 2
    BY <1>5, <1>6
  <1>8. IsFiniteSet(First(3)) /\ Cardinality(First(3)) = 3
    BY <1>5, <1>7
  <1>9. IsFiniteSet(First(4)) /\ Cardinality(First(4)) = 4
    BY <1>5, <1>8
  <1>10. QED
    BY <1>2, <1>4, <1>6, <1>7, <1>8, <1>9

-----------------------------------------------------------------------------
LEMMA TypeInit == Init => TypeInv
  <1> SUFFICES ASSUME Init PROVE TypeInv
    OBVIOUS
  <1>1. DOMAIN params = {}
    BY DEF Init
  <1>2. TypeOK
    BY <1>1 DEF Init, TypeOK, Phases, LoadPhases
  <1>3. ReadSoFar
    BY <1>1 DEF Init, ReadSoFar
  <1>4. QED
    BY <1>2, <1>3 DEF TypeInv

(* The process ends, by itself or not.                                     *)
LEMMA ExitTypes ==
    ASSUME TypeOK, NEW how \in {"fatal", "panic", "clean", "killed"}, Exit(how)
    PROVE  /\ pc' = "exited"
           /\ exit' \in {"none", "fatal", "panic", "clean", "killed"}
           /\ requests' \in [Requests -> {"none", "handling", "answered", "cut"}]
  BY DEF TypeOK, Exit

ConfigOf(parameters, secret) ==
    [host |-> parameters["db-host"], port |-> parameters["db-port"],
     user |-> secret.user, password |-> secret.password,
     name |-> parameters["db-name"], ssl |-> "require", creds |-> "good"]

LEMMA ConfigTypes ==
    ASSUME TypeOK, DOMAIN params = Parameters,
           NEW secret \in [user : Values, password : Values]
    PROVE  ConfigOf(params, secret) \in Configs
  <1>1. \A n \in {"db-host", "db-port", "db-name"} : params[n] \in Values
    BY DEF TypeOK, Parameters, Names
  <1>2. QED
    BY <1>1 DEF ConfigOf, Configs

LEMMA LoadTypes ==
    ASSUME TypeInv, Loading
    PROVE  TypeInv'
  <1>0. TypeOK /\ ReadSoFar
    BY DEF TypeInv
  <1>1. CASE Load \/ LoadAwsConfig \/ GcpEnvironment
    <2>1. \/ Refuse
          \/ /\ UNCHANGED <<exit, serving>>
             /\ \/ pc' \in {"env", "aws", "ssm"}
                \/ pc' = "gcp" /\ pc = "load"
                \/ pc' = "openParameters" /\ pc = "gcp"
      BY <1>1 DEF Load, LoadAwsConfig, GcpEnvironment, Continue
    <2>2. UNCHANGED <<process, loading, database, fcm, stopping>>
      BY <1>1 DEF Load, LoadAwsConfig, GcpEnvironment
    <2>3. TypeOK'
      <3>1. /\ pc' \in Phases
            /\ exit' \in {"none", "fatal", "panic", "clean", "killed"}
            /\ listener' = listener
            /\ requests' \in [Requests -> {"none", "handling", "answered", "cut"}]
        <4>1. CASE Refuse
          BY <1>0, <4>1, ExitTypes DEF Refuse, Phases
        <4>2. CASE ~Refuse
          BY <1>0, <2>1, <4>2 DEF TypeOK, serving, Phases, LoadPhases,
                                  GcpPhases
        <4>3. QED
          BY <4>1, <4>2
      <3>2. QED
        BY <1>0, <2>2, <3>1 DEF TypeOK, process, database, loading, stopping
    <2>4. ReadSoFar'
      BY <1>0, <2>1, <2>2, ExitTypes DEF ReadSoFar, Refuse, Exit, loading
    <2>5. QED
      BY <2>3, <2>4 DEF TypeInv
  <1>2. CASE LoadEnv
    <2>1. cfg' \in Configs \cup {NoConfig}
      BY <1>0, <1>2 DEF LoadEnv, TypeOK, Configs
    <2>2. TypeOK'
      BY <1>0, <1>2, <2>1, ExitTypes
         DEF TypeOK, LoadEnv, Continue, process, database, serving, stopping,
             Phases, LoadPhases
    <2>3. ReadSoFar'
      BY <1>2 DEF ReadSoFar, LoadEnv, Continue, Exit
    <2>4. QED
      BY <2>2, <2>3 DEF TypeInv
  <1>3. CASE GetParameters
    <2>1. \/ params' \in [Parameters -> Values] /\ pc' = "awsSecret"
          \/ params' = params /\ pc' = "exited"
      BY <1>3 DEF GetParameters, Continue, Refuse, Exit
    <2>2. /\ DOMAIN params' \subseteq Parameters
          /\ \A n \in DOMAIN params' : params'[n] \in Values
      BY <1>0, <2>1 DEF TypeOK
    <2>3. TypeOK'
      BY <1>0, <1>3, <2>2, ExitTypes
         DEF TypeOK, GetParameters, Continue, Refuse, process, database,
             serving, stopping, Phases, LoadPhases
    <2>4. ReadSoFar'
      BY <2>1 DEF ReadSoFar
    <2>5. QED
      BY <2>3, <2>4 DEF TypeInv
  <1>4. CASE GetSecretValue
    <2>1. cfg' \in Configs \cup {NoConfig}
      BY <1>0, <1>4, ConfigTypes
         DEF GetSecretValue, ReadSoFar, RdsSecrets, ConfigOf, TypeOK
    <2>2. TypeOK'
      BY <1>0, <1>4, <2>1, ExitTypes
         DEF TypeOK, GetSecretValue, Continue, Refuse, process, database,
             serving, stopping, Phases, LoadPhases
    <2>3. ReadSoFar'
      BY <1>4 DEF ReadSoFar, GetSecretValue, Continue, Refuse, Exit
    <2>4. QED
      BY <2>2, <2>3 DEF TypeInv
  <1>5. CASE OpenParameters \/ OpenSecrets
    <2>1. /\ pc \in {"openParameters", "openSecrets"}
          /\ pc' \in {"openSecrets", "render", "closeParameters", "exited"}
          /\ params' = params
          /\ clients' \in [GcpClients -> {"none", "open", "closed"}]
          /\ failed' \in BOOLEAN
      BY <1>0, <1>5
         DEF OpenParameters, OpenSecrets, Continue, Refuse, Exit, TypeOK
    <2>2. TypeOK'
      BY <1>0, <1>5, <2>1, ExitTypes
         DEF TypeOK, OpenParameters, OpenSecrets, Continue, Refuse, process,
             database, serving, stopping, Phases, LoadPhases, GcpPhases
    <2>3. DOMAIN params' = First(0)
      BY <1>0, <2>1, ParameterNames DEF ReadSoFar
    <2>4. ReadSoFar'
      BY <2>1, <2>3, ParameterNames DEF ReadSoFar
    <2>5. QED
      BY <2>2, <2>4 DEF TypeInv
  <1>6. CASE RenderParameter
    <2>1. PICK n \in 0 .. 4 : DOMAIN params = First(n)
      BY <1>0, <1>6 DEF RenderParameter, ReadSoFar
    <2> DEFINE name == Names[n + 1]
               read == First(n + 1)
    <2>2. /\ Names[Cardinality(DOMAIN params) + 1] = name
          /\ DOMAIN params \cup {name} = read
          /\ name \in Parameters
          /\ read \subseteq Parameters
      BY <1>0, <2>1, FirstCount, ParameterNames DEF TypeOK
    <2>3. \/ /\ \E value \in Values :
                   params' = [k \in read |->
                                 IF k = name THEN value ELSE params[k]]
             /\ pc' = IF read = Parameters THEN "access" ELSE "render"
          \/ params' = params /\ pc' = "closeSecrets"
      BY <1>6, <2>2 DEF RenderParameter, Continue
    <2>4. /\ DOMAIN params' \subseteq Parameters
          /\ \A k \in DOMAIN params' : params'[k] \in Values
      BY <1>0, <2>2, <2>3 DEF TypeOK
    <2>5. /\ UNCHANGED <<exit, serving, process, clients, cfg, database, fcm,
                    stopping>>
          /\ failed' \in BOOLEAN
          /\ pc' \in {"access", "render", "closeSecrets"}
      BY <1>0, <1>6, <2>3 DEF RenderParameter, Continue, TypeOK
    <2>6. TypeOK'
      BY <1>0, <2>4, <2>5
         DEF TypeOK, process, database, serving, stopping, Phases, LoadPhases,
             GcpPhases
    <2>7. ReadSoFar'
      <3>1. CASE pc' = "closeSecrets"
        BY <3>1 DEF ReadSoFar
      <3>2. CASE read = Parameters /\ DOMAIN params' = read /\ pc' = "access"
        BY <3>2 DEF ReadSoFar
      <3>3. CASE read # Parameters /\ DOMAIN params' = read /\ pc' = "render"
        <4>1. n + 1 \in 0 .. 4
          BY <3>3, ParameterNames
        <4>2. QED
          BY <3>3, <4>1 DEF ReadSoFar
      <3>4. QED
        BY <2>3, <3>1, <3>2, <3>3
    <2>8. QED
      BY <2>6, <2>7 DEF TypeInv
  <1>7. CASE AccessSecret
    <2>1. cfg' \in Configs \cup {NoConfig}
      <3>1. PostgresSecrets \subseteq [user : Values, password : Values]
        BY DEF PostgresSecrets, Whole, Values
      <3>2. QED
        BY <1>0, <1>7, <3>1, ConfigTypes
           DEF AccessSecret, ReadSoFar, ConfigOf, TypeOK
    <2>2. TypeOK'
      <3>1. /\ UNCHANGED <<exit, serving, process, params, clients, database,
                           fcm, stopping>>
            /\ pc' = "closeSecrets"
            /\ failed' \in BOOLEAN
        BY <1>0, <1>7 DEF TypeOK, AccessSecret, Continue
      <3>2. QED
        BY <1>0, <2>1, <3>1
           DEF TypeOK, process, database, serving, stopping, Phases,
               LoadPhases, GcpPhases
    <2>3. ReadSoFar'
      BY <1>7 DEF ReadSoFar, AccessSecret, Continue
    <2>4. QED
      BY <2>2, <2>3 DEF TypeInv
  <1>8. CASE CloseSecrets \/ CloseParameters
    <2>1. /\ pc' \in {"closeParameters", "pool", "exited"}
          /\ clients' \in [GcpClients -> {"none", "open", "closed"}]
          /\ failed' \in BOOLEAN
      BY <1>0, <1>8
         DEF CloseSecrets, CloseParameters, Continue, Refuse, Exit, TypeOK
    <2>2. TypeOK'
      <3>1. /\ UNCHANGED <<process, params, cfg, database, fcm, stopping>>
            /\ UNCHANGED <<exit, serving>> \/ Refuse
        BY <1>8 DEF CloseSecrets, CloseParameters, Continue
      <3>2. /\ exit' \in {"none", "fatal", "panic", "clean", "killed"}
            /\ listener' = listener
            /\ requests' \in [Requests -> {"none", "handling", "answered", "cut"}]
        BY <1>0, <3>1, ExitTypes DEF TypeOK, Refuse, serving
      <3>3. QED
        BY <1>0, <2>1, <3>1, <3>2
           DEF TypeOK, process, database, stopping, Phases, LoadPhases,
               GcpPhases
    <2>3. ReadSoFar'
      BY <2>1 DEF ReadSoFar
    <2>4. QED
      BY <2>2, <2>3 DEF TypeInv
  <1>9. QED
    BY <1>1, <1>2, <1>3, <1>4, <1>5, <1>6, <1>7, <1>8 DEF Loading

LEMMA ServeTypes ==
    ASSUME TypeInv, pc = "pool" => cfg \in Configs,
           \/ NewPool \/ PingAnswered \/ PingTimesOut \/ NewClient \/ Listen
           \/ ListenerBreaks \/ (\E r \in Requests : Accept(r) \/ Answer(r))
           \/ Stopping \/ Terminate \/ Kill
    PROVE  TypeInv'
  <1>0. TypeOK /\ ReadSoFar
    BY DEF TypeInv
  <1>1. CASE NewPool \/ PingAnswered \/ PingTimesOut \/ NewClient
    <2>0. pc = "pool" => ToldSslModes \subseteq {"disable", "require", "prefer"}
      BY DEF ToldSslModes, Configs
    <2>1. TypeOK'
      BY <1>0, <1>1, <2>0, ExitTypes
         DEF NewPool, PingAnswered, PingTimesOut, NewClient, Continue, Refuse,
             TypeOK, process, loading, database, serving,
             stopping, Phases
    <2>2. ReadSoFar'
      BY <1>1 DEF NewPool, PingAnswered, PingTimesOut, NewClient, Continue,
                  Refuse, Exit, ReadSoFar
    <2>3. QED
      BY <2>1, <2>2 DEF TypeInv
  <1>2. CASE \/ Listen \/ ListenerBreaks \/ ShutdownDeadline
             \/ \E r \in Requests : Accept(r) \/ Answer(r)
    <2>1. /\ UNCHANGED <<process, pc, exit, loading, database, fcm>>
          /\ listener' \in {"none", "open", "failed", "closed"}
          /\ requests' \in [Requests -> {"none", "handling", "answered", "cut"}]
          /\ signalled' \in BOOLEAN
          /\ late' \in BOOLEAN
      BY <1>0, <1>2
         DEF Listen, ListenerBreaks, ShutdownDeadline, Accept, Answer, TypeOK,
             serving, stopping
    <2>2. QED
      BY <1>0, <2>1 DEF TypeInv, TypeOK, ReadSoFar, process, database, loading
  <1>3. CASE BeginShutdown
    BY <1>0, <1>3
       DEF BeginShutdown, TypeInv, TypeOK, ReadSoFar, process, database,
           loading, stopping, Phases
  <1>4. CASE ServerFails \/ ShutdownReturns \/ Terminate \/ Kill
    <2>1. TypeOK'
      <3>1. /\ UNCHANGED <<process, loading, database, fcm, listener, late>>
            /\ signalled' \in BOOLEAN
        BY <1>0, <1>4
           DEF ServerFails, ShutdownReturns, Terminate, Kill, Refuse, stopping,
               TypeOK
      <3>2. \/ UNCHANGED <<pc, exit, requests>>
            \/ \E how \in {"fatal", "panic", "clean", "killed"} : Exit(how)
        BY <1>4 DEF ServerFails, ShutdownReturns, Terminate, Kill, Refuse
      <3>3. /\ pc' \in Phases
            /\ exit' \in {"none", "fatal", "panic", "clean", "killed"}
            /\ requests' \in [Requests -> {"none", "handling", "answered", "cut"}]
        BY <1>0, <3>2, ExitTypes DEF TypeOK, Phases
      <3>4. QED
        BY <1>0, <3>1, <3>3 DEF TypeOK, process, database, loading
    <2>2. ReadSoFar'
      BY <1>0, <1>4
         DEF ServerFails, ShutdownReturns, Terminate, Kill, Refuse, Exit,
             ReadSoFar, loading
    <2>3. QED
      BY <2>1, <2>2 DEF TypeInv
  <1>5. QED
    BY <1>1, <1>2, <1>3, <1>4 DEF Stopping

-----------------------------------------------------------------------------
Deployed == appEnv \in {"staging", "production"}

(* What the checks of Load make sure of.                                   *)
Configured ==
    /\ ~failed
    /\ cfg \in Configs
    /\ Deployed => cfg.ssl = "require" /\ cfg.creds = "good"
    /\ appEnv = "production" => cfg.port = "good" /\ cfg.user # "blank"

Checked(config) ==
    /\ config \in Configs
    /\ config.ssl = "require"
    /\ config.creds = "good"
    /\ config.port = "good"
    /\ config.user # "blank"

(* sslmode is not lost behind a name that takes nothing for its own.       *)
Told == cfg.name = "good" => sslmode = cfg.ssl

Up == {"serve", "shutdown"}

Begun == listener # "none" \/ \E r \in Requests : requests[r] # "none"

(* What the steps so far have established.                                 *)
ReadyInv ==
    /\ pc \in {"load", "env", "aws", "ssm", "awsSecret"} => ~failed
    /\ pc = "env" => ~Deployed
    /\ pc \in {"aws", "ssm", "awsSecret"} => appEnv # "production"
    /\ pc \in {"closeSecrets", "closeParameters"} => failed \/ Checked(cfg)
    /\ pc \in {"pool", "ping", "credentials"} \cup Up => Configured
    /\ pc \in {"ping", "credentials"} \cup Up => Told
    /\ pc \in {"credentials"} \cup Up => pool = "connected"
    /\ pc \in Up => fcm = "ready"
    /\ Begun => /\ pc \in Up \cup {"exited"}
                /\ Configured
                /\ Told
                /\ pool = "connected"
                /\ fcm = "ready"

LEMMA ReadyNext ==
    ASSUME TypeInv, ReadyInv, [Next]_vars
    PROVE  ReadyInv'
  <1>0. requests \in [Requests -> {"none", "handling", "answered", "cut"}]
    BY DEF TypeInv, TypeOK
  <1>1. ASSUME pc \notin Up \cup {"exited"}, listener' = listener,
               requests' = requests \/ (\E how : Exit(how))
        PROVE  ~Begun'
    BY <1>0, <1>1 DEF ReadyInv, Begun, Exit
  <1>2. CASE Loading
    <2>1. /\ pc \in LoadPhases
          /\ listener' = listener
          /\ requests' = requests \/ (\E how : Exit(how))
          /\ appEnv' = appEnv
      BY <1>2
         DEF Loading, Load, LoadEnv, LoadAwsConfig, GetParameters,
             GetSecretValue, GcpEnvironment, OpenParameters, OpenSecrets,
             RenderParameter, AccessSecret, CloseSecrets, CloseParameters,
             Continue, Refuse, serving, process, LoadPhases, GcpPhases
    <2>2. ~Begun'
      BY <1>1, <2>1 DEF LoadPhases, GcpPhases, Up
    <2>3. ASSUME pc' \notin {"closeSecrets", "closeParameters", "pool", "ping",
                             "credentials"} \cup Up,
                 pc' \in {"load", "env", "aws", "ssm", "awsSecret"} => ~failed',
                 pc' = "env" => ~Deployed',
                 pc' \in {"aws", "ssm", "awsSecret"} => appEnv' # "production"
          PROVE  ReadyInv'
      BY <2>2, <2>3 DEF ReadyInv
    <2>4. CASE Load \/ LoadAwsConfig \/ GcpEnvironment \/ GetParameters
      BY <2>3, <2>4
         DEF Load, LoadAwsConfig, GcpEnvironment, GetParameters, Continue,
             Refuse, Exit, loading, process, ReadyInv, Up, Deployed
    <2>5. CASE LoadEnv \/ GetSecretValue
      <3>1. /\ pc' \in {"pool", "exited"}
            /\ failed' = failed
            /\ pc \in {"env", "awsSecret"}
        BY <2>5 DEF LoadEnv, GetSecretValue, Continue, Refuse, Exit
      <3>2. pc' = "pool" => Configured'
        <4>1. CASE LoadEnv
          <5>1. pc' = "pool" => cfg' \in Configs
            BY <4>1 DEF LoadEnv, Exit, Configs
          <5>2. ~Deployed' /\ ~failed'
            BY <2>1, <3>1, <4>1 DEF LoadEnv, ReadyInv, Deployed
          <5>3. QED
            BY <5>1, <5>2 DEF Configured, Deployed
        <4>2. CASE GetSecretValue
          <5>1. pc' = "pool" =>
                    /\ cfg' \in Configs
                    /\ cfg'.ssl = "require"
                    /\ cfg'.creds = "good"
            BY <4>2, ConfigTypes
               DEF GetSecretValue, Refuse, Exit, TypeInv, ReadSoFar, RdsSecrets,
                   ConfigOf
          <5>2. appEnv' # "production" /\ ~failed'
            BY <2>1, <3>1, <4>2 DEF GetSecretValue, ReadyInv
          <5>3. QED
            BY <5>1, <5>2 DEF Configured
        <4>3. QED
          BY <2>5, <4>1, <4>2
      <3>3. QED
        BY <2>2, <3>1, <3>2 DEF ReadyInv, Up
    <2>6. CASE OpenParameters
      BY <2>3, <2>6 DEF OpenParameters, Continue, Refuse, Exit, Up
    <2>7. CASE OpenSecrets \/ RenderParameter
      <3>1. \/ pc' \in {"render", "access"}
            \/ pc' \in {"closeSecrets", "closeParameters"} /\ failed'
        BY <2>7 DEF OpenSecrets, RenderParameter, Continue
      <3>2. QED
        BY <2>2, <3>1 DEF ReadyInv, Up
    <2>8. CASE AccessSecret
      <3>1. pc' = "closeSecrets" /\ (failed' \/ Checked(cfg'))
        <4>1. DOMAIN params = Parameters /\ TypeOK
          BY <2>8 DEF AccessSecret, TypeInv, ReadSoFar
        <4>2. ASSUME NEW secret \in PostgresSecrets, params["db-port"] = "good"
              PROVE  Checked(ConfigOf(params, secret))
          <5>1. /\ secret \in [user : Values, password : Values]
                /\ secret.user # "blank"
            BY DEF PostgresSecrets, Whole, Values
          <5>2. QED
            BY <4>1, <4>2, <5>1, ConfigTypes DEF Checked, ConfigOf
        <4>3. QED
          BY <2>8, <4>2 DEF AccessSecret, Continue, ConfigOf
      <3>2. QED
        BY <2>2, <3>1 DEF ReadyInv, Up
    <2>9. CASE CloseSecrets \/ CloseParameters
      <3>1. /\ pc' \in {"closeParameters", "pool", "exited"}
            /\ cfg' = cfg
            /\ failed' \/ failed' = failed
            /\ pc' = "pool" => ~failed'
            /\ failed \/ Checked(cfg)
        BY <2>9 DEF CloseSecrets, CloseParameters, Continue, Refuse, Exit,
                    ReadyInv, TypeInv, TypeOK
      <3>2. QED
        BY <2>2, <3>1 DEF ReadyInv, Up, Configured, Checked
    <2>10. QED
      BY <1>2, <2>4, <2>5, <2>6, <2>7, <2>8, <2>9 DEF Loading
  <1>3. CASE NewPool \/ PingAnswered \/ PingTimesOut \/ NewClient
    <2>1. /\ listener' = listener
          /\ requests' = requests \/ (\E how : Exit(how))
          /\ UNCHANGED <<appEnv, cfg, failed>>
          /\ pc \in {"pool", "ping", "credentials"}
          /\ pc' \in {"ping", "credentials", "serve", "exited"}
      BY <1>3 DEF NewPool, PingAnswered, PingTimesOut, NewClient, Continue,
                  Refuse, Exit, serving, process, loading
    <2>2. ~Begun'
      BY <1>1, <2>1 DEF Up
    <2>3. Configured'
      BY <2>1 DEF ReadyInv, Configured, Deployed
    <2>4. /\ pc' \in {"ping", "credentials", "serve"} => Told'
          /\ pc' \in {"credentials", "serve"} => pool' = "connected"
          /\ pc' = "serve" => fcm' = "ready"
      BY <1>3, <2>1
         DEF NewPool, PingAnswered, PingTimesOut, NewClient, Continue, Refuse,
             Exit, ReadyInv, Told, ToldSslModes, database
    <2>5. QED
      BY <2>1, <2>2, <2>3, <2>4 DEF ReadyInv, Up
  <1>4. ASSUME UNCHANGED <<process, loading, database, fcm>>,
               pc' = pc \/ pc' = "exited" \/ (pc \in Up /\ pc' \in Up),
               Begun' => Begun \/ pc \in Up
        PROVE  ReadyInv'
    <2>1. /\ Deployed' = Deployed
          /\ Configured' = Configured
          /\ Told' = Told
          /\ UNCHANGED <<appEnv, pool, fcm, failed, cfg>>
      BY <1>4 DEF process, loading, database, Deployed, Configured, Told
    <2>2. QED
      BY <1>4, <2>1 DEF ReadyInv, Up
  <1>5. CASE Listen \/ ListenerBreaks \/ BeginShutdown \/ ShutdownDeadline
             \/ (\E r \in Requests : Accept(r) \/ Answer(r))
    <2>1. /\ UNCHANGED <<process, loading, database, fcm>>
          /\ pc' = pc \/ (pc \in Up /\ pc' \in Up)
          /\ Begun \/ pc \in Up \/ UNCHANGED <<listener, requests>>
      BY <1>5 DEF Listen, ListenerBreaks, BeginShutdown, ShutdownDeadline,
                  Accept, Answer, Begun, Up, serving
    <2>2. QED
      BY <1>4, <2>1 DEF Begun
  <1>6. CASE ServerFails \/ ShutdownReturns \/ Terminate \/ Kill
    <2>1. /\ UNCHANGED <<process, loading, database, fcm, listener>>
          /\ UNCHANGED <<pc, requests>> \/ \E how : Exit(how)
      BY <1>6 DEF ServerFails, ShutdownReturns, Terminate, Kill, Refuse
    <2>2. Begun' => Begun
      BY <1>0, <2>1 DEF Begun, Exit
    <2>3. QED
      BY <1>4, <2>1, <2>2 DEF Exit
  <1>7. CASE UNCHANGED vars
    BY <1>4, <1>7 DEF vars, serving, Begun
  <1>8. QED
    BY <1>2, <1>3, <1>5, <1>6, <1>7 DEF Next, Stopping

LEMMA Invariant == Spec => [](TypeInv /\ ReadyInv)
  <1>1. Init => ReadyInv
    BY DEF Init, ReadyInv, Begun, Up
  <1>2. TypeInv /\ ReadyInv /\ [Next]_vars => TypeInv'
    <2>1. CASE UNCHANGED vars
      BY <2>1 DEF TypeInv, TypeOK, ReadSoFar, vars, process, database, loading,
                  serving, stopping
    <2>2. ReadyInv => (pc = "pool" => cfg \in Configs)
      BY DEF ReadyInv, Configured
    <2>3. QED
      BY <2>1, <2>2, LoadTypes, ServeTypes DEF Next
  <1>3. TypeInv /\ ReadyInv /\ [Next]_vars => ReadyInv'
    BY ReadyNext
  <1>4. QED
    BY <1>1, <1>2, <1>3, TypeInit, PTL DEF Spec

LEMMA TypeInvariant == Spec => []TypeInv
  BY Invariant, PTL

(* The type invariant of a process; that RenderParameter always finds a    *)
(* name to read next is part of it.                                        *)
THEOREM StartupTypes == Spec => []TypeOK
  <1>1. TypeInv => TypeOK
    BY DEF TypeInv
  <1>2. QED
    BY <1>1, TypeInvariant, PTL

(* Whatever was configured and whatever failed, a process that handles     *)
(* requests has a configuration that Load checked, a database that has     *)
(* answered, TLS wherever it is deployed and the database has a name, and  *)
(* Firebase credentials.                                                   *)
THEOREM ReadyBeforeHandling == Spec => []HandlesWhenReady
  <1>1. ReadyInv => HandlesWhenReady
    BY DEF ReadyInv, HandlesWhenReady, Begun, Configured, Told, Deployed
  <1>2. QED
    BY <1>1, Invariant, PTL

-----------------------------------------------------------------------------
(* A process that ended handles nothing, and its end is final.             *)
Ended ==
    /\ pc # "exited" => exit = "none"
    /\ pc = "exited" => \A r \in Requests : requests[r] # "handling"

LEMMA EndedNext ==
    ASSUME TypeInv, Ended, [Next]_vars
    PROVE  Ended'
  <1>0. requests \in [Requests -> {"none", "handling", "answered", "cut"}]
    BY DEF TypeInv, TypeOK
  <1>1. ASSUME NEW how, Exit(how)
        PROVE  Ended'
    BY <1>0, <1>1 DEF Exit, Ended
  <1>2. ASSUME pc # "exited", pc' # "exited", exit' = exit
        PROVE  Ended'
    BY <1>2 DEF Ended
  <1>3. CASE Loading
    BY <1>1, <1>2, <1>3
       DEF Loading, Load, LoadEnv, LoadAwsConfig, GetParameters,
           GetSecretValue, GcpEnvironment, OpenParameters, OpenSecrets,
           RenderParameter, AccessSecret, CloseSecrets, CloseParameters,
           Refuse, Continue
  <1>4. CASE \/ NewPool \/ PingAnswered \/ PingTimesOut \/ NewClient
             \/ ServerFails \/ BeginShutdown \/ ShutdownReturns \/ Kill
    BY <1>1, <1>2, <1>4
       DEF NewPool, PingAnswered, PingTimesOut, NewClient, ServerFails,
           BeginShutdown, ShutdownReturns, Kill, Refuse, Continue
  <1>5. CASE Terminate
    BY <1>1, <1>2, <1>5 DEF Terminate
  <1>6. CASE \/ Listen \/ ListenerBreaks \/ ShutdownDeadline \/ UNCHANGED vars
             \/ \E r \in Requests : Accept(r) \/ Answer(r)
    <2>1. pc' = pc /\ exit' = exit
      BY <1>6 DEF Listen, ListenerBreaks, ShutdownDeadline, Accept, Answer,
                  vars
    <2>2. pc = "exited" => \A r \in Requests : requests'[r] # "handling"
      BY <1>0, <1>6
         DEF Ended, Listen, ListenerBreaks, ShutdownDeadline, Accept, Answer,
             serving, vars
    <2>3. QED
      BY <2>1, <2>2 DEF Ended
  <1>7. QED
    BY <1>3, <1>4, <1>5, <1>6 DEF Next, Stopping

LEMMA EndedInvariant == Spec => [](TypeInv /\ Ended)
  <1>1. Init => Ended
    BY DEF Init, Ended
  <1>2. TypeInv /\ Ended /\ [Next]_vars => Ended'
    BY EndedNext
  <1>3. QED
    BY <1>1, <1>2, TypeInvariant, PTL DEF Spec

-----------------------------------------------------------------------------
Shut(c) == clients[c] # "open"

(* Which of the clients are open at each point of loadGCPWithFactories.    *)
ClientsHeld ==
    /\ pc \in {"openSecrets", "closeParameters"} => Shut("secrets")
    /\ pc = "openParameters" \/ (pc \notin GcpPhases /\ exit # "killed") =>
           \A c \in GcpClients : Shut(c)

LEMMA ClientsNext ==
    ASSUME TypeInv, Ended, ClientsHeld, [Next]_vars
    PROVE  ClientsHeld'
  <1>0. clients \in [GcpClients -> {"none", "open", "closed"}]
    BY DEF TypeInv, TypeOK
  <1>1. ASSUME clients' = clients,
               pc' = "openParameters" \/ pc' \notin GcpPhases,
               pc' \in GcpPhases \/ exit' # "killed" =>
                   pc \notin (GcpPhases \cup {"exited"}) \ {"openParameters"}
                   \/ (pc = "exited" /\ pc' = pc /\ exit' = exit)
        PROVE  ClientsHeld'
    BY <1>1 DEF ClientsHeld, Ended, Shut, GcpPhases
  <1>2. CASE Load \/ LoadEnv \/ LoadAwsConfig \/ GetParameters
             \/ GetSecretValue \/ GcpEnvironment
    BY <1>1, <1>2
       DEF Load, LoadEnv, LoadAwsConfig, GetParameters, GetSecretValue,
           GcpEnvironment, Continue, Refuse, Exit, loading, GcpPhases
  <1>3. CASE OpenParameters
    BY <1>0, <1>3
       DEF OpenParameters, Continue, Refuse, Exit, ClientsHeld, Shut,
           GcpClients, GcpPhases
  <1>4. CASE OpenSecrets
    BY <1>0, <1>4 DEF OpenSecrets, Continue, ClientsHeld, Shut, GcpPhases
  <1>5. CASE RenderParameter \/ AccessSecret
    <2>1. pc' \in {"render", "access", "closeSecrets"}
      BY <1>5 DEF RenderParameter, AccessSecret, Continue
    <2>2. QED
      BY <2>1 DEF ClientsHeld, GcpPhases
  <1>6. CASE CloseSecrets
    BY <1>0, <1>6 DEF CloseSecrets, Continue, ClientsHeld, Shut, GcpClients,
                      GcpPhases
  <1>7. CASE CloseParameters
    BY <1>0, <1>7 DEF CloseParameters, Continue, Refuse, Exit, ClientsHeld,
                      Shut, GcpClients, GcpPhases
  <1>8. CASE \/ NewPool \/ PingAnswered \/ PingTimesOut \/ NewClient
             \/ ServerFails \/ BeginShutdown \/ ShutdownReturns
    BY <1>1, <1>8
       DEF NewPool, PingAnswered, PingTimesOut, NewClient, ServerFails,
           BeginShutdown, ShutdownReturns, Continue, Refuse, Exit, loading,
           GcpPhases
  <1>9. CASE \/ Listen \/ ListenerBreaks \/ ShutdownDeadline \/ UNCHANGED vars
             \/ \E r \in Requests : Accept(r) \/ Answer(r)
    <2>1. pc' = pc /\ exit' = exit /\ clients' = clients
      BY <1>9 DEF Listen, ListenerBreaks, ShutdownDeadline, Accept, Answer,
                  vars, loading
    <2>2. QED
      BY <2>1 DEF ClientsHeld, Shut
  <1>10. CASE Terminate \/ Kill
    <2>1. /\ clients' = clients
          /\ (pc' = pc /\ exit' = exit) \/ (pc' = "exited" /\ exit' = "killed")
      BY <1>10 DEF Terminate, Kill, Exit, loading
    <2>2. QED
      BY <2>1 DEF ClientsHeld, Shut, GcpPhases
  <1>11. QED
    BY <1>2, <1>3, <1>4, <1>5, <1>6, <1>7, <1>8, <1>9, <1>10
       DEF Next, Loading, Stopping

(* Load gives back the clients it opened, whichever of its steps fails.    *)
THEOREM GcpClientsReleased == Spec => []ClientsReleased
  <1>1. Init => ClientsHeld
    BY DEF Init, ClientsHeld, Shut
  <1>2. TypeInv /\ Ended /\ ClientsHeld /\ [Next]_vars => ClientsHeld'
    BY ClientsNext
  <1>3. ClientsHeld => ClientsReleased
    BY DEF ClientsHeld, ClientsReleased, Shut
  <1>4. QED
    BY <1>1, <1>2, <1>3, EndedInvariant, PTL DEF Spec
=============================================================================
