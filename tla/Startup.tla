------------------------------- MODULE Startup -------------------------------
(***************************************************************************)
(* One process, from main to its exit: config.Load by APP_ENV,             *)
(* bootstrap.NewHandler, and the Lambda or Cloud Run entry point.          *)
(*                                                                         *)
(* A configured value is "good", "blank" (nothing but white space) or      *)
(* "bad" (not what its name calls for, or unfit for a DSN that quotes      *)
(* nothing).  A refusal is an error NewHandler returns and main ends on.   *)
(***************************************************************************)
EXTENDS Naturals, Sequences, FiniteSets

CONSTANTS
    Requests,              \* requests that reach a server
    NoConfig               \* what Load returns with an error

VARIABLES
    entry,                 \* which cmd/ was built
    appEnv,                \* APP_ENV, trimmed and in lower case
    pc, exit,              \* where the process is, and how it ended
    params,                \* loadParameters, loadGCPParameters: read so far
    clients,               \* the two clients of loadGCPWithFactories
    failed,                \* some step of Load returned an error
    cfg,                   \* what Load returned
    pool, sslmode,         \* the pgx pool, and what it was told of TLS
    fcm,                   \* the FCM client
    listener, requests,    \* of the Cloud Run server, or lambda.Start
    signalled, late        \* SIGTERM came; Shutdown's ten seconds are over

process == <<entry, appEnv>>
loading == <<params, clients, failed, cfg>>
database == <<pool, sslmode>>
serving == <<listener, requests>>
stopping == <<signalled, late>>
vars == <<process, pc, exit, loading, database, fcm, serving, stopping>>

-----------------------------------------------------------------------------
AppEnvs == {"", "development", "staging", "production", "unsupported"}
Values == {"good", "bad", "blank"}
Whole == {"good", "bad"}

(* gcpParameterNames, and the order they are rendered in.                  *)
Names == <<"db-host", "db-port", "db-name", "firebase-credentials",
           "rds-secret-arn">>
Parameters == {Names[i] : i \in DOMAIN Names}

GcpClients == {"parameters", "secrets"}
GcpPhases == {"openParameters", "openSecrets", "render", "access",
              "closeSecrets", "closeParameters"}
LoadPhases == {"load", "env", "aws", "ssm", "awsSecret", "gcp"} \cup GcpPhases
Phases == LoadPhases \cup {"pool", "ping", "credentials", "serve", "shutdown",
                           "exited"}

Configs == [host : Values, port : Values, user : Values, password : Values,
            name : Values, ssl : {"disable", "require"}, creds : {"file", "good"}]

ASSUME NoConfigAssumption == NoConfig \notin Configs

Init ==
    /\ entry \in {"lambda", "cloudrun"}
    /\ appEnv \in AppEnvs
    /\ pc = "load"
    /\ exit = "none"
    /\ params = [n \in {} |-> "good"]
    /\ clients = [c \in GcpClients |-> "none"]
    /\ failed = FALSE
    /\ cfg = NoConfig
    /\ pool = "none"
    /\ sslmode = "none"
    /\ fcm = "none"
    /\ listener = "none"
    /\ requests = [r \in Requests |-> "none"]
    /\ signalled = FALSE
    /\ late = FALSE

(* The process ends, and with it what it was handling.                     *)
Exit(how) ==
    /\ pc' = "exited"
    /\ exit' = how
    /\ requests' = [r \in Requests |->
                       IF requests[r] = "handling" THEN "cut" ELSE requests[r]]

(* log.Fatal of the error NewHandler returned.                             *)
Refuse ==
    /\ Exit("fatal")
    /\ UNCHANGED listener

Continue(phase) ==
    /\ pc' = phase
    /\ UNCHANGED <<exit, serving>>

-----------------------------------------------------------------------------
Load ==
    /\ pc = "load"
    /\ \/ appEnv \in {"", "development"} /\ Continue("env")
       \/ appEnv = "staging" /\ Continue("aws")
       \/ appEnv = "production" /\ Continue("gcp")
       \/ appEnv = "unsupported" /\ Refuse
    /\ UNCHANGED <<process, loading, database, fcm, stopping>>

(* mustGetEnv panics when a variable is not set or is empty.               *)
LoadEnv ==
    /\ pc = "env"
    /\ \/ /\ \E h, p, u, s, n \in Values :
                cfg' = [host |-> h, port |-> p, user |-> u, password |-> s,
                        name |-> n, ssl |-> "disable", creds |-> "file"]
          /\ Continue("pool")
       \/ /\ Exit("panic")
          /\ UNCHANGED <<cfg, listener>>
    /\ UNCHANGED <<process, params, clients, failed, database, fcm, stopping>>

(* LoadDefaultConfig.                                                      *)
LoadAwsConfig ==
    /\ pc = "aws"
    /\ Continue("ssm") \/ Refuse
    /\ UNCHANGED <<process, loading, database, fcm, stopping>>

(* Mutation: the path of the parameters is not cut off their names.        *)
GetParametersByPath ==
    /\ pc = "ssm"
    /\ \/ /\ params' \in [{<<"/yevmiye/staging/", n>> : n \in Parameters} -> Values]
          /\ Continue("awsSecret")
       \/ params' = params /\ Refuse
    /\ UNCHANGED <<process, clients, failed, cfg, database, fcm, stopping>>

(* All at once; none may be missing, and their path is cut off.            *)
GetParameters ==
    /\ pc = "ssm"
    /\ \/ params' \in [Parameters -> Values] /\ Continue("awsSecret")
       \/ params' = params /\ Refuse
    /\ UNCHANGED <<process, clients, failed, cfg, database, fcm, stopping>>

(* What loadSecret may return: nothing of the JSON is checked.             *)
RdsSecrets == [user : Values, password : Values]

(* The secret; then the credentials are validated.                         *)
GetSecretValue ==
    /\ pc = "awsSecret"
    /\ \/ /\ params["firebase-credentials"] = "good"
          /\ \E secret \in RdsSecrets :
                cfg' = [host |-> params["db-host"], port |-> params["db-port"],
                        user |-> secret.user, password |-> secret.password,
                        name |-> params["db-name"], ssl |-> "require",
                        creds |-> "good"]
          /\ Continue("pool")
       \/ cfg' = cfg /\ Refuse
    /\ UNCHANGED <<process, params, clients, failed, database, fcm, stopping>>

(* GOOGLE_CLOUD_PROJECT must be there.                                     *)
GcpEnvironment ==
    /\ pc = "gcp"
    /\ Continue("openParameters") \/ Refuse
    /\ UNCHANGED <<process, loading, database, fcm, stopping>>

OpenParameters ==
    /\ pc = "openParameters"
    /\ \/ /\ clients' = [clients EXCEPT !["parameters"] = "open"]
          /\ Continue("openSecrets")
       \/ UNCHANGED clients /\ Refuse
    /\ UNCHANGED <<process, params, failed, cfg, database, fcm, stopping>>

(* Mutation: both Close calls are deferred when both clients are there.    *)
OpenSecretsBeforeDefer ==
    /\ pc = "openSecrets"
    /\ \/ /\ clients' = [clients EXCEPT !["secrets"] = "open"]
          /\ failed' = failed
          /\ Continue("render")
       \/ /\ UNCHANGED clients
          /\ failed' = TRUE
          /\ Refuse
    /\ UNCHANGED <<process, params, cfg, database, fcm, stopping>>

OpenSecrets ==
    /\ pc = "openSecrets"
    /\ \/ /\ clients' = [clients EXCEPT !["secrets"] = "open"]
          /\ failed' = failed
          /\ Continue("render")
       \/ /\ UNCHANGED clients
          /\ failed' = TRUE
          /\ Continue("closeParameters")
    /\ UNCHANGED <<process, params, cfg, database, fcm, stopping>>

(* One parameter: an error or an empty payload ends the loading.           *)
RenderParameter ==
    /\ pc = "render"
    /\ LET name == Names[Cardinality(DOMAIN params) + 1]
           read == DOMAIN params \cup {name}
       IN  \/ /\ \E value \in Values :
                    params' = [n \in read |->
                                  IF n = name THEN value ELSE params[n]]
              /\ failed' = failed
              /\ Continue(IF read = Parameters THEN "access" ELSE "render")
           \/ /\ params' = params
              /\ failed' = TRUE
              /\ Continue("closeSecrets")
    /\ UNCHANGED <<process, clients, cfg, database, fcm, stopping>>

(* What loadGCPPostgresSecret may return, if the parameter names a secret: *)
(* a user, and a password that is not "".                                  *)
PostgresSecrets ==
    IF params["rds-secret-arn"] = "good" THEN [user : Whole, password : Values]
                                         ELSE {}

(* The rest of loadGCPConfig: the port, the secret, the credentials.       *)
AccessSecret ==
    /\ pc = "access"
    /\ \/ /\ \A n \in {"db-port", "firebase-credentials"} : params[n] = "good"
          /\ \E secret \in PostgresSecrets :
                cfg' = [host |-> params["db-host"], port |-> params["db-port"],
                        user |-> secret.user, password |-> secret.password,
                        name |-> params["db-name"], ssl |-> "require",
                        creds |-> "good"]
          /\ failed' = failed
       \/ /\ cfg' = cfg
          /\ failed' = TRUE
    /\ Continue("closeSecrets")
    /\ UNCHANGED <<process, params, clients, database, fcm, stopping>>

(* The deferred calls, in the reverse order.  An error of Close joins the  *)
(* others; Load may then return a configuration and an error.              *)
CloseSecrets ==
    /\ pc = "closeSecrets"
    /\ clients' = [clients EXCEPT !["secrets"] = "closed"]
    /\ failed' \in {failed, TRUE}
    /\ Continue("closeParameters")
    /\ UNCHANGED <<process, params, cfg, database, fcm, stopping>>

CloseParameters ==
    /\ pc = "closeParameters"
    /\ clients' = [clients EXCEPT !["parameters"] = "closed"]
    /\ failed' \in {failed, TRUE}
    /\ IF failed' THEN Refuse ELSE Continue("pool")
    /\ UNCHANGED <<process, params, cfg, database, fcm, stopping>>

-----------------------------------------------------------------------------
(* What the DSN is made of, sslmode aside.                                 *)
Settings == {cfg.host, cfg.port, cfg.user, cfg.password, cfg.name}

(* The DSN quotes nothing: a blank value takes the next setting for its    *)
(* own, and that setting is lost.  So may sslmode be, which comes last; it *)
(* is then at its default, which does not insist on TLS.                   *)
ToldSslModes ==
    IF cfg.name = "good" THEN {cfg.ssl}
    ELSE IF cfg.name = "blank" /\ cfg.password = "good" THEN {"prefer"}
    ELSE {cfg.ssl, "prefer"}

(* A blank port is the user's setting, which is no number.                 *)
Parses == ~(cfg.host = "good" /\ cfg.port = "blank")

(* Mutation: the pool is not pinged, so it connects when it is first used. *)
NewPoolUnpinged ==
    /\ pc = "pool"
    /\ \/ /\ Parses
          /\ pool' = "open"
          /\ sslmode' \in ToldSslModes
          /\ Continue("credentials")
       \/ Settings # {"good"} /\ UNCHANGED database /\ Refuse
    /\ UNCHANGED <<process, loading, fcm, stopping>>

(* pgxpool.New connects to nothing, and fails only if it cannot parse the  *)
(* DSN.                                                                    *)
NewPool ==
    /\ pc = "pool"
    /\ \/ /\ Parses
          /\ pool' = "open"
          /\ sslmode' \in ToldSslModes
          /\ Continue("ping")
       \/ Settings # {"good"} /\ UNCHANGED database /\ Refuse
    /\ UNCHANGED <<process, loading, fcm, stopping>>

(* A server answers, or refuses.  Which settings it accepts is its own     *)
(* affair: they need not be the ones that were meant.                      *)
PingAnswered ==
    /\ pc = "ping"
    /\ \/ pool' = "connected" /\ Continue("credentials")
       \/ pool' = "closed" /\ Refuse
    /\ UNCHANGED <<process, loading, sslmode, fcm, stopping>>

(* Mutation: the ping has no timeout.                                      *)
PingNeverTimesOut == FALSE /\ UNCHANGED vars

PingTimesOut ==
    /\ pc = "ping"
    /\ pool' = "closed"
    /\ Refuse
    /\ UNCHANGED <<process, loading, sslmode, fcm, stopping>>

(* GetFireBaseCredentials and NewClient, which validates them; a file may  *)
(* be missing or malformed, and the SDK may refuse.                        *)
NewClient ==
    /\ pc = "credentials"
    /\ \/ fcm' = "ready" /\ Continue("serve")
       \/ fcm' = fcm /\ Refuse
    /\ UNCHANGED <<process, loading, database, stopping>>

-----------------------------------------------------------------------------
(* The goroutine of ListenAndServe; lambda.Start.                          *)
Listen ==
    /\ pc = "serve"
    /\ listener = "none"
    /\ listener' \in IF entry = "cloudrun" THEN {"open", "failed"} ELSE {"open"}
    /\ UNCHANGED <<process, pc, exit, loading, database, fcm, requests, stopping>>

ListenerBreaks ==
    /\ entry = "cloudrun"
    /\ listener = "open"
    /\ listener' = "failed"
    /\ UNCHANGED <<process, pc, exit, loading, database, fcm, requests, stopping>>

(* A Lambda function handles one batch at a time.                          *)
Accept(r) ==
    /\ pc # "exited"
    /\ listener = "open"
    /\ requests[r] = "none"
    /\ entry = "lambda" => \A q \in Requests : requests[q] # "handling"
    /\ requests' = [requests EXCEPT ![r] = "handling"]
    /\ UNCHANGED <<process, pc, exit, loading, database, fcm, listener, stopping>>

Answer(r) ==
    /\ requests[r] = "handling"
    /\ requests' = [requests EXCEPT ![r] = "answered"]
    /\ UNCHANGED <<process, pc, exit, loading, database, fcm, listener, stopping>>

(* The two cases of main's select.  When the listener is not open yet,     *)
(* ListenAndServe finds the server shut down.                              *)
ServerFails ==
    /\ pc = "serve"
    /\ listener = "failed"
    /\ Refuse
    /\ UNCHANGED <<process, loading, database, fcm, stopping>>

BeginShutdown ==
    /\ pc = "serve"
    /\ entry = "cloudrun"
    /\ signalled
    /\ pc' = "shutdown"
    /\ listener' = "closed"
    /\ UNCHANGED <<process, exit, loading, database, fcm, requests, stopping>>

(* Mutation: Shutdown has no deadline.                                     *)
ShutdownWhenDrained ==
    /\ pc = "shutdown"
    /\ \A r \in Requests : requests[r] # "handling"
    /\ Exit("clean")
    /\ UNCHANGED <<process, loading, database, fcm, listener, stopping>>

(* Shutdown returns when no request is left, or when its time is over.     *)
ShutdownReturns ==
    /\ pc = "shutdown"
    /\ late \/ \A r \in Requests : requests[r] # "handling"
    /\ Exit("clean")
    /\ UNCHANGED <<process, loading, database, fcm, listener, stopping>>

ShutdownDeadline ==
    /\ pc = "shutdown"
    /\ ~late
    /\ late' = TRUE
    /\ UNCHANGED <<process, pc, exit, loading, database, fcm, serving, signalled>>

(* SIGTERM.  Until NotifyContext, and in a Lambda, it ends the process.    *)
Terminate ==
    /\ pc # "exited"
    /\ ~signalled
    /\ signalled' = TRUE
    /\ \/ /\ entry = "cloudrun" /\ pc = "serve"
          /\ UNCHANGED <<pc, exit, requests>>
       \/ /\ entry = "lambda" \/ listener = "none"
          /\ Exit("killed")
    /\ UNCHANGED <<process, loading, database, fcm, listener, late>>

(* The platform kills it.                                                  *)
Kill ==
    /\ pc # "exited"
    /\ Exit("killed")
    /\ UNCHANGED <<process, loading, database, fcm, listener, stopping>>

-----------------------------------------------------------------------------
Loading ==
    \/ Load
    \/ LoadEnv
    \/ LoadAwsConfig
    \/ GetParameters
    \/ GetSecretValue
    \/ GcpEnvironment
    \/ OpenParameters
    \/ OpenSecrets
    \/ RenderParameter
    \/ AccessSecret
    \/ CloseSecrets
    \/ CloseParameters

Stopping == ServerFails \/ BeginShutdown \/ ShutdownReturns \/ ShutdownDeadline

Next ==
    \/ Loading
    \/ NewPool
    \/ PingAnswered
    \/ PingTimesOut
    \/ NewClient
    \/ Listen
    \/ ListenerBreaks
    \/ \E r \in Requests : Accept(r) \/ Answer(r)
    \/ Stopping
    \/ Terminate
    \/ Kill

Spec == Init /\ [][Next]_vars

(* The process runs and its timers go off.  Nothing is promised of what it *)
(* asks for its configuration, of the database, or of the handlers.        *)
Fairness ==
    /\ WF_vars(NewPool)
    /\ WF_vars(PingTimesOut)
    /\ WF_vars(NewClient)
    /\ WF_vars(Stopping)

FairSpec == Spec /\ Fairness

-----------------------------------------------------------------------------
(* The process is somewhere between main and its exit, and holds of its    *)
(* configuration and its requests what Load and the server put there.      *)
TypeOK ==
    /\ entry \in {"lambda", "cloudrun"}
    /\ appEnv \in AppEnvs
    /\ pc \in Phases
    /\ exit \in {"none", "fatal", "panic", "clean", "killed"}
    /\ DOMAIN params \subseteq Parameters
    /\ \A n \in DOMAIN params : params[n] \in Values
    /\ clients \in [GcpClients -> {"none", "open", "closed"}]
    /\ failed \in BOOLEAN
    /\ cfg \in Configs \cup {NoConfig}
    /\ pool \in {"none", "open", "connected", "closed"}
    /\ sslmode \in {"none", "disable", "require", "prefer"}
    /\ fcm \in {"none", "ready"}
    /\ listener \in {"none", "open", "failed", "closed"}
    /\ requests \in [Requests -> {"none", "handling", "answered", "cut"}]
    /\ signalled \in BOOLEAN
    /\ late \in BOOLEAN

(* Whatever fails while the production configuration is loaded, Load gives *)
(* back the clients it opened before it returns.                           *)
ClientsReleased ==
    pc \notin GcpPhases /\ exit # "killed" =>
        \A c \in GcpClients : clients[c] # "open"

(* A process that handles requests has loaded a configuration without an   *)
(* error, a database has answered it, and it holds Firebase credentials.   *)
(* Where it is deployed, the credentials have been validated before, and   *)
(* it insists on TLS if the database has a name; in production the port is *)
(* one and the user is not blank.  Nothing is checked of the rest, or of   *)
(* which database it is that answered.                                     *)
HandlesWhenReady ==
    listener = "open" \/ (\E r \in Requests : requests[r] # "none") =>
        /\ ~failed
        /\ cfg \in Configs
        /\ pool = "connected"
        /\ fcm = "ready"
        /\ appEnv \in {"staging", "production"} =>
               /\ cfg.creds = "good"
               /\ cfg.name = "good" => sslmode = "require"
        /\ appEnv = "production" => cfg.port = "good" /\ cfg.user # "blank"

(* With its configuration a process comes to serve, or ends: a database    *)
(* that does not answer cannot hang it.                                    *)
ComesUpOrEnds == pc \in {"pool", "ping"} ~> pc \in {"serve", "exited"}

(* A process asked to terminate ends, even if a handler never returns.     *)
TerminatesWhenAsked == signalled ~> pc = "exited"
=============================================================================
