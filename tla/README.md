# A verification project for the Yömye notification service

The repository's service consumes events (a chat message, an approved listing,
a gig that matches a category), writes an in-app notification per recipient to
PostgreSQL, pushes it to the recipient's devices through Firebase, and tells its
transport (SQS in AWS Lambda, Pub/Sub push in Cloud Run) whether the message may
leave the queue. It has no scheduler, no queue and no cache of its own. What is
hard about it is that every step may be repeated, overlap with itself or be cut
off, and that five things must then still agree: the message in the queue, the
claim on the event, the notification row, the devices that were reached, and the
table of device tokens.

These TLA+ modules say what the code does, TLC checks properties of it on small
instances, and TLAPS proves some of them for all values of the constants.

    tlc -workers 2 -config MCMessage.cfg MCMessage
    tlapm NotificationServiceClaims.tla

## 1. The system

### Components

| Component | Source | State it keeps | Operations |
| --- | --- | --- | --- |
| `Service.Handle` | `internal/service/service.go` | per call: the message, a claim token, errors so far | precheck, claim, render, create, list, send, delete, mark, complete or release |
| Event claims | `internal/repository/postgres/event_deduplicator.go` | table `notification_processed_events` | `Claim` (two statements), `Complete`, `Release`; a lease of five minutes |
| Notification inbox | `.../postgres/notification_repository.go` | table `notifications`, `pushed_at` | `Create` (upsert on either unique index), `MarkPushed` |
| FCM tokens | `.../postgres/fcm_token_repository.go` | table `fcm_tokens`, shared with Core | `ListByUserID`, `DeleteByUserID` |
| Subscribers | `.../postgres/subscriber_repository.go` | tables of Core, read only | `ListByCategoryAndLocation` |
| Fan-out resolver | `internal/service/gig_category_matched_resolver.go` | none | `Resolve`: validate, query, one payload per subscriber |
| Push provider | `internal/repository/firebase`, `pkg/fb` | none | `Send`: loop over tokens, sort the answers into three kinds |
| Envelopes, claim ids | `internal/event` | none | `RequiresVersionedEnvelope`, `NewMessageClaimID` |
| Renderers | `internal/renderer`, `internal/notification` | none | `Render`, `NewSemanticPush` |
| SQS handler | `internal/handler/sqs_handler.go` | per batch: failures, a mutex, an errgroup | one goroutine per record, at most five at a time |
| Pub/Sub handler | `internal/handler/pubsub_handler.go` | none | decode, `Handle`, 204 or 500 |
| Configuration, bootstrap, entry points | `internal/config`, `internal/bootstrap`, `pkg/database`, `cmd` | clients opened at start-up, the pool, the HTTP server | `Load`, `NewHandler`, `NewPool`, serving, shutdown after ten seconds |

### How they interact

The broker hands a message to a transport, and both transports call
`Service.Handle`, possibly many at a time: goroutines of a batch, Lambda
instances, Cloud Run requests. Calls share nothing in memory. They meet in the
database, in single SQL statements that run in no common transaction, and in
Firebase. Core and the uninstallation of apps change `fcm_tokens`, the
subscriptions and Firebase's registrations at any time, and Core may delete a
user, whose rows and tokens go with them. The only answer to the
broker is whether to acknowledge: `nil` and non-retryable errors do, all other
errors do not, and a call that dies answers nothing.

### What is hard, and what makes it correct

* **Duplicates and overlap.** Delivery is at least once. The claim keeps
  deliveries of one event apart, until its lease ends under a slow worker
  (`ClaimExclusive`), and a late worker cannot undo what another finished
  (`ProcessedIsFinal`).
* **A claim read in two statements.** Between the `INSERT` that loses and the
  `SELECT` that asks why, the row may change. Whatever is read, an event may be
  acknowledged only if it was finished (`NoEventLost`).
* **Being cut off.** A call can die, or lose the answer to a write that
  committed, between any two steps. The event must come back
  (`EventuallyAcked`), and come back without pushing again, except where the cut
  fell between the sends and `MarkPushed` (`RepeatsAreAccountedFor`).
* **Partial failure.** One recipient of a fan-out, or one device of a recipient,
  fails and the others do not. An event may not count as processed, nor a row as
  pushed, before all of them are served (`ProcessedNotifies`, `ProcessedPushes`,
  `PushedReachesSteady`); when a message is gone from the queue, everyone owed
  must have been reached (`AckedReachesAll`).
* **Stale reads.** Tokens are listed, used and deleted with Core writing in
  between (`OnlyRetiredTokensDeleted`); subscribers are read anew on each attempt
  (`ProcessedNotifies`). What a call acts on may be out of date, but never older
  than the call (`PushesGoWhereMeant`).
* **One identity computed twice.** The claim of a chat message and the unique
  row of its notification are derived in two packages (`OneClaimOneRow`), and
  the way past the claim table must serve nothing that can be notified
  (`HandledUnderClaim`).
* **Errors that hide errors.** `errors.As` finds a non-retryable error anywhere
  in a joined one (`FanOutNeverDiscarded`); Firebase's own classifier finds its
  error only while nothing is wrapped around it. What is read off an error must
  be what happened, through every layer (`VerdictFollowsCause`,
  `RetiredTokensRemoved`).
* **Users who leave.** Their rows vanish under a call that is about to mark them,
  and an event for them can no longer be inserted. Nobody else may be affected
  (`ProcessedIsFinal`, `EventuallyAcked`, `KeepsPromise`).
* **Two transports.** What one retries the other must retry
  (`TransportsAgree`).
* **Starting and stopping.** Half a configuration, a database that does not
  answer or answers to the wrong settings, requests in flight at SIGTERM
  (`ClientsReleased`, `HandlesWhenReady`, `ComesUpOrEnds`, `TerminatesWhenAsked`).
* **Goroutines over one slice**, held back by a limit and a mutex
  (`ResponseIsExact`, `Responds`).

`PROJECT.json` lists these hazards one by one with their lines.

## 2. The modules

| Module | What it is |
| --- | --- |
| `EventDeduplicator` | the claims table; one operator per SQL statement |
| `NotificationStore` | `notifications` and `fcm_tokens` with their statements; Core's and Firebase's changes to tokens |
| `NotificationService` | concurrent calls of `Handle` over the two; faults; properties |
| `LiveReads` | `NotificationService` with a history of what its reads could have returned |
| `EnvelopeRouting` | the decisions of `Handle` that depend on the envelope alone |
| `DeliveryPromise` | what the service promises to those around it, without claims, workers or faults |
| `HandleErrors` | the error of one call, from Firebase's answer to the verdict |
| `SqsBatch` | the goroutines of one SQS invocation |
| `Startup` | one process, from `main` to its exit |
| `NotificationServiceClaims`, `-Delivery`, `-Promise`, `-Repeats` | theorems about `NotificationService` and `LiveReads`, each module built on the one before |
| `EnvelopeRoutingProofs` | theorems about `EnvelopeRouting` |
| `HandleErrorsProofs` | theorems about `HandleErrors` |
| `SqsBatchProofs` | theorems about `SqsBatch` |
| `StartupProofs` | theorems about `Startup` |
| `MCMessage`, `MCFanOut`, `MCContracts`, `MCRetries` | instances of `NotificationService` for TLC; `MCFanOut` of `LiveReads` |

### EventDeduplicator

`claims[id]` is the row of an event id, or `NoRow`. Of `claimed_at` only the test
against the lease is kept (`stale`), so the passing of time is one action,
`LeaseLapses`. `Acquirable` is the `INSERT` with its `ON CONFLICT ... WHERE`,
`AlreadyProcessed` the `SELECT` that follows, `Owns` the `WHERE` clause of
`Complete` and `Release`. The `uuid.New()` of a call is represented by the worker:
a worker runs one call at a time and has to claim again before it works again,
so a row with its name on it is either of its present call or of a past call
whose token nobody uses.

The past call's row cannot be mistaken for the present one's: the present call
looks at ownership only after it acquired the claim, and acquiring rewrites the
row.

### NotificationStore

A row of `notifications` is known by the value of the unique index that applies
to it: `(type, source_event_id)` for chat messages, `(user, entity_type,
entity_id, type)` for the others. Its state is absent, unpushed or pushed.
`owner[t]` is the user a token is registered to. `dead` are the tokens for which
Firebase answers `UNREGISTERED`. Retirement is permanent, as Firebase documents
it, and as `internal/repository/firebase` relies on when it deletes. `deleted`
are the users Core has deleted: `CoreDeletes` takes their rows of both tables with
them (`ON DELETE CASCADE`), and `ForeignKeysHold` is the check of `user_id` and
`actor_id`, made when a row is inserted and not when the upsert finds one.

### NotificationService

A *worker* is whatever can run a call of `Handle`. `pc[w]` is the statement it
executes next, `call[w]` its locals. The table gives the correspondence.

| Action | Code | Effect |
| --- | --- | --- |
| `Receive` | a transport calls `Handle` | any message, any number of times, also after it was acknowledged |
| `Claim` | first statement of `Claim` | the row is inserted or taken over; or on to the second |
| `ReadClaimState` | second statement of `Claim` | acknowledged if processed, else an error |
| `Resolve` | `resolvePayloads` for a fan-out | the subscribers of this moment; malformed payload: a retryable error |
| `RefusePayload` | `Render` fails | a non-retryable error |
| `Create` | `notifRepo.Create` and the look at `PushedAt` | insert or read; skip what was pushed |
| `CreateOrphan` | `notifRepo.Create` on a deleted user | a foreign-key error, retryable |
| `ListTokens` | `tokenRepo.ListByUserID` | no device: done with this recipient |
| `SendOne` | one turn of the loop in `PushProvider.Send` | delivered, or unregistered |
| `DeleteGone` | `DeleteByUserID`, then `sendErr` | the token table changes; a failed send ends the recipient |
| `MarkPushed` | `notifRepo.MarkPushed` | |
| `Complete`, `Release` | the ends of `Handle` | the verdict goes to the broker |

`FinishRecipient` is the return from `handleOne`: the error, if any, is kept, and
the loop of `handleEvent` goes on to the next recipient, then to `Complete` if
there was no error and to `Release` otherwise.

**Faults.** Each call that can fail has an action of its own. A write that fails
may have been applied all the same (its answer was lost): `CreateFails`,
`DeleteFails`, `MarkFails` choose; `ClaimFails` and `CompleteFails` are the
applied case, the other being the same as `Crash`. `SendFails` is any answer but
`UNREGISTERED`, and the device may have been reached. `Crash` is the end of the
process or of the call's context, after which no statement succeeds and no
`Release` runs. `Overrun` lets the lease run out under a worker that still works.
They share one budget, `MaxFaults`.

**Environment.** `LeaseExpires` is for claims nobody works under. `TokenMoves`,
`TokenDies`, `SubscriptionChanges` and `UserLeaves` are restricted by constants to
some tokens and users, so that the properties can speak of the others ("steady" devices,
people who are subscribed throughout) while TLC still explores what the changes
of some do to the rest.

**History variables.** `pushes` counts what Firebase accepted, per message, user
and token. `disrupted` counts, per message and user, the attempts that failed
between the first send to that user and `MarkPushed` (`MidPush`), or whose lease
ran out before they were finished with that user (`Unfinished`); an attempt
counts once for a user, and the failure of one recipient of a fan-out does not
count for another. `late` in a call's locals
remembers that its lease ran out. No guard reads them.

Messages `Handle` refuses before it claims (wrong version, no id, malformed chat
payload) touch nothing and are left to `EnvelopeRouting`. `Poison` messages get
past the claim and are refused by the renderer, or the resolver.

### LiveReads

A call reads whom an event is for, and later which devices are theirs, and pushes
later still. `LiveReads` runs `NotificationService` beside a history of each call:
`asked[w]` is everyone who was subscribed at some time since `w` received its
message, `held[w]` the tokens registered to its present recipient at some time
since `w` turned to them. `PushesGoWhereMeant` compares each push with both. The
history is as exact as the reads are free: what `asked` and `held` name is what
the two queries could have returned during the call, and nothing older.

### DeliveryPromise

The abstract specification. Its state is the set of rows in the inbox, which
devices accepted the push of which row, the rows marked as pushed, the events
finished, and the messages acknowledged. One of its steps notes a row, reaches a
device, marks a row all of whose lasting devices were reached, finishes an event
all of whose rows are there (marked, where somebody has a lasting device), or
acknowledges a message that is finished or hopeless; nothing is undone. There are
no workers, claims, leases, deliveries or failures in it. `NotificationService`
ends with the refinement mapping (`Promise`); `KeepsPromise` says it is one. Rows
of users who may be deleted are not promised.

### EnvelopeRouting

`Handle(e)` is the verdict on an envelope when nothing fails: the versioning
rules, the id that is claimed, dispatch, the checks of the resolver and of the
renderers, whether `NewSemanticPush` accepts the fields a renderer adds, and what
the transports acknowledge. `Selected` is the `WHERE` clause of the subscriber
query, NULL locations included. `PushStatus` is `HandlePubSubPush` from the HTTP
method to the status code, `RecordFails` what the SQS handler does with the same
envelope. All of it is a pure function; the specification decides one
delivery, and TLC starts from every one of them.

### HandleErrors

One call of `Handle` after it acquired its claim, with nobody beside it, and with
the whole tree of each error. `fmt.Errorf("%w")` puts a node before the error,
`errors.Join` puts one before several. An error is the sequence of its nodes in
the order in which `errors.As` visits them, so `errors.As` is "the first node of a
type" and `errorTreeContains` is "some node". `SdkUnregistered` is the SDK's
classifier, which looks at the first node only. `answers` and `failures` are
history: what Firebase said, and which steps failed. A "resolve" failure is a query
that failed as well as a payload the resolver refuses: both come back as plain
errors and are retried (`service.go:160`), which is the exception to "malformed
events are discarded" that `VerdictFollowsCause` states and the run
`malformed_fan_out` shows. Payloads a fan-out resolver built are never refused;
that is `FanOutNeverDiscarded` of `EnvelopeRouting`.

### Startup

`pc` is the phase: `config.Load` by `APP_ENV` (development, staging, production or
anything else), then pool, ping, credentials, serving, shutdown. A configured
value is good, bad or blank, which is what the code and the DSN tell apart. The
DSN does not quote its values: pgx skips the blanks after `password=` and takes
`dbname=...` for the password, and so on, so a setting may be lost. `sslmode` is
what pgx was told of TLS: as the last setting it is the one a blank database name
takes, and then `prefer` holds, which does not insist on TLS (`ToldSslModes`). A
blank port takes the user's setting and is no number (`Parses`). The ping succeeds
whenever a server answers, whatever it was asked for (`PingAnswered`): nothing in
the code makes sure that the database is the one that was meant, and no property
says so. For production, the two GCP clients are opened, used and closed by deferred
calls in reverse order, and each step may fail, `Close` included, which turns a
loaded configuration into an error. A process that got this far listens
(`lambda.Start`, or the goroutine of `ListenAndServe`), accepts and answers
requests, may lose its listener, and on SIGTERM shuts down with a deadline.

### SqsBatch

A record's goroutine is started when the errgroup has a slot, handles its record
with any of four outcomes, and on a retryable error locks, reads the slice,
writes it back with itself appended, and unlocks. The append is taken apart so
that the mutex has something to prevent. `Respond` is `g.Wait()` and the return.

## 3. What TLC checks

| Run | Instance and bounds | What it shows |
| --- | --- | --- |
| `message` | one chat message, two workers; Bob has a steady device and one that may be retired or handed to Eve, who may be deleted; three faults | types, claims, no event lost, no early mark, no unexplained second push, only retired tokens are deleted, nothing recorded is undone, `DeliveryPromise` is implemented |
| `fan_out` | one gig, two workers, three users: one stays subscribed and keeps a phone, one comes and goes and may be deleted, one never subscribes; a tablet, first hers, moves between them; one fault | a fan-out recorded as processed has notified and pushed to everyone it is owed to, and one acknowledged has reached them; repeats are accounted for; a push goes to someone the database named during that call, on a device that was theirs since the call turned to them; `DeliveryPromise` is implemented |
| `contracts` | three messages, two workers: two share a notification row, and one of them shares its event id with a message of another type; two faults | claims, loss and marks where events meet in the tables; `DeliveryPromise` is implemented |
| `retries` | a fan-out and a malformed chat message, two workers, one fault, a device that may be retired, and a subscriber who comes and goes and may be deleted; fairness; no symmetry | every message is acknowledged in the end |
| `routing` | all envelopes over two UUIDs, two message ids, three versions, by either transport, whole or broken | the deduplicated path serves everything that can be notified; one claim, one row; no fan-out is discarded; the transports agree; a gig reaches everyone in its category, narrowed by its country and by its place |
| `handle_errors` | up to two recipients with up to two devices each, any step failing | the verdict and the tokens deleted follow from what happened, through every layer of wrapping and joining |
| `sqs_batch` | five records, limit three | the response is exact and comes |
| `startup` | either entry point, any `APP_ENV`, any values, two requests; fairness | clients are closed on every path; requests are accepted only with a checked configuration, a database that answered, credentials and, where deployed, TLS; start-up and shutdown end |

**Why the bounds suffice.** Two workers are enough for one to overtake another,
and with the faults for one to find the other's leftover. A third would add a
second bystander: every statement is conditional on a single row, which names a
single owner. Two tokens make a send half done. In `fan_out` two recipients are
one done and one that fails, in either order, and the tablet can leave a user
before, during or after a call and come back; the user who is never subscribed is
there to receive it. Subscriptions, the tablet and the lease change there without
limit, so one fault is what the run can afford, and enough to make a fan-out fail
in part and come back; `message` has three, which allow a lost answer, a crash and
an overrun in one history. The theorems hold for any number of users, devices and
faults. In `routing`
two values of each kind distinguish equal from different. In `sqs_batch` the limit
is below the number of records, so the loop has to wait, and two waiters remain
when the first slot comes free. In `handle_errors` two devices are one that fails and one
that does not, and two recipients a fan-out that fails in part; three would only
lengthen the joined error. In `startup` two requests are one answered
and one cut off. `MaxFaults` bounds failures; the number of
deliveries is not bounded, and counters stay finite because a completed event is
not pushed again and a repeated push costs a fault.

**Fairness** (`FairSpec`). Each worker's own step is weakly fair: a goroutine or
request that runs goes on, as every blocking call has a context that ends, with
Lambda's deadline or Cloud Run's request timeout at the latest. For a
message that is not acknowledged, redelivery is strongly fair: the broker's
visibility timeout or retry keeps offering it, and workers are free again and
again though not continuously. The end of an abandoned lease is weakly fair, as
it is a clock's. Nothing is assumed of faults (they stop only because
`MaxFaults` bounds them), of Core, of Firebase or of the order of messages.
Queue retention and dead-letter policies are deployment settings outside the
repository; with them, `EventuallyAcked` reads "unless the broker gives up first".
In `SqsBatch` one weak fairness condition on the whole next-state relation is
enough, since no behaviour is infinite.

In `Startup` fair are the process's own steps that wait for nobody (opening the
pool, creating the Firebase client, the cases of `main`'s `select`) and its two
timers, the ping's and `Shutdown`'s. Not fair are the loading of the
configuration, which has no deadline, the answers of the database, the
handlers, and the signals; so `ComesUpOrEnds` begins when the configuration is
there, and `TerminatesWhenAsked` holds with a handler that never returns.

**Symmetry** of workers is used in the safety runs only.

**Deadlock** is checked in the runs of `NotificationService`. `EnvelopeRouting`,
`HandleErrors`, `SqsBatch` and `Startup` end, and say so in their configurations.

Each property of each run has a mutant in `PROJECT.json`: a version of one
operator with a plausible bug (a condition dropped from a `WHERE` clause, an
error logged instead of returned, a mutex not taken) under which TLC finds the
property violated. The mutated operators stand just before the real ones, marked
*Mutation*.

### Where the code and the documentation part

Four runs are expected to fail; each states a sentence of the repository.

* `no_device`: README.md:23 says push processing is marked complete when no
  retryable error remains. For a recipient without a token `handleOne` returns
  before `MarkPushed`, so `pushed_at` stays NULL for good.
* `all_retired`: `internal/notification/types.go:79` says `PushedAt` is set once a
  push has been delivered. It is also set when every token answers
  `UNREGISTERED` and nothing was delivered.
* `malformed_fan_out`: README.md:141 says malformed events are acknowledged. A
  malformed `gig_category_matched` payload comes back from the resolver as a
  plain error and is redelivered for ever. The counterexample is fair.
* `unknown_type`: the same sentence about unknown types. An unknown type in an
  envelope with an unsupported version, or with a version and no id, is refused
  with a retryable error before the dispatcher sees it.

`ProcessedPushes` and `PushedReachesSteady` are what holds in place of the first
two: processed implies pushed for those with a lasting device, and pushed implies
that each lasting device was reached.

## 4. What is proved

The proofs about `NotificationService`'s `Spec` hold for every set of workers,
messages, users, tokens and keys, and any `MaxFaults`; those about `SqsBatch` for
every batch and every limit but zero (`BatchAssumption`); those about `Startup` for
any set of requests (`NoConfigAssumption`: the null value is not a configuration);
those about `EnvelopeRouting` for any identifiers, versions and unknown types
(`RoutingAssumption`: null and malformed identifiers are not identifiers, an
envelope may leave its version out, and a registered type is not an unknown one);
those about `HandleErrors` for any bounds on recipients and devices.
The first use the assumptions the modules declare:

* `NoRowAssumption`, `NoUserAssumption`: null values are not values;
* `MessagesAssumption`: every message has a type, an id, an addressee, and keys;
* `ProducerAssumption`: two messages of one type with one idempotency id are one
  message (producers derive the id from the event; the repository's contract
  tests fix the envelopes);
* `EnvironmentAssumption`: the parameters have their types. Nothing is assumed of
  which tokens and subscriptions change.

TLC evaluates all of them on its instances.

| Theorem | Statement | Module |
| --- | --- | --- |
| `TypeCorrect` | `Spec => []TypeOK` | `NotificationServiceClaims` |
| `ClaimsExclude` | `Spec => []ClaimExclusive` | `NotificationServiceClaims` |
| `NothingLost` | `Spec => []NoEventLost` | `NotificationServiceClaims` |
| `RecordsAreFinal` | `Spec => ProcessedIsFinal` | `NotificationServiceDelivery` |
| `TokensDeletedWhenRetired` | `Spec => OnlyRetiredTokensDeleted` | `NotificationServiceDelivery` |
| `ProcessedHaveNotified` | `Spec => []ProcessedNotifies` | `NotificationServiceDelivery` |
| `ProcessedHavePushed` | `Spec => []ProcessedPushes` | `NotificationServiceDelivery` |
| `MarkedWhenReached` | `Spec => []PushedReachesSteady` | `NotificationServicePromise` |
| `AckedAreDelivered` | `Spec => []AckedReachesAll` | `NotificationServicePromise` |
| `PromiseKept` | `Spec => KeepsPromise` | `NotificationServicePromise` |
| `RepeatsAccounted` | `Spec => []RepeatsAreAccountedFor` | `NotificationServiceRepeats` |
| `PushesAimed` | `LSpec => PushesGoWhereMeant` | `NotificationServiceRepeats` |
| `HandledAreClaimed` | `Spec => []HandledUnderClaim` | `EnvelopeRoutingProofs` |
| `ClaimIsRow` | `Spec => []OneClaimOneRow` | `EnvelopeRoutingProofs` |
| `FanOutKept` | `Spec => []FanOutNeverDiscarded` | `EnvelopeRoutingProofs` |
| `TransportsSayTheSame` | `Spec => []TransportsAgree` | `EnvelopeRoutingProofs` |
| `LocationOnlyNarrows` | `Spec => []LocationNarrows` | `EnvelopeRoutingProofs` |
| `VerdictIsCause` | `Spec => []VerdictFollowsCause` | `HandleErrorsProofs` |
| `RetiredAreRemoved` | `Spec => []RetiredTokensRemoved` | `HandleErrorsProofs` |
| `BatchTypes` | `Spec => []TypeOK` | `SqsBatchProofs` |
| `ResponseExact` | `Spec => []ResponseIsExact` | `SqsBatchProofs` |
| `StartupTypes` | `Spec => []TypeOK` | `StartupProofs` |
| `GcpClientsReleased` | `Spec => []ClientsReleased` | `StartupProofs` |
| `ReadyBeforeHandling` | `Spec => []HandlesWhenReady` | `StartupProofs` |

**Claims.** `ClaimExclusive` speaks of two workers and says nothing of the table,
so a step cannot be shown to preserve it: why should `Claim` not succeed while
another works? `LeaseHeld` supplies the reason: a working call whose lease has
not run out owns the row of its event, and the row is fresh. `Acquirable` refuses
a fresh row, so whoever acquires takes from a late call only. Two working calls of
one event that are both not late would own the same row, and a row has one token.

**Nothing lost.** Acknowledgements come from four places. `ReadClaimState`
acknowledges what it reads as processed. `Complete` acknowledges its own message,
and marks the row of its id; that this row carries the *message's* type is
`OwnType`, which holds since `AcquireClaim` wrote it. `Release` acknowledges when an error
was non-retryable, and `BlamesPoison` says only malformed payloads make such
errors. What was acknowledged stays accounted for because processed rows are
never rewritten (`ProcessedStays`). `ClaimInv` is the conjunction of the types,
these three per worker, and `NoEventLost`.

**Final records** need no strengthening beyond the types: `ClaimsChange` lists the
statements that write claims, `RowsNext` shows every write to `notifications` only
moves a row forward.

**Tokens.** `GoneDead`: whatever a call holds as unregistered, Firebase has retired.
Retirement is permanent, so it is still true when the deletion runs, however
late. `DeleteTokens` compares the user, which makes it blind to tokens that moved.

**Processed notifies.** `Served` describes the progress of a fan-out: while a call
has met no error, everyone its message is owed to and who is not left to do has a
row. It is kept by `Create` for the current recipient and by `RowsGrow` for those
served before; `Resolve` establishes it because who is subscribed throughout
is in whatever set it reads (`StaySubscribed`). At `Complete` nobody is left and
there was no error, and `CompletedBy` shows that an event becomes processed only
by a call for that very message, which is where `ProducerAssumption` is used.

**Processed pushes.** The same argument with "marked" in place of "has a row", for
users with a lasting device: such a user's token list is never empty, so the
only ways past them without an error are a row already marked and `MarkPushed`.

**Marked when reached.** `DoingInv` follows a call through its recipient's lasting
devices: while no send failed, each is still to be tried or has accepted the
push; at `mark` all have. A lasting device is never retired, so `UNREGISTERED`
cannot be its answer, and never moves, so `ListTokens` finds it.

**Acknowledged, therefore delivered.** `AckedReachesAll` is where the claims table,
the inbox and Firebase meet, and it follows from the four theorems above: what is
acknowledged and not malformed is processed, what is processed has its rows and,
where somebody has a lasting device, its marks, and a mark was set after each
lasting device accepted. `EventuallyAcked`, which TLC checks, says the
acknowledgement comes.

**The promise** is kept by a step simulation. `Untouched` says what most steps
leave alone; each remaining action maps to one abstract step: a `Create` that
inserts to `Note`, an accepted send to `Reach`, `MarkPushed` to `Mark` (by `DoingInv`),
`Complete` to `Finish` (by the invariants behind the two theorems on processed
events), an acknowledgement to `Acknowledge` (by `NoEventLost` in the next state).
Failing writes that were applied map like those that succeed. The deletion of a
user stutters, as the rows of users who may go are not promised (`KeptOwner`).

**Repeats are accounted for.** The bound says nothing of calls that have not pushed
yet, so a late call could break it any time. `Owing` adds them: a late call that may
still push a device counts as a push made (`Credits`), and the overrun that made it
late has been counted in `disrupted`. `Paid` then says where the one free push may
come from: it is made by a call that is not late and on its way to `MarkPushed`
(`Serving`), or the row is closed; a call that is about to push without being
disturbed (`Pending`) finds everything paid for. `ClaimExclusive` makes that call
the only one of its kind, and `Create` turns to a recipient only while the row is
not closed, for which `RowsGone` says that rows of deleted users do not come back.
A failure between the first send and `MarkPushed` counts for exactly the recipient
it hits (`MidPushCosts`), so a served recipient pays for nobody else.
All steps but three are `Calm` (they make no credit and no pending call); `TurnKeeps`,
`PushKeeps` and `OverrunKeeps` do the arithmetic of the others. `Credits` is always finite,
also when `Workers` is not: a step adds one call at most.

**Where pushes go.** `Aimed` follows what a call has read: the recipients it has
left are among those the database named during the call (`Meant`), and the devices
it holds were registered to its recipient since it turned to them. `Remembers` says the history of a call only
grows while it lasts, so what a read returned stays in it whatever Core does
later. That the row is still there when the push goes out, unless the user was
deleted, is `Orderly`.

**Routing.** `Decided` says the verdict is `Handle` of the envelope, so the
properties become facts about operators. `UnclaimedAreUnknown`: the way past the claim
is open only to types no handler is registered for, as every registered type is
either the chat type or a versioned one. `FanOutAnswers`: the semantic fields the gig
renderer adds are accepted, so nothing the resolver lets through is refused
later, and a fan-out answers "ok" or "retryable". `SameMessage`: claim id and row of a
chat message are both functions of its trimmed id, and of nothing else. For
the fan-out query, `WithoutLocation` and `SelectedLives` say what NULL does in each
half of the `WHERE` clause: an event without a place or a country skips that half,
an event with one passes it only for users who gave the same.

**Errors.** An error is the sequence of its nodes, so wrapping and joining are
concatenation, and "some node is non-retryable" (`Poisoned`) is kept by both
(`Wrapped`, `ErrorParts`, `Poisonous`). `errors.As` returns the *first* such node:
that there is one is a property of least elements, which `LeastIndex` takes from
the well-foundedness of inclusion on finite sets. `ErrorsInv` keeps the books at
each level: the joined errors of one recipient's sends (`SendAccounts`), those of
the loop over recipients (`LoopAccounts`), the error of the call (`CallAccounts`); each
says that there is an error exactly when something failed and that it is poisoned
exactly when the renderer refused a payload (or, for the call, the type was
unknown). For the tokens, `ClassificationKept` is the point: the marked error is on
top of the one `fmt.Errorf` wrapped, so the look through the tree finds it;
`TokensInv` then carries the set from answer to deletion.

**The batch.** `Place` ties each goroutine to the loop, its verdict and the mutex;
`SliceIsExact` says the slice names the records whose append is done, once each.
What a goroutine read is still the slice when it writes, because only the
holder of the mutex writes: this is where leaving out the mutex breaks the proof.
`AppendNew` is the fact about sequences.

**Start-up.** Types need `ReadSoFar`: `RenderParameter` finds the next name by
counting what it has read, so what has been read must be the first names and no
others (`FirstCount`); only then is a configuration built from all of them.
`ClientsHeld` says which clients are open at each point of the loading: the second is
not open before `openSecrets` returns, and the deferred closes run in the
opposite order, on every way out. `ReadyInv` collects, phase by phase, what the steps
before it established, for as long as a listener or a request exists (`Begun`). The
checks are scattered over the loaders: that the AWS path is staging's alone, and
that what the GCP path built may be used only if neither `Close` failed (`Checked`),
is carried from there to the first request, with what pgx was told (`Told`). It
assumes nothing of what the database accepts.

### Only model-checked

The four liveness properties `EventuallyAcked`, `Responds`, `ComesUpOrEnds` and
`TerminatesWhenAsked`: liveness under fairness is beyond the prover. Every safety
invariant and action property of the passing runs, and the refinement, is stated
by a theorem.

## 5. What is not modelled

* **Wording and layout**: localization keys and arguments, metadata, the FCM
  message, the fields of a log line. Of a renderer only its checks and the identity
  of its row are kept. The logger keeps no state.
* **A request body that breaks off** is answered 204, as the code does; whether
  Pub/Sub gets to see the answer on a broken connection is not modelled.
  OIDC authentication is done by Cloud Run.
* **A token handed to another user between the read and the send** receives the
  first user's notification. The model has this behaviour, and no property forbids
  it, as nothing in the repository does; `PushesGoWhereMeant` says it can happen
  only to a token that changed hands after the call turned to its first owner.
* **How many goroutines the errgroup admits and when `Shutdown` returns** are
  contracts of their libraries: `Go` waits for a slot and `ShutdownReturns` for the
  last request or the deadline by assumption, and no property restates either.
* **Deadlines of the configuration clients**: the code sets none.
* **Core, SQS, Pub/Sub, Firebase and the SDKs** are modelled as far as the service
  can tell.

## 6. Where it may be extended

The plan of the project is done: the service with its instances, routing, the
batch, the abstract specification and the refinement, users who leave, error trees,
start-up, and the theorems above. New modules come when the service grows: a
fourth event type is a new payload set and renderer in `EnvelopeRouting`; a renewed
lease is one action of `NotificationService`.
