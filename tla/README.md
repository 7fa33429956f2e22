# TLA+ verification of the AWS Lambda Rust runtime

This directory holds TLA+ models of the crates in this repository, TLC
configurations that check them on small instances, and TLAPS proofs of the
properties that matter most. Paths below are relative to `src/`.

## 1. Inventory

| Part | Where | State | Operations | What is hard | What makes it correct |
|---|---|---|---|---|---|
| Invocation loop | `lambda-runtime/src/runtime.rs` | one task per worker; the response and invocation in hand; `_X_AMZN_TRACE_ID`; `remaining_workers`, `errors` | poll `/next`, `process_invocation`, join workers | several long polls at once, lost connections, timeouts and retries at RAPID, a worker that dies | every invocation is answered once or goes down with its worker; an answer reaches its own invocation; the runtime returns only after the last worker |
| Tower layers | `lambda-runtime/src/layers/{api_response,panic,api_client}.rs`, `requests.rs`, `deserializer.rs` | the request id and invocation id of the call | deserialize, call the handler, build and post the answer | which failure is an answer, which one ends the loop | as above |
| Rate limiter | `lambda-runtime/src/rate_limiter.rs` | one static `AtomicU64` per call site | `rate_limited!` | relaxed atomics, truncation to seconds | a claimed interval is kept by all threads; a quiet call site is not silenced |
| SnapStart lifecycle | `lambda-runtime/src/runtime.rs:453-581`, `snapstart.rs`, `lambda-runtime-api-client/src/lib.rs:88-153` | hooks, connection pool | before-snapshot hooks, `/restore/next`, pool reset, after-restore hooks, error reports | failure half way, failure of the report, stale connections | order of the hooks, right endpoint, original error, no invocation before restore |
| Streaming bodies | `lambda-runtime-api-client/src/body/{channel,sender,watch}.rs`, `lambda-runtime/src/requests.rs:149-210` | a bounded channel, a demand watch with its waker, an error channel | `send_data`, `try_send_data`, `send_error`, `abort`, `poll_frame` | lost wakeups, either end dropped at any time, errors midstream | what is sent arrives in order; no stall; an aborted body does not look complete |
| API client construction | `lambda-runtime-api-client/src/lib.rs` | base URI, pool size | build requests, set origin | - | - |
| Graceful shutdown | `lambda-runtime/src/lib.rs:267-321` | signal listeners, a no-op extension | `spawn_graceful_shutdown_handler` | a signal before the listener exists, a hook that panics, an extension that fails, a main that returns | a hook that was started is not cut short by signals |
| Extension runtime | `lambda-extension/src/*.rs` | subscriptions, two HTTP listeners, processors | register, subscribe, serve logs and telemetry, event loop | subscribe before listen, failing processors, failing error reports | an event is processed once, an error is reported before the loop ends |
| HTTP adapter | `lambda-http/src/*.rs` | the request's origin | convert requests and responses, stream | conversion of headers and bodies by origin | responses have the shape their origin expects |
| Tracing and OpenTelemetry layers | `lambda-runtime/src/layers/{trace,otel}.rs` | spans | wrap a call | - | - |
| Event types | `lambda-events/src` | none (data types) | read and write JSON by serde's attributes, flattened structs and catch-all maps, untagged and tagged enumerations, time encodings | members absent, null, under an alias or unknown; boundary values of times; the first variant that fits | what was read, written and read again is the same, but for what a codec spoils; nothing is lost in a catch-all map; the right variant is taken |
| Integration tests, examples, scripts | `lambda-integration-tests`, `examples`, `scripts` | - | - | - | - |

How the parts interact. `Runtime::new` wraps the handler in three layers:
`RuntimeApiClientService` (posts) around `RuntimeApiResponseService`
(deserializes, builds the answer) around `CatchPanicService` (turns a panic of
the handler into a diagnostic). `run` and `run_concurrent` first go through the
SnapStart lifecycle, then poll `/next` with the API client, which all workers
share. A streaming answer is posted with a body channel whose other end is fed
by a task of its own. The rate limiter guards a warning inside
`RuntimeApiResponseService`. The graceful shutdown handler is a task beside the
loop, and uses `lambda-extension` to register an extension that subscribes to
nothing. `lambda-http` wraps handlers and calls `lambda_runtime::run` or
`run_concurrent`.

`PROJECT.json` lists the components, the hazards with their lines, and the
definitions with the lines they model.

## 2. Plan

Done:

1. `Runtime`, against the abstract `Invocations`; the inductive invariant in
   `RuntimeInv`, its proof in `RuntimeProofs`.
2. `RateLimiter`, proved in `RateLimiterProofs`.
3. `SnapStart`: hooks, restore, pool, reports and the start of the loop, proved
   in `SnapStartProofs`.
4. `BodyChannel`, and `ResponseStream`, which extends it with the task that
   feeds a streaming response.
5. `Listener` (the log and telemetry servers) and `Extension`, which extends it
   with registration, subscriptions, the event loop and the error reports; checked
   together, proved in `ExtensionProofs`, the servers alone and within an extension.
6. `GracefulShutdown`, which extends `Extension` (without processors) with the
   signal listeners, the hook and the end of the process, proved in
   `GracefulShutdownProofs`, with its refinement of `Extension`.
7. `HttpAdapter`: recognition of events, conversion of requests, of buffered
   responses and of the head of streamed ones, proved in `HttpAdapterProofs`.
8. `Encodings` and `Serde`, what serde's derive macros make of the attributes
   that `lambda-events` uses; the event types themselves as tables
   (`EventTypesHttp` and its five siblings); `Events`, which reads, writes and
   reads them again, proved in `EventsProofs`.
9. `StreamProofs`: the theorems about `BodyChannel` and `ResponseStream`.
10. `ImplementsPromise`: the safety half of `Runtime` => `Invocations`;
    `ReturnsLast`; what follows from the promise (`WithinCapacity`,
    `EndsAreFinal`).
11. `RoundTrips` for untagged enumerations, from a condition on their tables.
12. Where liveness is out of the prover's reach, its safety half: no wake is lost
    in a body channel (`WakesArrive`, `EndsNeverWaitForEachOther`), no lock is left
    behind in a server (`NoLockLeftBehind`), the SnapStart lifecycle descends
    (`LifecycleDescends`), an unanswered batch always has somebody who can move
    (`NothingIsStuck`), a caught signal and an open init phase have a task on its way
    to them (`SomebodyAttends`, `TaskGoesOneWay`), and the end of the last worker is
    always seen (`CountIsTrue`).
13. What the platform makes of it all: answers and posts are paired
    (`AnsweredOnce`), timely answers count (`OnTimeAnswersCount`), a batch is awaited
    on one connection, whatever still works on it, answered for good and taken in order
    (`BatchesInHand`, `AnswersAreFinal`, `NobodyOvertakes`).

Left:

14. The body of a request and its extensions (`lambda-http/src/ext`), and the
    `Logs` API's records.

## 3. Modules

### Invocations - the promise

Attempts and slots: an attempt is taken into a free slot and ends with an answer
or together with its slot. It knows nothing of workers or HTTP.

### Runtime - the invocation loop

Constants choose the entry point (`run` or `run_concurrent`), the value of
`AWS_LAMBDA_MAX_CONCURRENCY`, the build (debug assertions) and the log level,
because all four change the control flow. `Workers` is what
`run_concurrent_inner` spawns, or the one sequential loop.

A worker's `pc` follows `concurrent_worker_loop` / `run_with_incoming` and
`process_invocation`:

| pc | the code is at | actions |
|---|---|---|
| `polling` | `client.call(NextEventRequest)` | `NextEvent`, `NextBare`, `NextError` |
| `received` | the top of `process_invocation` | `IgnoreNoContent`, `Intake`, `IntakeFails` |
| `waiting` | `service.ready()`, then `call` up to the handler | `ReadyFails`, `CallFails`, `DeserializeFails`, `ReportFails`, `CallHandler` |
| `handling` | the handler's future | `HandlerReturns`, `BuildFails` |
| `posting` | `RuntimeApiClientFuture::Second` | `PostReply`, `PostFails` |
| `exited` | the loop has returned or unwound | (`JoinNext`) |

User code runs in more places than the handler's future. `ready` of the user's
service may fail or panic (`ReadyFails`). The handler's value and error are turned
into an answer outside of `CatchPanicService`, and that may fail, if a request cannot
be built, or panic, in a `Serialize`, an `IntoFunctionResponse` or an
`Into<Diagnostic>` of the user: `BuildFails`. A payload that does not deserialize is
reported (`DeserializeFails`), unless the report cannot be built (`ReportFails`).

`Exit` is the one way out of a loop: in sequential mode it is also the return of
`run`; in concurrent mode the main task sees it through a `JoinHandle`
(`JoinNext`) and returns when there is none left (`MainReturns`).

A `/next` response is a record of what the code can tell apart about it: its
status, what reading body and headers comes to, whether the payload
deserializes, whether the invocation id header is readable, whether there is a
trace id. Bytes, header values and messages are not modelled.

RAPID (the Runtime API) is external: it hands out attempts, one outstanding per
request, accepts a post for the outstanding attempt of its request - if the post
has an invocation id, for that attempt only - and times attempts out at any
moment. Posts under way form a set, so they arrive in any order, late, or never.

### RuntimeInv, RuntimeProofs - the proof

`RuntimeInv` states the inductive invariant `IInv` as named parts: what a worker
holds at each point (`HoldingOK`), to whom an attempt in hand belongs
(`OwnershipOK`), what is known of queued attempts (`QueuedOK`), what posts under
way and accepted answers say (`PostsOK`), the main task (`MainOK`) and the
process environment (`EnvOK`). `RuntimeProofs` proves it, one lemma per action.

### RateLimiter

The threads of a process at one call site. The atomic is its modification order
(`order`) and for each thread the newest value it has seen (`seen`): a relaxed
load may return any value not older than that, the compare-exchange acts on the
last one. A `Duration` is whole seconds and a fraction.

### SnapStart

The state follows `run_restore_lifecycle`: `at` is the index of the resource
whose hook is next, `up` the resources that are up. A hook that fails or panics
may have done its work or not. `vm` tells the VM before the snapshot from the
restored one, `idle` which VM the pool's idle connections were opened in, so
that `reset_pool` is visible: a call takes an idle connection if there is one.
What a resource rests on (`Foundations`) is the user's affair; the only
assumption is that a resource is registered after its foundations, as
`snapstart.rs` asks. `RestoreFails` is a transport error or a status that is no
success; both mean that the VM was not restored, which is how the code reads
them (`runtime.rs:505-508`). The one path left out is a `/restore/next` request
that cannot be built: its parts are constants.

### BodyChannel

The sender and the connection are two threads. `pc` follows
`Sender::send_data` (register the waker, load the watch, ask the data channel,
send), `rpc` follows `ChannelBody::poll_frame`, and both are stepped through
because the other thread may move in between. The operations of
`futures-channel` are one step each and external: with `mpsc::channel(0)` a
handle that has sent is parked until the receiver has taken an item, a fresh
clone is not parked, and closing the receiver unparks all. Wakers are explicit:
a flag says where one is left, `woken` which task was called, and a task that
sleeps goes on only when it was called. Drops go field by field in declaration
order. A `send_data` future may be dropped where it waits (`CancelSend`).

`NoWakeLost` says of a task that sleeps and was not called that it has nothing to
do: for the sender the channel is full and the body lives, for the connection
nothing waits and the sender's end is not complete.

The watch starts at `WANT_READY` (`channel.rs:54`), so `WANT_PENDING` is never
seen and the first chunk may be sent before the body was polled.

### ResponseStream

Extends `BodyChannel`: the user of the Sender is the task spawned in
`requests.rs:182-206`. `stage` is what it sent last. The user's stream yields a
chunk or an error, ends, or panics. `Rendered` is `to_tailer`: an error becomes
text that is sent like a chunk. The text itself is one model value.

### Listener

One server per API. `listener` is the listening task: `unbound` at the top of
its loop, `listening` between bind and accept, `dead` after an unwrap. The code
binds the port anew for each connection (`extension.rs:264-276`), so accepting
one resets whatever else waits in the backlog (`Reset`). `conn` follows a
connection's task through `log_wrapper` / `telemetry_wrapper`: `reading` the
body, `locking` the processor's mutex, `processing`, `answering`. `lock` is the
queue of that mutex, holder first, as tokio's is fair.

A connection may break at any time (`Breaks`): the platform then counts what it sent
on it as lost, but the task does not know (`cut`). It goes on, takes the mutex and
runs the processor, while the platform may deliver the batch again to another task;
its answer, or the 400 for a body that it cannot collect, reaches nobody. It ends
when the server notices (`Noticed`), wherever it is then, which may be long after it
has answered. `ProcessorPanics` ends the task at once. Either way the guard frees the
mutex (`Release`).

The platform connects, delivers, and delivers a batch again that got lost; what it
does with an error answer beyond that is left out. An error of the processor is not
told from a success, since the code answers both alike.

### Extension

`pc` follows `Extension::register` (per processor: validate, make the service,
spawn the listener, subscribe) and `RegisteredExtension::run` (poll, call the
events processor, report, end). The subscription is two steps, because the
platform may have accepted it when the answer is lost (`HandleSubscription`,
then `SubscriptionAccepted` or `SubscriptionFails`). The listening task runs
beside all of this; a `MakeServicePanics` ends the program. `Endpoint` is the
code's choice of error endpoint by the kind of the event.

### GracefulShutdown

`main` is the caller of `spawn_graceful_shutdown_handler`, `helper` the task it
spawns, whose first poll installs the SIGINT and then the SIGTERM listener and
then polls the extension: `tokio::join!` polls its first future first
(`polled`). Signals are explicit: `handled` are those whose default action the
process has replaced, for good, `pending` those that came and nobody received.
The hook's return (`HookReturns`) and `std::process::exit(0)` (`exit`) are two steps,
and the program's main may return, with status 0 as well, or fail at any time, also
between the two and while the hook runs (`MainEnds`).
The platform sends SIGTERM only once the init phase is over, which it is when
the extension has asked for its next event. Of `Extension` only the part that an
extension without processors and event handlers has is taken.

### HttpAdapter

A run is one invocation: the client's request becomes an event of its service,
which the deserializer recognises by the fields its types require (`RestFields` and
the like, in `Order`, as far as the build's features go), `from` converts it,
the handler answers, `convert` and `from_response` convert back, the
serializers of `lambda-events` write it, and the service reads it. A header is
the sequence of its `Values`; `"x"` is any header but `set-cookie`. A body is the
encoding its bytes are in (`payload`), of which the text conversion keeps what
decodes. `RespondStreaming` is the adapter of `run_with_streaming_response`: the
prelude it makes is the same for every service, and cookies are taken out of the
headers. A frame of the handler's body is passed on as it is, an error of the body
is an error of the stream in `ResponseStream`, and trailers end the stream
(`BodyStream::poll_next`). A value may be `Opaque` (not visible ASCII) or `Raw` (not UTF-8). How
the services fill events and read responses is external: it is taken from the
fixtures of `lambda-events` and the comments in `response.rs`. So is the JSON that
`http_serde` makes of a prelude's headers.

### Encodings, Serde - how a struct is read and written

`serde` is a dependency; what its derive macros do is modelled by the attributes
that `lambda-events` uses. A JSON object gives each name the values that stand
under it, in order, so that a name may occur twice. A struct is a record: what
each member may be (`kind`: required, optional, defaulted, nullable, skipped when
empty), how its value is converted (`codec`), its `alias`, and for each catch-all
map in it the names that this map does not take (`claimed`). `Accepts` says which
objects are read without an error, `Read` what they are read into, `Write` what
that is written as.

`Encodings` has the codecs that are not exact. A value is an integer: 0 is the
default of its member, `Null` is null and None, and for times the number is the part
below the whole seconds, which is what a conversion can spoil. The division of
milliseconds in an `f64` is modelled by its rounding to a multiple of 2^-22, which
is that of the years 2004 to 2038.

### EventTypes and its tables - the types

`EventTypes` has the constructors of the tables: a struct from its members grouped
by kind (`Closed`, and `Open` with a catch-all map), `Flatten`, and types as
`Plain`, `Untagged` or `Tagged`. `Flatten` follows serde's order: a flattened struct
without a catch-all map takes its members out, one with a map looks through
everything and takes nothing out. The tables are one definition for each struct and
enumeration of the crate, named for it:

| module | types |
|---|---|
| `EventTypesHttp` | load balancer, API Gateway, function URLs, VPC Lattice, AppSync, authorizer policies |
| `EventTypesStreams` | DynamoDB, Kinesis and its analytics, Firehose, SQS, SNS, Kafka, ActiveMQ, RabbitMQ, DocumentDB, batch responses, time windows |
| `EventTypesUsers` | Cognito, Lex, Connect, Chime, Client VPN, Bedrock agents, IoT, SES |
| `EventTypesCloudWatch` | alarms, CloudWatch events, logs, EventBridge |
| `EventTypesOperations` | S3, CodeBuild, CodeCommit, CodeDeploy, CodePipeline, Config, Control Tower, CloudFormation, Secrets Manager, auto scaling, ECR scans |
| `EventTypesPlatform` | the records of the Telemetry API in `lambda-extension`, the prelude of a streamed response in `lambda-runtime`, the request contexts of `lambda-http` |

Each member of a struct is its own value in the model: a struct inside a struct is
a value of its member, and has its own row.

### Events

A function at work: an event of one of the `Types` arrives, is parsed, written and
parsed again (`stage`), as every test of the crate does with its fixture
(`fixtures/mod.rs`). `VariantsAssumption` is what serde needs to tell the variants
of an enumeration apart after a round trip: different tags, or, without tags, that
an earlier variant refuses again what it has refused once (`Apart`); TLC evaluates
it for every table. `catching` is the feature `catch-all-fields`. The texts are
those of each variant in which one member is out of the ordinary - absent, null,
empty, any value its codec tells apart, under its alias, under both names - with or
without a member the type does not know. `Parse` takes the first variant that
accepts an object.

## 4. Runs

| run | instance | shows |
|---|---|---|
| `runtime_concurrent` | two workers, release build, attempts `a1`, `a2` of one request | `NoCrossWiring`, `PostedOnce`, `NoSilentDrop`, `ReturnsAfterAllWorkers` under every interleaving; refinement of `Invocations` with its liveness (`KeepsPromise`), `QueueIsServed`, `EventuallyReturns` |
| `runtime_sequential` | one worker through `run_concurrent` with the variable unset, debug build, TRACE on, three attempts | every single flaw of a response; `KeepsPromise`, `TraceEnvMatches` |
| `rate_limiter` | three threads, half seconds, an interval of 1.5 s, clock to 3 s | `ClaimsAreHonoured`, `SuppressedNearACall` |
| `rate_limiter_interval` | the same with an interval of 1 s | violation of `OncePerInterval`, see below |
| `snapstart` | four resources in a diamond, with and without SnapStart | the five properties of the lifecycle |
| `body_channel` | two kinds of chunk, up to four items accepted (`MaxSent`) and calls in any order | `EndIsComplete`, `BackPressure`, `NoWakeLost`, `FailsOnlyIfGone`, `SendReturns`, `EndIsReached` |
| `response_stream` | two kinds of chunk, up to four items of the stream (`MaxYielded`) | `WholeStream`, `StopsSoon` |
| `extension` | two processors, of the Logs and the Telemetry API; two connections and two batches, one of them malformed, for the first; one broken connection or panic (`MaxFaults`) | `SubscribedInInit`, `FailureEndsRun`, and of the servers `ProcessorSerial`, `AnswersAreTrue`, `BatchesDelivered`, from registration on |
| `graceful_shutdown` | both signals, each once, in any state | `TerminationHeard`, `HookRunsOut`, `SignalEndsProcess`, `InitPhaseEnds` |
| `http_adapter` | all 62 sets of features, eight kinds of event, up to two values of a header, a parameter and a cookie, every kind of body | `ResponseInKind`, `RequestArrives`, `HeadersArrive`, `BodyArrives` |
| `events` | every type of the tables, with and without `catch-all-fields`, every millisecond of a second | `RoundTrips`, `NothingLost` |
| `events_identity` | the identities of AppSync's callers | violation of `KeepsVariant`, see below |

Why the bounds are enough. Two workers are the fewest that can hold answers to
two attempts at once, and two attempts of one request are the fewest for which
an answer can meet the retry of its own request; that an answer never meets
another request is the weaker half of the same property, and proved for any
number (section 6). In `Runtime` nothing else is bounded: an attempt is
delivered once, so the runs are finite. Three threads let one hold a stale view
while two race for the exchange, and three seconds let two intervals pass. In
the diamond of `snapstart` every relation of two resources occurs (below, above,
beside). A body channel holds one chunk and, by clones, errors; four items let
an error meet a full channel, and leave chunks before and after it. Two
connections of an API are one with the processor and one that waits for it, or one
accepted and one in the backlog, or one that broke and one that gets its batch again;
a second fault only repeats the first. The second API takes part in the registration,
where the order of the processors matters; servers of two APIs share nothing. A
signal is sent once because a second one of its kind, before the first is
received, is merged into it by the operating system, and later meets a task that
is in its hook. Two values of a header are the fewest that tell the first, the
last and all of them apart. In `events` one member of a text deviates and one
member is unknown: members are read and written independently of each other, but
for the names they are read under and the variants they decide between, which two
members already show. No constant of the tables is bounded, and fractions are all
there are.

What the violations show (`PROJECT.json`, "findings", quotes the lines):

- `rate_limiter_interval`: `rate_limiter.rs:15` says at most one call per interval;
  `NEXT_CALL` holds the end of the interval cut down to whole seconds, so that the
  next call is evaluated up to a second before the interval is over. What holds is
  that nobody is evaluated before the second that was claimed (`ClaimsAreHonoured`),
  and that less than a second is missing (`CloserByLessThanASecond`, section 6).
- `events_identity`: `AppSyncIdentity` is an untagged enumeration whose first
  variant, IAM, requires only `sourceIp`. A Cognito identity has one too, so it is
  read as an IAM identity and its claims are lost (without `catch-all-fields`), and
  a function that trusts the variant takes a Cognito user for an IAM principal
  (`lambda-events/src/event/appsync/mod.rs:299`).

Other differences between code and docs met on the way. No run covers these claims:
no property asserts them, and none asserts what the code does in their place.

- The comment at `runtime.rs:287-290` says that errors returned from user code are
  reported and the worker continues; an `Err` of the user service's `poll_ready`
  (`runtime.rs:700`) ends the worker without a report. The action is `ReadyFails`; the
  properties say nothing of what such an error comes to, beyond `NoSilentDrop`.
- The docs of `run_with_streaming_response` (`lambda-http/src/streaming.rs:179-181`)
  promise an error if `AWS_LAMBDA_MAX_CONCURRENCY` is set; `run`, which it calls,
  logs a warning and serves (`runtime.rs:420-431`).
- `lambda-runtime/src/lib.rs:233-238` says that a signal listener that cannot be
  installed panics the function; the `unwrap` (`lib.rs:291`) is inside the
  spawned task, so the function has returned and nobody notices
  (`signalPanics` in `GracefulShutdown`).
- The comment at `lambda-runtime/src/requests.rs:158` says that errors in the
  middle of a stream are reported by trailers; they are sent as a data chunk
  (`requests.rs:198`), and `send_trailers` is never called. `WholeStream` is about what
  comes before the first error.
- The comment at `lambda-http/src/response.rs:114-115` says that duplicate headers
  are combined with commas for API Gateway v2; the serializer takes `headers[key]`,
  the first value (`lambda-events/src/custom_serde/headers.rs:31`). `HeadersArrive`
  says nothing of several values in a format that has room for one.
- The comment at `lambda-http/src/request.rs:217-218` speaks of merging headers;
  `extend` replaces, so a name that is in both maps keeps only the values it has in
  `headers`. `RequestArrives` says nothing of several values of such a name.

In `lambda-events` the tests read, write and read again each fixture and assert that
the values are equal (`fixtures/mod.rs:14-17`). The tables show members and structs
of which that is not true in general. `RoundTrips` claims equality, and leaves them out
(`Lossless`, `OneCatchAll`):

- `deserialize_milliseconds` (`encodings/time.rs:112`) cuts off the milliseconds it
  gets from the fraction of an `f64`: 496 of the 1000 fractions come back one
  millisecond early.
- `float_unix_epoch` reads a fraction as nanoseconds and writes none.
- A header with several values is written with its first.
- `TimeWindowEvent` and `KinesisTimeWindowEvent`, and the responses that flatten a
  struct with a map of its own, have two catch-all maps with `catch-all-fields`:
  both take an unknown member, so it is written twice, and cannot be read again.

And, where the value comes back but is not what was meant, or is refused:

- `deserialize_seconds` reads the digits after the point as a count of
  milliseconds, so .5 is 5 ms.
- A member with `serde(default)` and without `deserialize_nullish` may be absent,
  but not null; one whose type is a plain `Value` may be null, but not absent.
- A batch of telemetry with one record of an unknown type is refused whole.
- Seen, but outside the tables: `CloudWatchAlarmStateReasonData::Generic` is quoted
  once more on each trip, and any object that is no metric's becomes `Composite`;
  a `Body::Binary` is written in base64 and read again as text.

Each property of a passing run is paired with a plausible fault in the code it
is about ("Faulty variant" in the modules, "mutants" in `PROJECT.json`): put in
place of the definition it changes, it makes TLC find the property violated.
`TypeOK` is no run's property: it is part of the proved invariants of `Runtime`
(`TypeCorrect`), `RateLimiter`, `SnapStart`, `Listener` and `BodyChannel`.

## 5. Fairness

- `Runtime`: weak fairness of every worker's own steps and of the main task
  (tokio polls a task that was woken; handlers terminate; an HTTP call ends).
  RAPID times out what is not answered (weak), and hands out what is queued as
  long as it is asked again and again (strong: a worker's poll may fail between
  two offers). Nothing forces a poll to fail, an answer to arrive or a handler to
  succeed. Without strong fairness RAPID could refuse service for ever, which
  the client cannot change.
- `SnapStart`: `run` is polled, hooks terminate, calls return - weak fairness of
  the lifecycle as a whole. Whether a call or a hook succeeds is left open.
- `BodyChannel`: weak fairness of what a task does once called or woken, and of
  the connection, which polls the body until it ends and drops it then. The
  sender is never forced to call anything or to be dropped, the connection never
  to break. A sleeping task has no step until it is woken, so a lost wake is a
  violation of `SendReturns` or `EndIsReached` and not hidden by fairness.
- `ResponseStream`: the same, and the user's stream yields until it ends. For a
  stream that never yields again the task waits for ever, also after the
  connection has gone; `StopsSoon` holds without fairness.
- `Listener`: weak fairness of the listening task, of each accepted connection
  and of the processor (tokio polls them, processors return). The platform
  connects and delivers if it can again and again (strong: the port is closed
  between two connections). Connections break, and processors panic, at most
  `MaxFaults` times, for a platform whose every delivery breaks delivers nothing.
  Nothing makes a server notice that a connection broke: its task may work on for as
  long as its processor does, and hold the mutex meanwhile.
- `GracefulShutdown`: weak fairness of the task's steps, of the hook, which returns
  or panics, and of the exit behind it. Nothing forces a signal, the end of main or
  a failure.
- `RateLimiter`, `Extension`, `HttpAdapter` and `Events` have safety properties
  only.

## 6. Proofs

All proofs are of the specifications without fairness, for every value of the
constants that satisfies the named assumptions.

`RuntimeProofs` - any number of workers, attempts and requests, both entry
points, both builds, both log levels. `RuntimeInv!IInv` is needed because, for
example, `NoCrossWiring` speaks of accepted answers and is preserved by RAPID
only if every post under way names the request, and if it can the attempt, it
was made for; that in turn needs that the attempt a worker holds is the one its
response carries and is no other worker's. There is one lemma per action, and
`NextIInv` joins them. Proved from it: `TypeCorrect`, `CrossWiring`,
`AtMostOnePost`, `NothingDropped`, `TraceEnvCorrect`. With the main task's books
(`JoinsOK`: an entry for each joined worker, and a count of the rest) it gives
`ReturnsLast`.

Two more invariants are about RAPID's side. It waits for one attempt of a request at a
time and its answered attempts stay answered (`AnswerOK`); a post is on its way or was
accepted, not both, and is what the runtime posted for its attempt (`OnePlaceOK`),
which holds because a worker posts only for an attempt that nothing was posted for.
Proved: `AnsweredOnce`, answers and posts are paired one to one and an error is never
recorded as a response; `OnTimeAnswersCount`, a post that RAPID handles while it waits
for the attempt it was made for is accepted for exactly that attempt: the ids that the
runtime echoes never get a timely answer rejected, which `NoCrossWiring` alone would
allow. From the main task's books and from a sequential loop being `run` itself
(`SequentialEndOK`) follows `CountIsTrue`: `remaining_workers` is the number of workers
whose end was not seen, at least that of the living, its subtraction never saturates,
and when all workers are gone there is an end left to see or `run` returns.

`ImplementsPromise` maps each attempt to its status and counts the living workers.
A poll and the end of a worker without an unanswered attempt need a free slot:
`SlotIsFree` shows that the running attempts map one to one to the other living
workers, those that hold them. A worker's end then loses exactly the attempt it
holds (`ExitMaps`), and handing the answer to the client answers exactly that one
(`SendMaps`); all else is a stutter. With the same map of attempts to workers
`WithinCapacity` says that no more attempts run than workers live; `EndsAreFinal` is
read off the promise's steps.

`RateLimiterProofs` - any set of threads and any interval, for a clock that
stays below `Duration::MAX` (an assumption named in the module). The
modification order of `NEXT_CALL` mirrors the evaluated calls: after the
initial 0 it holds the end of each call's interval, cut down. A compare-exchange
succeeds only for a thread that saw the newest value, and found its own reading
of the clock at or after it, which keeps it behind the claim of the last call and so
of all. Proved: `NoClaimIsJumped`, `SilenceIsJustified`; and since a claim is the end
of an interval less a fraction of a second, `CloserByLessThanASecond`: two calls may
be closer than the interval, but not by a second. The values of `NEXT_CALL` ascend
strictly (`SpacedClaimsAscend`), so none comes back and a compare-exchange that
succeeds has seen the newest one, although it compares values only:
`NoClaimComesBack`. Every value but the initial 0 is the end of the interval of a
call, cut down, so a thread that is turned away by an old value is turned away less
than an interval after that call: `StaleViewsSilenceNothing`, for any view, where
`SilenceIsJustified` is about a current one.

`SnapStartProofs` - any resources and foundations. The resources that are up are
always a prefix of the registration order, and every resource is registered
after its foundations, so a prefix that has a resource has its foundations. The
lifecycle shortens the prefix, then lengthens it; a hook that fails leaves it one
longer or shorter, which is a prefix again. Proved: `DependenciesRespected`,
`NeverServesUnrestored`, `ErrorReported`, `PoolIsFresh`. `LifecycleDescends` gives
the lifecycle a natural number (`Remaining`) that each of its steps lowers, so it
cannot go on for ever; that it does go on until it ends is the fairness that TLC
checks `LifecycleTerminates` under.

`ExtensionProofs`, first part, about `Listener` - any APIs, connections and batches,
with any of them malformed. The queue of a processor's mutex names each task at most
once and only tasks that await or hold it; a task that holds it is the head. Whoever
leaves the queue moves those behind it up by one (`QueueLeft`), and only the head leaves
while it processes, or a waiting task whose end the server noticed. So two holders would be
the same head, and who waits has a live task at the head (`WaitsForSomebody`). Proved:
`OneBatchAtATime`, `AnswersTrue`, `NoLockLeftBehind`.

Where a batch is: a task has at most one in hand and works on it, for the API it was sent
to; the platform awaits what it sent on exactly one connection that is not broken, whose
task has it in hand (`HandsOK`). Tasks of broken connections may have the same batch in
hand, as a broken connection ends nothing but the platform's wait. A step hands a batch
over whole, or none (`HandsUntouched`, `HandEmptied`, `HandFilled`). With the queue's order (`OrderIsKept`: who leaves moves the others up,
who comes goes to the end) this gives, for servers within an extension: `BatchesInHand`;
`AnswersAreFinal`, an answered batch stays answered, whatever becomes of the tasks;
`NobodyOvertakes`; and `NothingIsStuck`, the safety half of `BatchesDelivered`: a batch
of a subscribed API that is not answered has a listening task to be sent to, or some
task of its API can move: the one it is with, or the one that this waits for.

Second part, about `Extension` - any order of processors, any events and traffic. While
the extension registers, the accepted subscriptions are exactly those of the processors
before `at`, and each has a listener that was spawned; a listener never returns to the
state before that. The report, if there is one, was made when the run began to end.
Proved: `SubscribedFirst`, `OneReport`. The extension's own task touches no connection
and no mutex (`TaskLeavesConnections`), and leaves the listeners in states that a server
alone has, so the servers' invariant holds in an extension as well: `ExtensionServers`,
`ServersInExtension`.

`GracefulShutdownProofs` - the extension is polled only after both listeners are
in place, and what was replaced as default action stays replaced, so a SIGTERM,
which the platform sends after that, is caught. Proved: `TerminationIsHeard`,
`HookIsLetRun`; and, step by step, `HandlerIsExtension`: the handler's steps on
the extension's variables are an extension's. The safety halves of the two liveness
properties rest on `StageOK`, what the task's stage says of main, of the listeners and
of the hook. `SomebodyAttends`: a caught signal, and an init phase that is still open,
always have a task that can take its next step, unless a listener failed or the hook
panicked. `TaskGoesOneWay`: no step of anybody sets the task back, and each of its own
lowers the number of steps that are left (`StepsLeft`), which is never above six.
`HookIsLetRun` needs that while the hook runs the task is in it, and that both
signals are caught from before it on (`SignalsOK`), so neither the task's exit nor a
signal can end the process.

`StreamProofs` - any chunks, any user of the Sender that calls its operations in any
order (`ChannelSpec`). Until the body is dropped, what was accepted is what was received
followed by what waits (`DeliveryOK`); a body ends only when nothing waits and nothing
can come, so its end is complete, and an error, which is received last, is not behind
it. Each waiting item parked the handle that sent it, and chunks come from one handle,
only while that is not parked (`RoomOK`), so one chunk waits at most. Proved:
`CompleteEnd`, `OneChunkWaits`, `FailureMeansGone`. For the wakes a second invariant
(`WakeOK`) says where the waker of a sleeping task stands: with the parked handle, with
the data channel or with the trailers, in each case where the event that ends the sleep
looks for it. Proved: `WakesArrive`; and as a sender sleeps only on a full channel and a
receiver on an empty one, `EndsNeverWaitForEachOther`. The calls of `ResponseStream`'s
task are some of those (`TaskIsCaller`, `TaskUsesChannel`), so this carries over: what
was accepted are the first pieces of the framed stream, all that the task has begun but
the one at hand (`FramingOK`), and the task returns, and drops the sender, only when
that is the whole stream, the stream panicked or the body is gone (`ReturnOK`); the
pieces before the first error are then among those received. An item
taken when the body is gone finds the watch closed at once (`LateOK`). Proved for
streams of any length: `StreamArrives`, `TaskStops`.

`EventsProofs` - any table of types (`TypesAssumption`: its structs are well
formed, and the unknown member is unknown) and any fractions of a second
(`FractionAssumption`). The codecs are read and written within their values and
return what is `Lossless` as it was (`CodecReturns`; the arithmetic of milliseconds,
which keeps a fraction within its second, is `Milliseconds`); so each member that was read is written so that it is read again
(`MemberReturns`), and the object as a whole is accepted (`StructReturns`), no name
being written twice when there is one catch-all map. The inductive invariant
`Computed` says what each variable was computed from. What an earlier variant of an
untagged enumeration has refused it refuses again: for a member that both variants
have by the kinds of the two (`MemberStillRefused`), for the others because they are
written as they were, or, where they are dropped, because a required one is missing
(`StructStillRefused`); so a written value is read as its own variant
(`VariantReturns`). This needs `VariantsAssumption`. Proved for every table:
`NothingLostHolds`, `RoundTripsHolds`. Which of two variants that both accept a text
should have it is another question, which `events_identity` answers.

`HttpAdapterProofs` - any builds, any values of headers, parameters and trace ids and
any number of them, any responses of the types that `AdapterAssumption` names. The
invariant says that the origin is the first variant that fits, that the request is
what the conversion makes of the client's, and that what the client gets was made of
the handler's response, buffered or streamed. The first fitting variant is that of
the service, whenever its feature is on, or, for a WebSocket event with a method,
`ApiGatewayV1`, whose responses have the same format; the fields that the types
require occur in no event of another service (`FieldsDecide`, `OrderOfFeatures`,
`TakenInKind`). The rest is about sequences: of one value at most the first and the
last are all (`OneElement`), cookies keep their places (`CookiesInPlace`), and what
the prelude's map leaves out are values that are not visible ASCII (`AllVisible`, by
the least place at which it would fail). Proved: `InKind`, `RequestComplete`,
`HeadersComplete`, `BodyReadable`.

Only model-checked: all liveness (`QueueIsServed`, `EventuallyReturns`,
`LifecycleTerminates`, `SendReturns`, `EndIsReached`, `BatchesDelivered`,
`SignalEndsProcess`, `InitPhaseEnds`), which is out of the prover's reach with
fairness, and with it the liveness half of `KeepsPromise`. What a proof of them would
start from is proved: that somebody can move (`NothingIsStuck`, `SomebodyAttends`,
`CountIsTrue`, `WakesArrive`, `NoLockLeftBehind`) and that moves lead to an end
(`LifecycleDescends`, `TaskGoesOneWay`); "can move" is stated by the guards of the
actions, as ENABLED is out of reach too. Every safety property of
a passing run is a theorem. That the tables satisfy `TypesAssumption` and
`VariantsAssumption` is evaluated, not proved. An induction over data is used in one
place (`AllVisible`), as a least counterexample: the library's induction rules take
an operator, which the installed provers cannot instantiate.

## 7. Not modelled

- Contents: header values, JSON, error messages, log lines, spans. What the code
  decides by them is a field of a response (`Runtime!AllShapes`).
- `Context` deadlines and the client context: copied, never acted on.
- The size and time-out settings of the HTTP client; TCP and HTTP themselves.
- `DecodedLength`: `channel()` makes chunked bodies, for which it never changes.
- Memory orderings other than the relaxed atomic of the rate limiter: the watch
  uses `SeqCst`, and its waker cell is the `AtomicWaker` of `futures`, external.
- `tracing`/OpenTelemetry layers: they hold no state another part reads.
- `lambda-extension`: the text of requests, the accept-feature header; time-outs of
  the platform; the records of the Logs API and the type of a next event, which are
  only read.
- `lambda-http`: URLs, stages and paths, a request's body, extensions and cookies,
  the status code; the frames of a streamed body, which `ResponseStream` has as
  items.
- `lambda-events`: the JSON within a text of `CloudWatchAlarmStateReasonData`, the
  compressed `AwsLogs`, the type `Body`, the helpers that fill a batch response
  (`add_failure`, `set_failures`), `CognitoIdentity` with its two aliases, types that
  are only read or only written. The values of members beyond what a codec tells
  apart.
- API client construction: URIs and connectors are built once from constants and
  hold no state the rest reads; the pool is in `SnapStart` as far as it has a past.
- Integration tests, examples and scripts: they hold no logic of the crates.
