------------------------------ MODULE Runtime ------------------------------
(***************************************************************************)
(* The invocation loop of the Lambda runtime (lambda-runtime/src/          *)
(* runtime.rs with the Tower layers it wraps the handler in), against the  *)
(* Runtime API (RAPID) it polls.                                           *)
(*                                                                         *)
(* A worker asks /next, turns the response into an invocation, waits for   *)
(* the service to be ready, calls it, posts the answer and asks again.     *)
(* `run` and an unset AWS_LAMBDA_MAX_CONCURRENCY give one worker that is   *)
(* the main task itself; `run_concurrent` with a limit above one spawns    *)
(* one task per slot and a main task that joins them.                      *)
(*                                                                         *)
(* RAPID hands out attempts.  An attempt that timed out may be retried as  *)
(* another attempt of the SAME request id, which is what the invocation id *)
(* header is for.  Attempts that are lost, answered late or answered over  *)
(* a broken connection are all possible.                                   *)
(***************************************************************************)
EXTENDS Naturals, Sequences, FiniteSets

CONSTANTS
  Attempts,       (* the attempts RAPID makes                              *)
  Requests,       (* the request ids                                       *)
  ReqOf,          (* the request id of each attempt                        *)
  Shapes,         (* what a /next response carrying an attempt looks like  *)
  Entry,          (* the entry point: "run" or "run_concurrent"            *)
  EnvConcurrency, (* AWS_LAMBDA_MAX_CONCURRENCY as a number, or NoEnv      *)
  DebugBuild,     (* are debug_assertions compiled in?                     *)
  TraceEnabled,   (* is the TRACE log level enabled?                       *)
  NoEnv, NoAttempt, NoId, NoWorker

\* status:  the HTTP status;
\* intake:  what reading the body and the headers comes to: a Context, an
\*          Err, or the panic of an `expect` on a header that is absent;
\* payload: does the body deserialize into the handler's type?
\* invId:   the lambda-runtime-invocation-id header;
\* trace:   is there a trace id header?
AllShapes ==
  [status : {"ok", "noContent", "serverError"}, intake : {"ok", "err", "panic"},
   payload : {"ok", "bad", "notUtf8"}, invId : {"ok", "malformed", "absent"},
   trace : BOOLEAN]

ASSUME RuntimeAssumption ==
  /\ ReqOf \in [Attempts -> Requests]
  /\ Shapes \subseteq {s \in AllShapes : s.status # "noContent"}
  /\ Entry \in {"run", "run_concurrent"}
  /\ EnvConcurrency \in Nat \cup {NoEnv}
  /\ NoEnv \notin Nat
  /\ DebugBuild \in BOOLEAN
  /\ TraceEnabled \in BOOLEAN
  /\ NoAttempt \notin Attempts
  /\ NoId \notin Attempts
  /\ NoWorker \notin Nat

\* A response without an attempt carries none of the Lambda headers, so
\* reading its request id panics.
Bare(st) == [status |-> st, intake |-> "panic", payload |-> "bad",
             invId |-> "absent", trace |-> FALSE]

BareResponses == {Bare(st) : st \in {"noContent", "serverError"}}

Blank == [status |-> "ok", intake |-> "ok", payload |-> "ok",
          invId |-> "absent", trace |-> FALSE]

-----------------------------------------------------------------------------
\* The environment variable counts when it parses to a positive number.
max_concurrency_from_env ==
  IF EnvConcurrency = NoEnv \/ EnvConcurrency = 0 THEN NoEnv ELSE EnvConcurrency

concurrency_limit ==
  IF max_concurrency_from_env = NoEnv THEN 1 ELSE max_concurrency_from_env

Concurrent == Entry = "run_concurrent" /\ concurrency_limit > 1

Workers == IF Concurrent THEN 1..concurrency_limit ELSE {1}

PCs == {"polling", "received", "waiting", "handling", "posting", "exited"}

Posts == [worker : Workers, kind : {"response", "error"}, req : Requests,
          inv : Attempts \cup {NoId}, from : Attempts]

VARIABLES
  rapid,     (* RAPID: its view of each attempt                            *)
  answers,   (* RAPID: the posts it accepted, and for which attempt        *)
  net,       (* posts on their way to RAPID                                *)
  reply,     (* the HTTP status a worker's post was answered with, if any  *)
  pc,        (* where each worker stands                                   *)
  held,      (* the attempt a worker holds                                 *)
  resp,      (* the /next response a worker holds                          *)
  result,    (* how a worker ended                                         *)
  traceEnv,  (* the attempt whose trace id is in _X_AMZN_TRACE_ID          *)
  main,      (* the main task: "running", or what `run` returned           *)
  joined,    (* the workers whose end the main task has seen               *)
  remaining, (* its remaining_workers                                      *)
  errors,    (* its errors                                                 *)
  taker,     (* history: the worker an attempt reached                     *)
  posts,     (* history: the kinds of the posts made for each attempt      *)
  tagged     (* history: attempts delivered with a readable invocation id  *)

rapidVars == <<rapid, answers>>
mainVars == <<joined, remaining, errors>>
history == <<taker, posts, tagged>>
vars == <<rapidVars, net, reply, pc, held, resp, result, traceEnv, main,
          mainVars, history>>

TypeOK ==
  /\ rapid \in [Attempts -> {"queued", "outstanding", "answered", "timedout"}]
  /\ answers \subseteq [to : Attempts, post : Posts]
  /\ net \subseteq Posts
  /\ reply \in [Workers -> {"none", "success", "rejected"}]
  /\ pc \in [Workers -> PCs]
  /\ held \in [Workers -> Attempts \cup {NoAttempt}]
  /\ resp \in [Workers -> AllShapes]
  /\ result \in [Workers -> {"none", "err", "panic"}]
  /\ traceEnv \in Attempts \cup {NoAttempt}
  /\ main \in {"running", "ok", "err", "panic"}
  /\ joined \subseteq Workers
  /\ remaining \in Nat
  /\ errors \in Seq([worker : Workers, how : {"err", "panic"}])
  /\ taker \in [Attempts -> Workers \cup {NoWorker}]
  /\ posts \in [Attempts -> Seq({"response", "error"})]
  /\ tagged \subseteq Attempts

Init ==
  /\ rapid = [a \in Attempts |-> "queued"]
  /\ answers = {}
  /\ net = {}
  /\ reply = [w \in Workers |-> "none"]
  /\ pc = [w \in Workers |-> "polling"]
  /\ held = [w \in Workers |-> NoAttempt]
  /\ resp = [w \in Workers |-> Blank]
  /\ result = [w \in Workers |-> "none"]
  /\ traceEnv = NoAttempt
  /\ main = "running"
  /\ joined = {}
  /\ remaining = concurrency_limit
  /\ errors = <<>>
  /\ taker = [a \in Attempts |-> NoWorker]
  /\ posts = [a \in Attempts |-> <<>>]
  /\ tagged = {}

-----------------------------------------------------------------------------
(* The ways a worker leaves its loop and comes back to its top.            *)

Goto(w, to) == pc' = [pc EXCEPT ![w] = to]

\* The worker is done with the response it holds.
Drop(w) ==
  /\ held' = [held EXCEPT ![w] = NoAttempt]
  /\ resp' = [resp EXCEPT ![w] = Blank]

\* A worker's loop ends with an Err or a panic.  In sequential mode the loop
\* is `run` itself; in concurrent mode it is a task for main to join.
Exit(w, how) ==
  /\ Goto(w, "exited")
  /\ Drop(w)
  /\ result' = [result EXCEPT ![w] = how]
  /\ main' = IF Concurrent THEN main ELSE how

-----------------------------------------------------------------------------
(* Polling /next.                                                          *)

\* RAPID keeps one attempt of a request outstanding at a time.
MayDeliver(a) ==
  /\ rapid[a] = "queued"
  /\ \A b \in Attempts : ReqOf[b] = ReqOf[a] => rapid[b] # "outstanding"

\* /next answers with an attempt.
NextEvent(w, a) ==
  /\ pc[w] = "polling"
  /\ MayDeliver(a)
  /\ \E s \in Shapes :
       /\ resp' = [resp EXCEPT ![w] = s]
       /\ tagged' = IF s.invId = "ok" THEN tagged \cup {a} ELSE tagged
  /\ rapid' = [rapid EXCEPT ![a] = "outstanding"]
  /\ held' = [held EXCEPT ![w] = a]
  /\ taker' = [taker EXCEPT ![a] = w]
  /\ Goto(w, "received")
  /\ UNCHANGED <<answers, net, reply, result, traceEnv, main, mainVars, posts>>

\* /next answers with a bare status instead of an attempt.
NextBare(w) ==
  /\ pc[w] = "polling"
  /\ \E s \in BareResponses : resp' = [resp EXCEPT ![w] = s]
  /\ Goto(w, "received")
  /\ UNCHANGED <<rapidVars, net, reply, held, result, traceEnv, main, mainVars,
                 history>>

\* The call to /next fails, perhaps after RAPID had handed out an attempt.
\* A concurrent worker warns and polls again; the sequential loop ends.
NextError(w) ==
  /\ pc[w] = "polling"
  /\ \/ UNCHANGED rapid
     \/ \E a \in Attempts : /\ MayDeliver(a)
                            /\ rapid' = [rapid EXCEPT ![a] = "outstanding"]
  /\ IF Concurrent
     THEN UNCHANGED <<pc, held, resp, result, main>>
     ELSE Exit(w, "err")
  /\ UNCHANGED <<answers, net, reply, traceEnv, mainVars, history>>

-----------------------------------------------------------------------------
(* process_invocation: from the response to the call of the service.       *)

\* Only a debug build knows that 204 means there is nothing to do.
Ignorable(w) == DebugBuild /\ resp[w].status = "noContent"

IgnoreNoContent(w) ==
  /\ pc[w] = "received"
  /\ Ignorable(w)
  /\ Goto(w, "polling")
  /\ Drop(w)
  /\ UNCHANGED <<rapidVars, net, reply, result, traceEnv, main, mainVars,
                 history>>

\* Faulty variant: a missing trace id leaves the last one in place.
amzn_trace_env_kept(w) == IF resp[w].trace THEN held[w] ELSE traceEnv

\* The trace id of the invocation replaces or removes that of the last one.
amzn_trace_env(w) == IF resp[w].trace THEN held[w] ELSE NoAttempt

\* The response becomes an invocation.  The process environment is written
\* by the sequential loop only.
Intake(w) ==
  /\ pc[w] = "received"
  /\ ~Ignorable(w)
  /\ resp[w].intake = "ok"
  /\ Goto(w, "waiting")
  /\ traceEnv' = IF Concurrent THEN traceEnv ELSE amzn_trace_env(w)
  /\ UNCHANGED <<rapidVars, net, reply, held, resp, result, main, mainVars,
                 history>>

\* The body or a header cannot be read, or a mandatory header is absent.
IntakeFails(w) ==
  /\ pc[w] = "received"
  /\ ~Ignorable(w)
  /\ resp[w].intake # "ok"
  /\ Exit(w, resp[w].intake)
  /\ UNCHANGED <<rapidVars, net, reply, traceEnv, mainVars, history>>

\* Faulty variant: a service that is not ready is logged and skipped.
ReadyFailsContinues(w) ==
  /\ pc[w] = "waiting"
  /\ Goto(w, "polling") /\ Drop(w)
  /\ UNCHANGED <<rapidVars, net, reply, result, traceEnv, main, mainVars, history>>

\* poll_ready of the user's service returns an Err or panics: no layer
\* turns either into an answer.
ReadyFails(w) ==
  /\ pc[w] = "waiting"
  /\ \E how \in {"err", "panic"} : Exit(w, how)
  /\ UNCHANGED <<rapidVars, net, reply, traceEnv, mainVars, history>>

-----------------------------------------------------------------------------
(* RuntimeApiResponseService, CatchPanicService and RuntimeApiClientService. *)

\* The invocation id to echo: none if the header is absent or malformed.
InvocationId(w) == IF resp[w].invId = "ok" THEN held[w] ELSE NoId

EventCompletionRequest(w) ==
  [worker |-> w, kind |-> "response", req |-> ReqOf[held[w]],
   inv |-> InvocationId(w), from |-> held[w]]

\* Faulty variant: errors are posted without the invocation id.
EventErrorRequestNoEcho(w) ==
  [worker |-> w, kind |-> "error", req |-> ReqOf[held[w]], inv |-> NoId,
   from |-> held[w]]

EventErrorRequest(w) ==
  [worker |-> w, kind |-> "error", req |-> ReqOf[held[w]],
   inv |-> InvocationId(w), from |-> held[w]]

\* The request is built and handed to the client within one poll.
Send(w, post) ==
  /\ net' = net \cup {post}
  /\ posts' = [posts EXCEPT ![held[w]] = Append(@, post.kind)]
  /\ Goto(w, "posting")

\* A 5xx response (debug builds) and a body that the TRACE log line cannot
\* print (TRACE level) end the loop before the payload is looked at.
CallAborts(w) == \/ DebugBuild /\ resp[w].status = "serverError"
                 \/ TraceEnabled /\ resp[w].payload = "notUtf8"

CallFails(w) ==
  /\ pc[w] = "waiting"
  /\ CallAborts(w)
  /\ Exit(w, "err")
  /\ UNCHANGED <<rapidVars, net, reply, traceEnv, mainVars, history>>

\* Bytes that are not UTF-8 may sit in a field the handler's type skips.
Deserializable(w) == resp[w].payload # "bad"
Undeserializable(w) == resp[w].payload # "ok"

\* A payload that does not deserialize is reported; the handler is not called.
DeserializeFails(w) ==
  /\ pc[w] = "waiting"
  /\ ~CallAborts(w)
  /\ Undeserializable(w)
  /\ Send(w, EventErrorRequest(w))
  /\ UNCHANGED <<rapidVars, reply, held, resp, result, traceEnv, main, mainVars,
                 taker, tagged>>

\* Nor is it reported when the report cannot be built: the call ends with an Err.
ReportFails(w) ==
  /\ pc[w] = "waiting"
  /\ ~CallAborts(w)
  /\ Undeserializable(w)
  /\ Exit(w, "err")
  /\ UNCHANGED <<rapidVars, net, reply, traceEnv, mainVars, history>>

CallHandler(w) ==
  /\ pc[w] = "waiting"
  /\ ~CallAborts(w)
  /\ Deserializable(w)
  /\ Goto(w, "handling")
  /\ UNCHANGED <<rapidVars, net, reply, held, resp, result, traceEnv, main,
                 mainVars, history>>

\* The handler returns Ok; or it returns Err or panics, which CatchPanicService
\* turns into a diagnostic.
HandlerReturns(w) ==
  /\ pc[w] = "handling"
  /\ \E post \in {EventCompletionRequest(w), EventErrorRequest(w)} : Send(w, post)
  /\ UNCHANGED <<rapidVars, reply, held, resp, result, traceEnv, main, mainVars,
                 taker, tagged>>

\* Faulty variant: a response that cannot be built is logged and skipped.
BuildFailsContinues(w) ==
  /\ pc[w] = "handling"
  /\ Goto(w, "polling") /\ Drop(w)
  /\ UNCHANGED <<rapidVars, net, reply, result, traceEnv, main, mainVars, history>>

\* What the handler returned does not become a request: the request of an Ok or
\* of an Err cannot be built, or user code that the conversion calls (Serialize,
\* IntoFunctionResponse, Into<Diagnostic>) panics where nothing catches it.
BuildFails(w) ==
  /\ pc[w] = "handling"
  /\ \E how \in {"err", "panic"} : Exit(w, how)
  /\ UNCHANGED <<rapidVars, net, reply, traceEnv, mainVars, history>>

\* RAPID answered the post: whatever the status, the worker goes on.
PostReply(w) ==
  /\ pc[w] = "posting"
  /\ reply[w] # "none"
  /\ Goto(w, "polling")
  /\ Drop(w)
  /\ reply' = [reply EXCEPT ![w] = "none"]
  /\ UNCHANGED <<rapidVars, net, result, traceEnv, main, mainVars, history>>

\* Faulty variant: the post is repeated when its connection breaks.
PostFailsRetries(w) ==
  /\ pc[w] = "posting"
  /\ Send(w, EventErrorRequest(w))
  /\ UNCHANGED <<rapidVars, reply, held, resp, result, traceEnv, main, mainVars,
                 taker, tagged>>

\* The connection breaks before an answer arrives; RAPID may have seen the
\* post, may see it later, or never.
PostFails(w) ==
  /\ pc[w] = "posting"
  /\ Exit(w, "err")
  /\ net' \in {net, {p \in net : p.worker # w}}
  /\ reply' = [reply EXCEPT ![w] = "none"]
  /\ UNCHANGED <<rapidVars, traceEnv, mainVars, history>>

-----------------------------------------------------------------------------
(* The main task of run_concurrent.                                        *)

\* Faulty variant: a JoinError is not counted.
JoinNextSkipsPanics(w) ==
  /\ Concurrent /\ main = "running"
  /\ pc[w] = "exited" /\ w \notin joined
  /\ result[w] # "panic"
  /\ joined' = joined \cup {w}
  /\ remaining' = IF remaining = 0 THEN 0 ELSE remaining - 1
  /\ errors' = Append(errors, [worker |-> w, how |-> result[w]])
  /\ UNCHANGED <<rapidVars, net, reply, pc, held, resp, result, traceEnv, main,
                 history>>

\* A JoinHandle resolves.  A loop that returned Ok would be a CleanExit:
\* the loop has no such return.
JoinNext(w) ==
  /\ Concurrent
  /\ main = "running"
  /\ pc[w] = "exited"
  /\ w \notin joined
  /\ joined' = joined \cup {w}
  /\ remaining' = IF remaining = 0 THEN 0 ELSE remaining - 1
  /\ errors' = Append(errors, [worker |-> w, how |-> result[w]])
  /\ UNCHANGED <<rapidVars, net, reply, pc, held, resp, result, traceEnv, main,
                 history>>

\* Faulty variant: the first worker to fail ends the runtime.
MainReturnsEarly ==
  /\ Concurrent
  /\ main = "running"
  /\ errors # <<>>
  /\ main' = "err"
  /\ UNCHANGED <<rapidVars, net, reply, pc, held, resp, result, traceEnv,
                 mainVars, history>>

MainReturns ==
  /\ Concurrent
  /\ main = "running"
  /\ joined = Workers
  /\ main' = IF errors = <<>> THEN "ok" ELSE "err"
  /\ UNCHANGED <<rapidVars, net, reply, pc, held, resp, result, traceEnv,
                 mainVars, history>>

-----------------------------------------------------------------------------
(* RAPID.                                                                  *)

\* A post is for the outstanding attempt of its request; one that carries an
\* invocation id is for that attempt only.
Matches(p, a) ==
  /\ rapid[a] = "outstanding"
  /\ ReqOf[a] = p.req
  /\ p.inv \in {a, NoId}

\* RAPID handles a post.  Its answer finds the worker if that still waits.
RapidHandles(p) ==
  LET Answer(status) ==
        reply' = IF pc[p.worker] = "posting"
                 THEN [reply EXCEPT ![p.worker] = status] ELSE reply
  IN
  /\ net' = net \ {p}
  /\ \/ \E a \in Attempts :
          /\ Matches(p, a)
          /\ rapid' = [rapid EXCEPT ![a] = "answered"]
          /\ answers' = answers \cup {[to |-> a, post |-> p]}
          /\ Answer("success")
     \/ /\ \A a \in Attempts : ~Matches(p, a)
        /\ Answer("rejected")
        /\ UNCHANGED rapidVars
  /\ UNCHANGED <<pc, held, resp, result, traceEnv, main, mainVars, history>>

RapidTimeout(a) ==
  /\ rapid[a] = "outstanding"
  /\ rapid' = [rapid EXCEPT ![a] = "timedout"]
  /\ UNCHANGED <<answers, net, reply, pc, held, resp, result, traceEnv, main,
                 mainVars, history>>

-----------------------------------------------------------------------------
Poll(w) == \/ \E a \in Attempts : NextEvent(w, a)
           \/ NextBare(w)
           \/ NextError(w)

Proceed(w) ==
  \/ IgnoreNoContent(w) \/ Intake(w) \/ IntakeFails(w) \/ ReadyFails(w)
  \/ CallFails(w) \/ DeserializeFails(w) \/ ReportFails(w) \/ CallHandler(w)
  \/ HandlerReturns(w) \/ BuildFails(w)
  \/ PostReply(w) \/ PostFails(w)

Rapid == \/ \E p \in net : RapidHandles(p)
         \/ \E a \in Attempts : RapidTimeout(a)

\* Once `run` has returned, the process is over.
Finished == main # "running" /\ UNCHANGED vars

Next ==
  \/ \E w \in Workers : Poll(w) \/ Proceed(w) \/ JoinNext(w)
  \/ MainReturns
  \/ Rapid
  \/ Finished

Safety == Init /\ [][Next]_vars

\* Tokio polls every task that can make progress; handlers terminate; an HTTP
\* call returns something; RAPID gives up on attempts that are not answered
\* and, as long as it is polled again and again, hands out what is queued.
Fairness ==
  /\ \A w \in Workers : WF_vars(Proceed(w)) /\ WF_vars(JoinNext(w))
  /\ WF_vars(MainReturns)
  /\ \A a \in Attempts : /\ WF_vars(RapidTimeout(a))
                         /\ SF_vars(\E w \in Workers : NextEvent(w, a))

Spec == Safety /\ Fairness

-----------------------------------------------------------------------------
(* Properties.                                                             *)

\* Cross-wiring protection (api_response.rs:131-150): a post is never taken
\* for another request than the one it was made for, and if the attempt came
\* with a readable invocation id, never for another attempt of that request.
NoCrossWiring ==
  \A x \in answers :
    /\ ReqOf[x.to] = ReqOf[x.post.from]
    /\ x.post.from \in tagged => x.to = x.post.from

\* The runtime posts one answer per attempt, whatever fails (api_client.rs:
\* 76-140 has no retry), and only for an attempt it was given.
PostedOnce ==
  \A a \in Attempts : /\ Len(posts[a]) <= 1
                      /\ posts[a] # <<>> => taker[a] # NoWorker

\* A worker that lives on has posted an answer for every attempt it took,
\* save the one it still holds (process_invocation, runtime.rs:669-705).
NoSilentDrop ==
  \A a \in Attempts :
    (taker[a] # NoWorker /\ posts[a] = <<>>) =>
      held[taker[a]] = a \/ pc[taker[a]] = "exited"

\* run_concurrent gives up only when no worker is left, and its error lists
\* each of them once, with the way it ended (runtime.rs:282-332).
ReturnsAfterAllWorkers ==
  Concurrent /\ main # "running" =>
    /\ \A w \in Workers : pc[w] = "exited"
    /\ main = "err" /\ remaining = 0 /\ Len(errors) = Cardinality(Workers)
    /\ \A w \in Workers : \E i \in 1..Len(errors) :
         errors[i] = [worker |-> w, how |-> result[w]]

\* While a sequential handler runs, _X_AMZN_TRACE_ID is that of its own
\* invocation, or unset if that has none; concurrent workers never touch the
\* process environment (runtime.rs:694-712).
TraceEnvMatches ==
  IF Concurrent THEN traceEnv = NoAttempt
  ELSE \A w \in Workers :
         pc[w] = "handling" =>
           traceEnv = IF resp[w].trace THEN held[w] ELSE NoAttempt

\* As long as a worker is left, queued attempts are taken (or lost on the
\* wire): failures of other workers and of /next do not starve them
\* (runtime.rs:282-290, 654-661).
QueueIsServed ==
  \A a \in Attempts : rapid[a] = "queued" ~> (rapid[a] # "queued" \/ main # "running")

\* Once the last worker is gone, `run` returns (runtime.rs:293-332).
EventuallyReturns ==
  (\A w \in Workers : pc[w] = "exited") ~> main # "running"

-----------------------------------------------------------------------------
(* The promise this implements.                                            *)

statusBar ==
  [a \in Attempts |->
     IF posts[a] # <<>> THEN "answered"
     ELSE IF taker[a] = NoWorker
          THEN IF rapid[a] = "queued" THEN "queued" ELSE "undelivered"
          ELSE IF held[taker[a]] = a THEN "running" ELSE "lost"]

Promise == INSTANCE Invocations
             WITH Limit <- Cardinality(Workers),
                  status <- statusBar,
                  slots <- Cardinality({w \in Workers : pc[w] # "exited"})

\* The workers keep the promise of module Invocations: no attempt is dropped
\* by a worker that lives on, and at most one attempt per living worker runs.
KeepsPromise == Promise!Spec

=============================================================================
