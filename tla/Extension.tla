----------------------------- MODULE Extension -----------------------------
(***************************************************************************)
(* An extension (lambda-extension/src/extension.rs): `register` registers  *)
(* it, and for each API that has a processor starts the listener of module *)
(* Listener and subscribes; `run` polls /next and calls the events         *)
(* processor, and ends with the first error.                               *)
(***************************************************************************)
EXTENDS Listener

CONSTANT Processors (* the APIs that have a processor, in the code's order *)

ASSUME ExtensionAssumption == Processors \in Seq(Apis)

VARIABLES
  pc,
  at,       (* the index in Processors                                     *)
  event,    (* the type of the event in hand                               *)
  cause,    (* why the extension ended                                     *)
  reports   (* history: the error reports that were sent                   *)

mainVars == <<pc, at, event, cause, reports>>
extensionVars == <<listenerVars, mainVars>>

Events == {"INVOKE", "SHUTDOWN"}

ExtensionTypeOK ==
  /\ TypeOK
  /\ pc \in {"registering", "configuring", "subscribing", "accepted", "refused",
             "registered", "polling", "ready", "failed", "reporting", "returned",
             "panicked"}
  /\ at \in 1..(Len(Processors) + 1)
  /\ event \in Events \cup {"none"}
  /\ cause \in {"none", "setup", "next", "processor", "unprintable", "transport"}
  /\ reports \in Seq([to : {"init", "exit"}, event : Events])

InitExtension ==
  /\ InitListener
  /\ listener = [a \in Apis |-> "none"]
  /\ subscribed = {}
  /\ pc = "registering"
  /\ at = 1
  /\ event = "none"
  /\ cause = "none"
  /\ reports = <<>>

Return(why) == pc' = "returned" /\ cause' = why

-----------------------------------------------------------------------------
(* register.                                                               *)

register ==
  /\ pc = "registering"
  /\ pc' = "configuring"
  /\ UNCHANGED <<listenerVars, at, event, cause, reports>>

\* A transport error, a status that is no success, a response without the id
\* or with a body that does not deserialize.
RegisterFails ==
  /\ pc = "registering"
  /\ Return("setup")
  /\ UNCHANGED <<listenerVars, at, event, reports>>

\* The buffering configuration of an API is out of range.
ValidationFails ==
  /\ pc = "configuring"
  /\ at <= Len(Processors)
  /\ Return("setup")
  /\ UNCHANGED <<listenerVars, at, event, reports>>

MakeServicePanics ==
  /\ pc = "configuring"
  /\ at <= Len(Processors)
  /\ pc' = "panicked"
  /\ UNCHANGED <<listenerVars, at, event, cause, reports>>

\* The listening task is spawned; whether it has bound the port when the
\* subscription is made is up to the scheduler.
SpawnListener ==
  /\ pc = "configuring"
  /\ at <= Len(Processors)
  /\ listener' = [listener EXCEPT ![Processors[at]] = "unbound"]
  /\ pc' = "subscribing"
  /\ UNCHANGED <<subscribed, connVars, lock, batch, completed, faults, at, event,
                 cause, reports>>

\* The platform handles the subscription.
HandleSubscription ==
  /\ pc = "subscribing"
  /\ \/ subscribed' = subscribed \cup {Processors[at]} /\ pc' = "accepted"
     \/ UNCHANGED subscribed /\ pc' = "refused"
  /\ UNCHANGED <<listener, connVars, lock, batch, completed, faults, at, event,
                 cause, reports>>

\* Faulty variant: the status of the subscription is not looked at.
SubscriptionWhatever ==
  /\ pc \in {"accepted", "refused"}
  /\ pc' = "configuring"
  /\ at' = at + 1
  /\ UNCHANGED <<listenerVars, event, cause, reports>>

SubscriptionAccepted ==
  /\ pc = "accepted"
  /\ pc' = "configuring"
  /\ at' = at + 1
  /\ UNCHANGED <<listenerVars, event, cause, reports>>

\* A refusal, or a transport error that may hide an acceptance.  What was set
\* up until then stays.
SubscriptionFails ==
  /\ pc \in {"subscribing", "accepted", "refused"}
  /\ Return("setup")
  /\ UNCHANGED <<listenerVars, at, event, reports>>

Registered ==
  /\ pc = "configuring"
  /\ at > Len(Processors)
  /\ pc' = "registered"
  /\ UNCHANGED <<listenerVars, at, event, cause, reports>>

-----------------------------------------------------------------------------
(* RegisteredExtension::run.                                               *)

run ==
  /\ pc = "registered"
  /\ pc' = "polling"
  /\ UNCHANGED <<listenerVars, at, event, cause, reports>>

\* A transport error, or a body that is no event, such as that of an error.
NextFails ==
  /\ pc = "polling"
  /\ Return("next")
  /\ UNCHANGED <<listenerVars, at, event, reports>>

NextEvent(e) ==
  /\ pc = "polling"
  /\ pc' = "ready"
  /\ event' = e
  /\ UNCHANGED <<listenerVars, at, cause, reports>>

\* The events processor returns Ok, and the loop is at the top again.
EventProcessed ==
  /\ pc = "ready"
  /\ pc' = "polling"
  /\ event' = "none"
  /\ UNCHANGED <<listenerVars, at, cause, reports>>

\* The processor's poll_ready or its call returns an error.
EventFails ==
  /\ pc = "ready"
  /\ pc' = "failed"
  /\ UNCHANGED <<listenerVars, at, event, cause, reports>>

EventPanics ==
  /\ pc = "ready"
  /\ pc' = "panicked"
  /\ UNCHANGED <<listenerVars, at, event, cause, reports>>

Endpoint == IF event = "INVOKE" THEN "init" ELSE "exit"

report ==
  /\ pc = "failed"
  /\ pc' = "reporting"
  /\ reports' = Append(reports, [to |-> Endpoint, event |-> event])
  /\ UNCHANGED <<listenerVars, at, event, cause>>

\* The error's text is no header value: the request cannot be built.
ReportNotBuilt ==
  /\ pc = "failed"
  /\ Return("unprintable")
  /\ UNCHANGED <<listenerVars, at, event, reports>>

\* Faulty variant: the loop goes on after the report.
ReportContinues ==
  /\ pc = "reporting"
  /\ pc' = "polling"
  /\ event' = "none"
  /\ UNCHANGED <<listenerVars, at, cause, reports>>

\* The processor's error is returned, unless the report itself fails: its
\* error is returned instead.
ReportEnds ==
  /\ pc = "reporting"
  /\ \E why \in {"processor", "transport"} : Return(why)
  /\ UNCHANGED <<listenerVars, at, event, reports>>

-----------------------------------------------------------------------------
RegisterNext ==
  \/ register \/ RegisterFails
  \/ ValidationFails \/ MakeServicePanics \/ SpawnListener
  \/ HandleSubscription \/ SubscriptionAccepted \/ SubscriptionFails
  \/ Registered

RunNext ==
  \/ NextFails
  \/ EventProcessed \/ EventFails \/ EventPanics
  \/ report \/ ReportNotBuilt \/ ReportEnds

\* The extension's task and its servers.
ExtensionNext ==
  \/ RegisterNext
  \/ run
  \/ \E e \in Events : NextEvent(e)
  \/ RunNext
  \/ ListenerNext /\ UNCHANGED mainVars

ExtensionSpec == InitExtension /\ [][ExtensionNext]_extensionVars

-----------------------------------------------------------------------------
(* Properties.                                                             *)

Subscribed == {Processors[i] : i \in 1..Len(Processors)}

\* "Logs API subscriptions must be requested during the Lambda init phase":
\* an extension asks for its first event only after every subscription was
\* accepted, and an API is subscribed to only after its listener was started
\* (extension.rs:251-341).
SubscribedInInit ==
  /\ pc \in {"registered", "polling", "ready", "failed", "reporting"} =>
       subscribed = Subscribed
  /\ \A a \in subscribed : listener[a] # "none"

\* An error of the events processor ends `run` after one report of it, to the
\* endpoint of its phase, and nothing else is reported (extension.rs:457-483).
FailureEndsRun ==
  /\ pc \in {"reporting", "returned"} /\ cause \notin {"setup", "next", "unprintable"} =>
       reports = <<[to |-> IF event = "INVOKE" THEN "init" ELSE "exit",
                    event |-> event]>>
  /\ pc \notin {"reporting", "returned"} => reports = <<>>

=============================================================================
