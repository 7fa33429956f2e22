------------------------------ MODULE Listener ------------------------------
(***************************************************************************)
(* The servers an extension starts for the Logs API and the Telemetry API  *)
(* (lambda-extension/src/extension.rs:258-277, 304-323; log_wrapper,       *)
(* telemetry_wrapper): a task that binds the port, accepts ONE connection, *)
(* drops the socket and binds again; a task for each connection; and a     *)
(* processor that these tasks share behind a mutex.                        *)
(*                                                                         *)
(* The platform connects, sends batches, waits for the status, keeps the   *)
(* connection for the next batch, and sends a batch again that got lost.   *)
(* The task of a connection that broke does not know of it: it goes on     *)
(* until it notices, while the platform may send the same batch to another.*)
(***************************************************************************)
EXTENDS Naturals, Sequences

CONSTANTS
  Apis,      (* the APIs                                                   *)
  Batches,   (* the batches the platform has                               *)
  ApiOf,     (* the API of each batch                                      *)
  Malformed, (* the batches that do not deserialize                        *)
  Conns,     (* bound: the connections that the platform has at a time     *)
  To,        (* the API that each of them goes to                          *)
  MaxFaults, (* bound: the connections that break and processors that panic *)
  NoBatch

ASSUME ListenerAssumption ==
  /\ ApiOf \in [Batches -> Apis]
  /\ To \in [Conns -> Apis]
  /\ Malformed \subseteq Batches
  /\ MaxFaults \in Nat
  /\ NoBatch \notin Batches

VARIABLES
  listener,   (* per API: "none", "unbound", "listening" or "dead"         *)
  subscribed, (* the APIs that the platform delivers                       *)
  conn,       (* each connection as the server sees it                     *)
  cut,        (* those that broke, which the server has not noticed        *)
  carried,    (* the batch that its task has in hand                       *)
  lock,       (* per API: the tasks that hold and await the mutex, in order *)
  batch,      (* what the platform knows of each batch                     *)
  completed,  (* history: the batches that a processor has finished with   *)
  faults      (* history: how many connections broke and processors panicked *)

connVars == <<conn, cut, carried>>
listenerVars == <<listener, subscribed, connVars, lock, batch, completed, faults>>

TypeOK ==
  /\ listener \in [Apis -> {"none", "unbound", "listening", "dead"}]
  /\ subscribed \subseteq Apis
  /\ conn \in [Conns -> {"idle", "queued", "open", "reading", "locking",
                         "processing", "answering"}]
  /\ cut \subseteq Conns
  /\ carried \in [Conns -> Batches \cup {NoBatch}]
  /\ lock \in [Apis -> Seq(Conns)]
  /\ batch \in [Batches -> {"pending", "sent", "ok", "badRequest", "lost"}]
  /\ completed \subseteq Batches
  /\ faults \in 0..MaxFaults

InitListener ==
  /\ conn = [c \in Conns |-> "idle"]
  /\ cut = {}
  /\ carried = [c \in Conns |-> NoBatch]
  /\ lock = [a \in Apis |-> <<>>]
  /\ batch = [b \in Batches |-> "pending"]
  /\ completed = {}
  /\ faults = 0

-----------------------------------------------------------------------------
(* The listening task.                                                     *)

bind(a) ==
  /\ listener[a] = "unbound"
  /\ listener' = [listener EXCEPT ![a] = "listening"]
  /\ UNCHANGED <<subscribed, connVars, lock, batch, completed, faults>>

\* A socket that goes away resets what waits in its backlog.
Reset(a, cs) == [c \in Conns |-> IF conn[c] = "queued" /\ To[c] = a /\ c \in cs
                                 THEN "idle" ELSE conn[c]]

\* Faulty variant: there is no loop around bind and accept.
accept_once(c) ==
  /\ conn[c] = "queued"
  /\ listener[To[c]] = "listening"
  /\ listener' = [listener EXCEPT ![To[c]] = "none"]
  /\ conn' = [Reset(To[c], Conns \ {c}) EXCEPT ![c] = "open"]
  /\ UNCHANGED <<subscribed, cut, carried, lock, batch, completed, faults>>

\* One connection is accepted; its task is spawned, the socket is dropped, and
\* the loop is at bind again.
accept(c) ==
  /\ conn[c] = "queued"
  /\ listener[To[c]] = "listening"
  /\ listener' = [listener EXCEPT ![To[c]] = "unbound"]
  /\ conn' = [Reset(To[c], Conns \ {c}) EXCEPT ![c] = "open"]
  /\ UNCHANGED <<subscribed, cut, carried, lock, batch, completed, faults>>

\* A bind or an accept that fails panics the task, which nobody joins.
UnwrapPanics(a) ==
  /\ listener[a] \in {"unbound", "listening"}
  /\ listener' = [listener EXCEPT ![a] = "dead"]
  /\ conn' = Reset(a, Conns)
  /\ UNCHANGED <<subscribed, cut, carried, lock, batch, completed, faults>>

-----------------------------------------------------------------------------
(* A connection's task: log_wrapper and telemetry_wrapper.                 *)

\* The task writes the status, which the platform gets if it is still there, and
\* waits for the next request.
Respond(c, status) ==
  /\ conn' = [conn EXCEPT ![c] = "open"]
  /\ carried' = [carried EXCEPT ![c] = NoBatch]
  /\ batch' = IF c \in cut THEN batch ELSE [batch EXCEPT ![carried[c]] = status]

\* The body does not deserialize, or it cannot be collected.
BadRequest(c) ==
  /\ conn[c] = "reading"
  /\ carried[c] \in Malformed \/ c \in cut
  /\ Respond(c, "badRequest")
  /\ UNCHANGED <<listener, subscribed, cut, lock, completed, faults>>

\* Faulty variant: the future of the processor is not awaited.
ParsedAndDropped(c) ==
  /\ conn[c] = "reading"
  /\ carried[c] \notin Malformed
  /\ conn' = [conn EXCEPT ![c] = "answering"]
  /\ UNCHANGED <<listener, subscribed, cut, carried, lock, batch, completed, faults>>

\* The batch is deserialized and the task queues for the mutex, which is fair.
Parsed(c) ==
  /\ conn[c] = "reading"
  /\ carried[c] \notin Malformed
  /\ conn' = [conn EXCEPT ![c] = "locking"]
  /\ lock' = [lock EXCEPT ![To[c]] = Append(@, c)]
  /\ UNCHANGED <<listener, subscribed, cut, carried, batch, completed, faults>>

\* The queue without its item i.
Without(s, i) == [j \in 1..(Len(s) - 1) |-> IF j < i THEN s[j] ELSE s[j + 1]]

Place(c) == {i \in 1..Len(lock[To[c]]) : lock[To[c]][i] = c}

\* The task leaves the queue of its mutex if it is in it.
Release(c) ==
  /\ Place(c) = {} => UNCHANGED lock
  /\ \A i \in Place(c) : lock' = [lock EXCEPT ![To[c]] = Without(@, i)]

\* Faulty variant: the guard is gone before the future is awaited.
CallProcessorUnlocked(c) ==
  /\ conn[c] = "locking"
  /\ conn' = [conn EXCEPT ![c] = "processing"]
  /\ UNCHANGED <<listener, subscribed, cut, carried, lock, batch, completed, faults>>

CallProcessor(c) ==
  /\ conn[c] = "locking"
  /\ lock[To[c]][1] = c
  /\ conn' = [conn EXCEPT ![c] = "processing"]
  /\ UNCHANGED <<listener, subscribed, cut, carried, lock, batch, completed, faults>>

\* An error of the processor is printed and answered like a success.
ProcessorReturns(c) ==
  /\ conn[c] = "processing"
  /\ completed' = completed \cup {carried[c]}
  /\ conn' = [conn EXCEPT ![c] = "answering"]
  /\ Release(c)
  /\ UNCHANGED <<listener, subscribed, cut, carried, batch, faults>>

Answer(c) ==
  /\ conn[c] = "answering"
  /\ Respond(c, "ok")
  /\ UNCHANGED <<listener, subscribed, cut, lock, completed, faults>>

\* The platform gets no answer any more to what it sent on the connection.
Lose(c) == batch' = IF carried[c] = NoBatch \/ c \in cut THEN batch
                    ELSE [batch EXCEPT ![carried[c]] = "lost"]

\* The connection breaks, or the platform gives up on it: the task goes on.
Breaks(c) ==
  /\ conn[c] \notin {"idle", "queued"}
  /\ c \notin cut
  /\ faults < MaxFaults
  /\ faults' = faults + 1
  /\ cut' = cut \cup {c}
  /\ Lose(c)
  /\ UNCHANGED <<listener, subscribed, conn, carried, lock, completed>>

\* The task ends, and its guard unlocks the mutex.
TaskEnds(c) ==
  /\ conn' = [conn EXCEPT ![c] = "idle"]
  /\ cut' = cut \ {c}
  /\ carried' = [carried EXCEPT ![c] = NoBatch]
  /\ Release(c)
  /\ UNCHANGED <<listener, subscribed, completed>>

\* The server sees that the connection is broken, wherever its task is.
Noticed(c) == c \in cut /\ TaskEnds(c) /\ UNCHANGED <<batch, faults>>

ProcessorPanics(c) ==
  /\ conn[c] = "processing"
  /\ faults < MaxFaults
  /\ faults' = faults + 1
  /\ Lose(c)
  /\ TaskEnds(c)

-----------------------------------------------------------------------------
(* The platform.                                                           *)

\* It can connect only while the port is bound.
Connect(c) ==
  /\ To[c] \in subscribed
  /\ listener[To[c]] = "listening"
  /\ conn[c] = "idle"
  /\ conn' = [conn EXCEPT ![c] = "queued"]
  /\ UNCHANGED <<listener, subscribed, cut, carried, lock, batch, completed, faults>>

Deliver(b, c) ==
  /\ batch[b] \in {"pending", "lost"}
  /\ conn[c] = "open"
  /\ c \notin cut
  /\ To[c] = ApiOf[b]
  /\ batch' = [batch EXCEPT ![b] = "sent"]
  /\ carried' = [carried EXCEPT ![c] = b]
  /\ conn' = [conn EXCEPT ![c] = "reading"]
  /\ UNCHANGED <<listener, subscribed, cut, lock, completed, faults>>

-----------------------------------------------------------------------------
Serve(c) == \/ BadRequest(c) \/ Parsed(c) \/ CallProcessor(c)
            \/ ProcessorReturns(c) \/ Answer(c)

ListenerNext ==
  \/ \E a \in Apis : bind(a) \/ UnwrapPanics(a)
  \/ \E c \in Conns : \/ accept(c) \/ Serve(c)
                      \/ Breaks(c) \/ Noticed(c) \/ ProcessorPanics(c)
                      \/ Connect(c)
                      \/ \E b \in Batches : Deliver(b, c)

\* A server whose task was spawned and whose API was subscribed to.
Started ==
  /\ InitListener
  /\ listener = [a \in Apis |-> "unbound"]
  /\ subscribed = Apis

ListenerSpec == Started /\ [][ListenerNext]_listenerVars

\* Tokio polls the tasks, and processors return; the platform connects and
\* delivers as long as it is given the chance again and again.  Nothing makes a
\* server notice that a connection is broken.
ListenerFairness ==
  /\ \A a \in Apis : WF_listenerVars(bind(a))
  /\ \A c \in Conns :
       /\ WF_listenerVars(accept(c))
       /\ WF_listenerVars(Serve(c))
       /\ SF_listenerVars(Connect(c))
  /\ \A b \in Batches : SF_listenerVars(\E c \in Conns : Deliver(b, c))

-----------------------------------------------------------------------------
(* Properties.                                                             *)

\* The processor, one object for all connections of its API, handles one batch
\* at a time (extension.rs:260, 306; logs.rs:223).
ProcessorSerial ==
  \A c, d \in Conns :
    conn[c] = "processing" /\ conn[d] = "processing" /\ To[c] = To[d] => c = d

\* A batch is answered with success only after the processor has finished with
\* it, and with 400 only if it never got there (logs.rs:201-230).
AnswersAreTrue ==
  \A b \in Batches : /\ batch[b] = "ok" => b \in completed
                     /\ batch[b] = "badRequest" => b \in Malformed
                     /\ b \in completed => b \notin Malformed

\* What a subscriber is to get it gets, though the port is closed between two
\* connections, unless the listening task died (extension.rs:264-276).
BatchesDelivered ==
  \A b \in Batches :
    ApiOf[b] \in subscribed ~>
      (batch[b] \in {"ok", "badRequest"} \/ listener[ApiOf[b]] = "dead")

=============================================================================
