--------------------------- MODULE ResponseStream ---------------------------
(***************************************************************************)
(* A streaming response (lambda-runtime/src/requests.rs:158-210): the      *)
(* spawned task that owns the Sender of BodyChannel and sends a metadata   *)
(* prelude, a delimiter and then whatever the user's stream yields, while  *)
(* the HTTP connection reads the body.                                     *)
(***************************************************************************)
EXTENDS BodyChannel

CONSTANTS
  Prelude,     (* the serialized metadata prelude                          *)
  Delimiter,   (* eight zero bytes                                         *)
  ErrorText,   (* what to_tailer makes of an error                         *)
  StreamError, (* an Err item of the user's stream                         *)
  MaxYielded   (* bound: the stream ends after as many items               *)

ASSUME ResponseStreamAssumption ==
  /\ {Prelude, Delimiter, ErrorText} \subseteq Items
  /\ StreamError \notin Items

VARIABLES
  stage,       (* what the task sent last, or "returned"                   *)
  yielded,     (* history: the items of the user's stream                  *)
  panicked,    (* history: did the user's stream panic?                    *)
  late         (* history: items taken after the body was dropped          *)

taskVars == <<stage, yielded, panicked, late>>
vars == <<channelVars, taskVars>>

Chunks == Items \ {Prelude, Delimiter, ErrorText}

StreamTypeOK ==
  /\ TypeOK
  /\ stage \in {"start", "prelude", "delimiter", "item", "returned"}
  /\ yielded \in Seq(Chunks \cup {StreamError})
  /\ panicked \in BOOLEAN
  /\ late \in 0..MaxYielded

Init ==
  /\ InitChannel
  /\ stage = "start"
  /\ yielded = <<>>
  /\ panicked = FALSE
  /\ late = 0

-----------------------------------------------------------------------------
SendPrelude ==
  /\ stage = "start"
  /\ send_data(Prelude)
  /\ stage' = "prelude"
  /\ UNCHANGED <<yielded, panicked, late>>

SendDelimiter ==
  /\ stage = "prelude"
  /\ result = "ok"
  /\ send_data(Delimiter)
  /\ stage' = "delimiter"
  /\ UNCHANGED <<yielded, panicked, late>>

\* The task returns after a failed send, whatever it was sending.
SendFailed ==
  /\ pc = "idle"
  /\ stage \in {"prelude", "delimiter", "item"}
  /\ result = "err"
  /\ stage' = "returned"
  /\ UNCHANGED <<channelVars, yielded, panicked, late>>

\* Faulty variant: the task goes on whether or not the last send succeeded.
AwaitsStreamWhatever ==
  /\ pc = "idle"
  /\ stage \in {"delimiter", "item"}

AwaitsStream ==
  /\ pc = "idle"
  /\ stage \in {"delimiter", "item"}
  /\ result = "ok"

\* An error item becomes text that is sent like a chunk.
Rendered(item) == IF item = StreamError THEN ErrorText ELSE item

Taken(item) ==
  /\ Len(yielded) < MaxYielded
  /\ yielded' = Append(yielded, item)
  /\ late' = IF want = "closed" THEN late + 1 ELSE late
  /\ UNCHANGED panicked

\* Faulty variant: an item that finds no room is dropped.
StreamYieldsTries(item) ==
  /\ AwaitsStream
  /\ Taken(item)
  /\ \/ try_send_data(Rendered(item))
     \/ SenderParked /\ UNCHANGED channelVars
  /\ stage' = "item"

\* An item of the stream is sent; an error does not end the loop.
StreamYields(item) ==
  /\ AwaitsStream
  /\ Taken(item)
  /\ send_data(Rendered(item))
  /\ stage' = "item"

StreamEnds ==
  /\ AwaitsStream
  /\ stage' = "returned"
  /\ UNCHANGED <<channelVars, yielded, panicked, late>>

\* A panic of the user's stream unwinds the task.
StreamPanics ==
  /\ AwaitsStream
  /\ panicked' = TRUE
  /\ stage' = "returned"
  /\ UNCHANGED <<channelVars, yielded, late>>

\* The task's end drops the Sender; nothing aborts the body.
SenderDropped == stage = "returned" /\ DropData /\ UNCHANGED taskVars

Task ==
  \/ SendPrelude
  \/ SendDelimiter
  \/ SendFailed
  \/ \E item \in Chunks \cup {StreamError} : StreamYields(item)
  \/ StreamEnds
  \/ StreamPanics
  \/ SenderDropped

Next ==
  \/ Task
  \/ SenderProceeds /\ UNCHANGED taskVars
  \/ ReceiverProceeds /\ UNCHANGED taskVars
  \/ CloseWant /\ UNCHANGED taskVars

Finished == pc = "dropped" /\ rpc = "dropped" /\ UNCHANGED vars

\* The executor polls the task, and the user's stream yields until it ends.
Fairness ==
  /\ WF_vars(Task)
  /\ WF_vars(SenderProceeds /\ UNCHANGED taskVars)
  /\ WF_vars(ReceiverProceeds /\ UNCHANGED taskVars)

Safety == Init /\ [][Next \/ Finished]_vars

Spec == Safety /\ Fairness

-----------------------------------------------------------------------------
(* Properties.                                                             *)

\* The response as the task frames it.
Framed ==
  <<Prelude, Delimiter>> \o [i \in DOMAIN yielded |-> Rendered(yielded[i])]

\* The pieces of the framed stream before the first error of the user's stream.
Sound == {i \in DOMAIN Framed : \A j \in 1..i : Framed[j] # ErrorText}

\* Up to the first error of the user's stream the connection reads the framed
\* stream in order, and all of it before the body ends normally; nothing is added
\* to a stream without an error.  A panic is excepted, and nothing is said of how
\* an error and what follows it travel (requests.rs:180-206).
WholeStream ==
  /\ \A i \in Sound : /\ i <= Len(received) => received[i] = Framed[i]
                      /\ rpc = "ended" /\ ~panicked => i <= Len(received)
  /\ Sound = DOMAIN Framed => Len(received) <= Len(Framed)

\* Once the connection is gone the task takes at most one more item from the
\* user's stream (requests.rs:201-204).
StopsSoon == late <= 1

=============================================================================
