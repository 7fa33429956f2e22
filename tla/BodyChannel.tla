---------------------------- MODULE BodyChannel ----------------------------
(***************************************************************************)
(* The channel body of a streaming response                                *)
(* (lambda-runtime-api-client/src/body/{channel,sender,watch}.rs): a       *)
(* Sender, and a ChannelBody that the HTTP connection polls, on different  *)
(* threads.                                                                *)
(*                                                                         *)
(* They share a bounded channel without spare room, a watch that tells the *)
(* sender whether the body is still wanted, and a oneshot for trailers.    *)
(* The two channels are those of futures-channel: each of their operations *)
(* is one step.  What this crate does around them is stepped through,      *)
(* because either thread may move in between.                              *)
(*                                                                         *)
(* A task that finds nothing to do leaves a waker and sleeps; a wake that  *)
(* comes while it still runs is kept in `woken`.                           *)
(***************************************************************************)
EXTENDS Naturals, Sequences

CONSTANTS
  Items,   (* what can be sent                                             *)
  Err      (* an error on the data channel                                 *)

ASSUME BodyChannelAssumption == Err \notin Items

VARIABLES
  want,        (* the watch's value: "ready" or "closed"                   *)
  wantWaker,   (* is the sender's waker in the watch?                      *)
  queue,       (* the data channel                                         *)
  open,        (* neither the receiver nor the last sender is gone         *)
  parked,      (* the handles to unpark, one for each item in the queue    *)
  parkWaker,   (* is the sender's waker in its handle?                     *)
  dataWaker,   (* is the receiver's waker in the data channel?             *)
  trailers,    (* the oneshot: "none", "sent", "taken" or "gone"           *)
  trailerWaker,(* is the receiver's waker in the oneshot?                  *)
  woken,       (* the tasks that were woken and not polled since           *)
  pc,          (* the sender                                               *)
  chunk,       (* the chunk it is sending                                  *)
  result,      (* what its last send_data returned                         *)
  rpc,         (* the receiver                                             *)
  accepted,    (* history: what was put on the data channel                *)
  received,    (* history: what poll_frame returned                        *)
  errorSent    (* history: was send_error called on an open channel?       *)

sharedVars == <<want, wantWaker, queue, open, parked, parkWaker, dataWaker,
                trailers, trailerWaker>>
channelVars == <<sharedVars, woken, pc, chunk, result, rpc, accepted, received,
                 errorSent>>

NoChunk == Err

TypeOK ==
  /\ want \in {"ready", "closed"}
  /\ wantWaker \in BOOLEAN
  /\ queue \in Seq(Items \cup {Err})
  /\ open \in BOOLEAN
  /\ parked \in Seq({"sender", "clone"})
  /\ parkWaker \in BOOLEAN
  /\ dataWaker \in BOOLEAN
  /\ trailers \in {"none", "sent", "taken", "gone"}
  /\ trailerWaker \in BOOLEAN
  /\ woken \subseteq {"sender", "receiver"}
  /\ pc \in {"idle", "registering", "loading", "polling", "asleep", "sending",
             "aborting", "dropping", "dropped"}
  /\ chunk \in Items \cup {NoChunk}
  /\ result \in {"none", "ok", "err"}
  /\ rpc \in {"running", "asleep", "ended", "failed", "waking", "closing",
              "dropped"}
  /\ accepted \in Seq(Items \cup {Err})
  /\ received \in Seq(Items \cup {Err})
  /\ errorSent \in BOOLEAN

InitChannel ==
  /\ want = "ready"
  /\ wantWaker = FALSE
  /\ queue = <<>>
  /\ open = TRUE
  /\ parked = <<>>
  /\ parkWaker = FALSE
  /\ dataWaker = FALSE
  /\ trailers = "none"
  /\ trailerWaker = FALSE
  /\ woken = {}
  /\ pc = "idle"
  /\ chunk = NoChunk
  /\ result = "none"
  /\ rpc = "running"
  /\ accepted = <<>>
  /\ received = <<>>
  /\ errorSent = FALSE

-----------------------------------------------------------------------------
(* futures-channel.                                                        *)

SenderParked == \E i \in 1..Len(parked) : parked[i] = "sender"

\* An item goes on the open channel whatever it holds; the handle that sent
\* it is parked until the receiver has taken an item, and the receiver woken.
Push(item, handle) ==
  /\ queue' = Append(queue, item)
  /\ accepted' = Append(accepted, item)
  /\ parked' = Append(parked, handle)
  /\ dataWaker' = FALSE
  /\ woken' = IF dataWaker THEN woken \cup {"receiver"} ELSE woken

\* The receiver unparks handles, the sender's among them if `own`.
Unpark(own) ==
  /\ parkWaker' = (parkWaker /\ ~own)
  /\ woken' = IF own /\ parkWaker THEN woken \cup {"sender"} ELSE woken

-----------------------------------------------------------------------------
(* Sender.                                                                 *)

\* An older wake may have been used up since by another await of the task.
send_data(c) ==
  /\ pc = "idle"
  /\ pc' = "registering"
  /\ chunk' = c
  /\ result' = "none"
  /\ woken' \in {woken, woken \ {"sender"}}
  /\ UNCHANGED <<sharedVars, rpc, accepted, received, errorSent>>

Return(res) ==
  /\ pc' = "idle"
  /\ chunk' = NoChunk
  /\ result' = res

\* watch::Receiver::load leaves the waker before it reads the value.
Register ==
  /\ pc = "registering"
  /\ wantWaker' = TRUE
  /\ pc' = "loading"
  /\ UNCHANGED <<want, queue, open, parked, parkWaker, dataWaker, trailers,
                 trailerWaker, woken, chunk, result, rpc, accepted, received,
                 errorSent>>

poll_want ==
  /\ pc = "loading"
  /\ IF want = "closed" THEN Return("err")
                        ELSE pc' = "polling" /\ UNCHANGED <<chunk, result>>
  /\ UNCHANGED <<sharedVars, woken, rpc, accepted, received, errorSent>>

\* Faulty variant: the sender is not told when there is room again.
poll_ready_no_waker ==
  /\ pc = "polling"
  /\ \/ ~open /\ Return("err")
     \/ open /\ SenderParked /\ pc' = "asleep" /\ UNCHANGED <<chunk, result>>
     \/ open /\ ~SenderParked /\ pc' = "sending" /\ UNCHANGED <<chunk, result>>
  /\ UNCHANGED <<sharedVars, woken, rpc, accepted, received, errorSent>>

\* Faulty variant: send_data does not wait until there is room.
poll_ready_skipped ==
  /\ pc = "polling"
  /\ IF open /\ ~SenderParked
     THEN pc' = "sending" /\ UNCHANGED <<chunk, result>>
     ELSE Return("err")
  /\ UNCHANGED <<sharedVars, woken, rpc, accepted, received, errorSent>>

\* The data channel is asked, with the waker left in its handle if it is full.
poll_ready ==
  /\ pc = "polling"
  /\ \/ ~open /\ Return("err") /\ UNCHANGED parkWaker
     \/ /\ open /\ SenderParked
        /\ pc' = "asleep" /\ parkWaker' = TRUE
        /\ UNCHANGED <<chunk, result>>
     \/ /\ open /\ ~SenderParked
        /\ pc' = "sending"
        /\ UNCHANGED <<chunk, result, parkWaker>>
  /\ UNCHANGED <<want, wantWaker, queue, open, parked, dataWaker, trailers,
                 trailerWaker, woken, rpc, accepted, received, errorSent>>

\* The task is polled again, from the top of poll_ready.
Resume ==
  /\ pc = "asleep"
  /\ "sender" \in woken
  /\ woken' = woken \ {"sender"}
  /\ pc' = "registering"
  /\ UNCHANGED <<sharedVars, chunk, result, rpc, accepted, received, errorSent>>

\* The future of send_data is dropped while it waits: nothing was sent.
CancelSend ==
  /\ pc = "asleep"
  /\ Return("none")
  /\ UNCHANGED <<sharedVars, woken, rpc, accepted, received, errorSent>>

\* Faulty variant: chunks are sent like errors, from a handle of their own.
try_send_cloned ==
  /\ pc = "sending"
  /\ IF open THEN Push(chunk, "clone") /\ Return("ok")
             ELSE Return("err") /\ UNCHANGED <<queue, accepted, parked, dataWaker, woken>>
  /\ UNCHANGED <<want, wantWaker, open, parkWaker, trailers, trailerWaker, rpc,
                 received, errorSent>>

try_send ==
  /\ pc = "sending"
  /\ IF open
     THEN Push(chunk, "sender") /\ Return("ok")
     ELSE Return("err") /\ UNCHANGED <<queue, accepted, parked, dataWaker, woken>>
  /\ UNCHANGED <<want, wantWaker, open, parkWaker, trailers, trailerWaker, rpc,
                 received, errorSent>>

\* Succeeds only if the channel is open and has room; else the chunk comes
\* back to the caller and nothing changes.
try_send_data(c) ==
  /\ pc = "idle"
  /\ open /\ ~SenderParked
  /\ Push(c, "sender")
  /\ UNCHANGED <<want, wantWaker, open, parkWaker, trailers, trailerWaker, pc,
                 chunk, result, rpc, received, errorSent>>

\* Faulty variant: the error needs room on the channel.
send_error_own ==
  /\ pc = "idle"
  /\ errorSent' = (errorSent \/ open)
  /\ IF open /\ ~SenderParked
     THEN Push(Err, "sender")
     ELSE UNCHANGED <<queue, accepted, parked, dataWaker, woken>>
  /\ UNCHANGED <<want, wantWaker, open, parkWaker, trailers, trailerWaker,
                 chunk, result, rpc, received>>

\* The error goes through a clone of the handle, which is not parked.
send_error ==
  /\ pc = "idle"
  /\ errorSent' = (errorSent \/ open)
  /\ IF open
     THEN Push(Err, "clone")
     ELSE UNCHANGED <<queue, accepted, parked, dataWaker, woken>>
  /\ UNCHANGED <<want, wantWaker, open, parkWaker, trailers, trailerWaker,
                 chunk, result, rpc, received>>

\* abort sends an error and drops the sender.
abort == send_error /\ pc' = "aborting"

\* The trailers are lost if the body is gone.
send_trailers ==
  /\ pc = "idle"
  /\ trailers = "none"
  /\ trailers' = IF rpc = "dropped" THEN "gone" ELSE "sent"
  /\ trailerWaker' = FALSE
  /\ woken' = IF trailerWaker THEN woken \cup {"receiver"} ELSE woken
  /\ UNCHANGED <<want, wantWaker, queue, open, parked, parkWaker, dataWaker, pc,
                 chunk, result, rpc, accepted, received, errorSent>>

\* The Sender is dropped, field by field: the data channel ...
DropData ==
  /\ pc \in {"idle", "aborting"}
  /\ pc' = "dropping"
  /\ open' = FALSE
  /\ dataWaker' = FALSE
  /\ woken' = IF dataWaker THEN woken \cup {"receiver"} ELSE woken
  /\ UNCHANGED <<want, wantWaker, queue, parked, parkWaker, trailers,
                 trailerWaker, chunk, result, rpc, accepted, received, errorSent>>

\* ... and then the trailers, if they were not sent.
DropTrailers ==
  /\ pc = "dropping"
  /\ pc' = "dropped"
  /\ trailers' = IF trailers = "none" THEN "gone" ELSE trailers
  /\ trailerWaker' = FALSE
  /\ woken' = IF trailerWaker THEN woken \cup {"receiver"} ELSE woken
  /\ UNCHANGED <<want, wantWaker, queue, open, parked, parkWaker, dataWaker,
                 chunk, result, rpc, accepted, received, errorSent>>

-----------------------------------------------------------------------------
(* ChannelBody.  The watch is "ready" as long as the body lives, so the    *)
(* send of "ready" at the top of poll_frame changes and wakes nothing.     *)

Sleep == rpc' = "asleep"

\* poll_frame takes an item and unparks the handle that is parked longest.
\* The connection stops at an error.
poll_data ==
  /\ rpc = "running"
  /\ queue # <<>>
  /\ received' = Append(received, Head(queue))
  /\ queue' = Tail(queue)
  /\ rpc' = IF Head(queue) = Err THEN "failed" ELSE "running"
  /\ parked' = Tail(parked)
  /\ Unpark(Head(parked) = "sender")
  /\ UNCHANGED <<want, wantWaker, open, dataWaker, trailers, trailerWaker, pc,
                 chunk, result, accepted, errorSent>>

\* poll_frame finds the open channel empty.
PendingData ==
  /\ rpc = "running"
  /\ queue = <<>>
  /\ open
  /\ dataWaker' = TRUE
  /\ Sleep
  /\ UNCHANGED <<want, wantWaker, queue, open, parked, parkWaker, trailers,
                 trailerWaker, woken, pc, chunk, result, accepted, received,
                 errorSent>>

\* Faulty variant: no waker is left with the trailers.
poll_trailers_no_waker ==
  /\ rpc = "running"
  /\ queue = <<>>
  /\ ~open
  /\ \/ trailers = "sent" /\ trailers' = "taken" /\ UNCHANGED rpc
     \/ trailers \in {"taken", "gone"} /\ rpc' = "ended" /\ UNCHANGED trailers
     \/ trailers = "none" /\ Sleep /\ UNCHANGED trailers
  /\ UNCHANGED <<want, wantWaker, queue, open, parked, parkWaker, dataWaker,
                 trailerWaker, woken, pc, chunk, result, accepted, received,
                 errorSent>>

\* The data is over: poll_frame goes on to the trailers.
poll_trailers ==
  /\ rpc = "running"
  /\ queue = <<>>
  /\ ~open
  /\ \/ trailers = "sent" /\ trailers' = "taken" /\ UNCHANGED <<rpc, trailerWaker>>
     \/ /\ trailers \in {"taken", "gone"}
        /\ rpc' = "ended"
        /\ UNCHANGED <<trailers, trailerWaker>>
     \/ trailers = "none" /\ Sleep /\ trailerWaker' = TRUE /\ UNCHANGED trailers
  /\ UNCHANGED <<want, wantWaker, queue, open, parked, parkWaker, dataWaker,
                 woken, pc, chunk, result, accepted, received, errorSent>>

ResumeReceiver ==
  /\ rpc = "asleep"
  /\ "receiver" \in woken
  /\ woken' = woken \ {"receiver"}
  /\ rpc' = "running"
  /\ UNCHANGED <<sharedVars, pc, chunk, result, accepted, received, errorSent>>

\* The connection drops the body, at its end or at any time, field by field:
\* the watch is closed ...
CloseWant ==
  /\ rpc \in {"running", "asleep", "ended", "failed"}
  /\ want' = "closed"
  /\ rpc' = "waking"
  /\ UNCHANGED <<wantWaker, queue, open, parked, parkWaker, dataWaker, trailers,
                 trailerWaker, woken, pc, chunk, result, accepted, received,
                 errorSent>>

\* ... its waker is called ...
WakeWant ==
  /\ rpc = "waking"
  /\ wantWaker' = FALSE
  /\ woken' = IF wantWaker THEN woken \cup {"sender"} ELSE woken
  /\ rpc' = "closing"
  /\ UNCHANGED <<want, queue, open, parked, parkWaker, dataWaker, trailers,
                 trailerWaker, pc, chunk, result, accepted, received, errorSent>>

\* ... and the data channel is closed, emptied, and its handles unparked.
CloseData ==
  /\ rpc = "closing"
  /\ open' = FALSE
  /\ queue' = <<>>
  /\ parked' = <<>>
  /\ Unpark(SenderParked)
  /\ rpc' = "dropped"
  /\ UNCHANGED <<want, wantWaker, dataWaker, trailers, trailerWaker, pc, chunk,
                 result, accepted, received, errorSent>>

-----------------------------------------------------------------------------
\* What a task does by itself once it was called or woken.
SenderProceeds ==
  Register \/ poll_want \/ poll_ready \/ Resume \/ try_send \/ DropTrailers
    \/ (pc = "aborting" /\ DropData)

ReceiverProceeds ==
  poll_data \/ PendingData \/ poll_trailers \/ ResumeReceiver
    \/ (rpc \in {"ended", "failed"} /\ CloseWant) \/ WakeWant \/ CloseData

\* What the owner of a Sender may call, in any order.
SenderCalls ==
  \/ \E c \in Items : send_data(c) \/ try_send_data(c)
  \/ send_error /\ UNCHANGED pc
  \/ abort
  \/ send_trailers

\* Also, the future of send_data is dropped, or the Sender, or the body.
ChannelNext ==
  SenderCalls \/ CancelSend \/ DropData \/ SenderProceeds \/ ReceiverProceeds \/ CloseWant

ChannelSpec == InitChannel /\ [][ChannelNext]_channelVars

\* The executor polls a task that was woken; the connection polls the body
\* until it ends, and drops it then.
ChannelFairness == WF_channelVars(SenderProceeds) /\ WF_channelVars(ReceiverProceeds)

-----------------------------------------------------------------------------
(* Properties.                                                             *)

\* A body that ends normally has delivered everything that was accepted, in
\* order, and no error was sent: neither the order of the drops nor a full
\* channel makes an aborted or longer body look complete (sender.rs:23-29,
\* 101-112; channel.rs:81-92).
EndIsComplete == rpc = "ended" => received = accepted /\ ~errorSent

\* send_data fails only if the body is gone (sender.rs:41-69).
FailsOnlyIfGone ==
  [][result' = "err" /\ result # "err" => want = "closed"]_channelVars

\* At most one chunk waits in the channel (channel.rs:51).
BackPressure ==
  \A i, j \in 1..Len(queue) : queue[i] # Err /\ queue[j] # Err => i = j

\* No wake is lost: a task sleeps on only while what it waits for has not come.
\* The sender's wait is for room or for the body's end, which wakes it when it
\* begins; the receiver's for data, or at their end for trailers
\* (watch.rs:47-65, sender.rs:41-69, channel.rs:81-108).
NoWakeLost ==
  /\ pc = "asleep" /\ "sender" \notin woken =>
       SenderParked /\ open /\ (want = "ready" \/ rpc = "waking")
  /\ rpc = "asleep" /\ "receiver" \notin woken =>
       queue = <<>> /\ (open \/ trailers = "none")

\* send_data returns, if only because the body is dropped: no wake is lost
\* (watch.rs:47-65, sender.rs:41-69).
SendReturns == chunk # NoChunk ~> chunk = NoChunk

\* Once the sender is dropped the body comes to its end (channel.rs:81-92).
EndIsReached == pc = "dropped" ~> rpc \notin {"running", "asleep"}

=============================================================================
