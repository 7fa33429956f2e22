----------------------------- MODULE StreamProofs -----------------------------
(***************************************************************************)
(* Proofs about BodyChannel, for any chunks and any order of calls: a body *)
(* that ends normally is complete (DeliveryOK), the channel holds one      *)
(* chunk besides errors (RoomOK), and send_data fails only when the body   *)
(* is gone (EndsOK). Then, for the task of ResponseStream, whose calls are *)
(* some of those: what was accepted are the first pieces of the framed     *)
(* stream, as many as the task has got to (FramingOK), and once the body   *)
(* is gone the task takes at most one more item (LateOK).                  *)
(***************************************************************************)
EXTENDS ResponseStream, SequenceTheorems, TLAPS

-----------------------------------------------------------------------------
(* The inductive invariant.                                                *)

\* The channel is closed by the end of the sender or of the body, and the
\* watch at the beginning of the body's end.
EndsOK ==
  /\ ~open => pc \in {"dropping", "dropped"} \/ rpc = "dropped"
  /\ rpc \in {"waking", "closing", "dropped"} => want = "closed"

\* What was accepted was received or waits; a body ends when nothing waits and
\* nothing can come; an error is received last.
DeliveryOK ==
  /\ rpc # "dropped" => accepted = received \o queue
  /\ rpc = "ended" => queue = <<>> /\ ~open
  /\ rpc \in {"running", "asleep", "ended"} => \A i \in 1..Len(received) : received[i] # Err
  /\ errorSent => \E i \in 1..Len(accepted) : accepted[i] = Err

\* Each waiting item has parked the handle that sent it. Chunks are sent from one
\* handle, and only while that is not parked.
RoomOK ==
  /\ Len(parked) = Len(queue)
  /\ \A i \in 1..Len(queue) : queue[i] # Err => parked[i] = "sender"
  /\ \A i, j \in 1..Len(parked) : parked[i] = "sender" /\ parked[j] = "sender" => i = j
  /\ pc = "sending" => ~SenderParked

IInv == TypeOK /\ EndsOK /\ DeliveryOK /\ RoomOK

-----------------------------------------------------------------------------
\* An item is put on the open channel, from a handle that is not parked; only
\* a clone sends an error.
LEMMA PushKeeps ==
  ASSUME IInv, open,
         NEW item \in Items \cup {Err}, NEW handle \in {"sender", "clone"},
         handle = "sender" => ~SenderParked,
         item # Err => handle = "sender",
         Push(item, handle),
         received' = received
  PROVE  /\ queue' \in Seq(Items \cup {Err}) /\ accepted' \in Seq(Items \cup {Err})
         /\ parked' \in Seq({"sender", "clone"})
         /\ woken' \subseteq {"sender", "receiver"} /\ dataWaker' \in BOOLEAN
         /\ rpc # "dropped" => accepted' = received' \o queue'
         /\ item = Err => \E i \in 1..Len(accepted') : accepted'[i] = Err
         /\ \A i \in 1..Len(accepted) : i \in 1..Len(accepted') /\ accepted'[i] = accepted[i]
         /\ Len(parked') = Len(queue')
         /\ \A i \in 1..Len(queue') : queue'[i] # Err => parked'[i] = "sender"
         /\ \A i, j \in 1..Len(parked') :
              parked'[i] = "sender" /\ parked'[j] = "sender" => i = j
         /\ handle = "clone" /\ ~SenderParked => ~SenderParked'
<1> DEFINE All == Items \cup {Err}
           Handles == {"sender", "clone"}
<1>1. queue \in Seq(All) /\ accepted \in Seq(All) /\ received \in Seq(All)
      /\ parked \in Seq(Handles)
  BY DEF IInv, TypeOK, NoChunk
<1>2. queue' = Append(queue, item) /\ accepted' = Append(accepted, item)
      /\ parked' = Append(parked, handle)
  BY DEF Push
<1>3. /\ queue' \in Seq(All) /\ Len(queue') = Len(queue) + 1
      /\ queue'[Len(queue) + 1] = item
      /\ \A i \in 1..Len(queue) : queue'[i] = queue[i]
  BY <1>1, <1>2, AppendProperties
<1>4. /\ accepted' \in Seq(All) /\ Len(accepted') = Len(accepted) + 1
      /\ accepted'[Len(accepted) + 1] = item
      /\ \A i \in 1..Len(accepted) : accepted'[i] = accepted[i]
  BY <1>1, <1>2, AppendProperties
<1>5. /\ parked' \in Seq(Handles) /\ Len(parked') = Len(parked) + 1
      /\ parked'[Len(parked) + 1] = handle
      /\ \A i \in 1..Len(parked) : parked'[i] = parked[i]
  BY <1>1, <1>2, AppendProperties
<1>6. Len(queue) \in Nat /\ Len(accepted) \in Nat /\ Len(parked) = Len(queue)
  BY <1>1, LenProperties DEF IInv, RoomOK
<1>7. woken' \subseteq {"sender", "receiver"} /\ dataWaker' \in BOOLEAN
  BY DEF Push, IInv, TypeOK
<1>8. ASSUME rpc # "dropped"  PROVE accepted' = received' \o queue'
  <2>1. accepted = received \o queue
    BY <1>8 DEF IInv, DeliveryOK
  <2>2. /\ accepted' = accepted \o <<item>>
        /\ queue' = queue \o <<item>>
    BY <1>1, <1>2, AppendIsConcat
  <2>3. <<item>> \in Seq(All)
    BY SMT
  <2>4. (received \o queue) \o <<item>> = received \o (queue \o <<item>>)
    BY <1>1, <2>3, ConcatAssociative
  <2> QED  BY <2>1, <2>2, <2>4
<1>9. ASSUME NEW i \in 1..Len(queue'), queue'[i] # Err
      PROVE  parked'[i] = "sender"
  <2>1. CASE i \in 1..Len(queue)
    BY <1>3, <1>5, <1>6, <1>9, <2>1 DEF IInv, RoomOK
  <2>2. CASE i = Len(queue) + 1
    BY <1>3, <1>5, <1>6, <1>9, <2>2
  <2> QED  BY <1>3, <1>6, <2>1, <2>2, SMT
<1>10. ASSUME NEW i \in 1..Len(parked'), NEW j \in 1..Len(parked'),
              parked'[i] = "sender", parked'[j] = "sender"
       PROVE  i = j
  <2>1. CASE handle = "sender"
    <3>1. \A k \in 1..Len(parked) : parked'[k] # "sender"
      BY <1>5, <2>1 DEF SenderParked
    <3> QED  BY <1>5, <1>6, <1>10, <3>1, SMT
  <2>2. CASE handle = "clone"
    <3>1. i \in 1..Len(parked) /\ j \in 1..Len(parked)
      BY <1>5, <1>6, <1>10, <2>2, SMT
    <3> QED  BY <1>5, <1>10, <3>1 DEF IInv, RoomOK
  <2> QED  BY <2>1, <2>2
<1>11. ASSUME handle = "clone", ~SenderParked  PROVE ~SenderParked'
  BY <1>5, <1>6, <1>11, SMT DEF SenderParked
<1>12. \A i \in 1..Len(accepted) : i \in 1..Len(accepted')
  BY <1>4, <1>6, SMT
<1>13. item = Err => \E i \in 1..Len(accepted') : accepted'[i] = Err
  <2>1. Len(accepted) + 1 \in 1..Len(accepted')
    BY <1>4, <1>6, SMT
  <2> QED  BY <1>4, <2>1
<1>14. Len(parked') = Len(queue')
  BY <1>3, <1>5, <1>6
<1> QED  BY <1>3, <1>4, <1>5, <1>7, <1>8, <1>9, <1>10, <1>11, <1>12, <1>13, <1>14

\* poll_frame takes the first item from the channel.
LEMMA TakeKeeps ==
  ASSUME IInv, poll_data
  PROVE  IInv'
<1> DEFINE All == Items \cup {Err}
           Handles == {"sender", "clone"}
<1>1. queue \in Seq(All) /\ accepted \in Seq(All) /\ received \in Seq(All)
      /\ parked \in Seq(Handles) /\ queue # <<>>
  BY DEF IInv, TypeOK, poll_data
<1>2. received' = Append(received, Head(queue)) /\ queue' = Tail(queue)
      /\ parked' = Tail(parked)
  BY DEF poll_data
<1>3. Len(queue) \in Nat \ {0} /\ Len(parked) = Len(queue) /\ parked # <<>>
  BY <1>1, EmptySeq DEF IInv, RoomOK
<1>4. /\ Head(queue) \in All /\ queue' \in Seq(All) /\ Len(queue') = Len(queue) - 1
      /\ \A i \in 1..Len(queue') : queue'[i] = queue[i + 1]
  BY <1>1, <1>2, HeadTailProperties
<1>5. /\ parked' \in Seq(Handles) /\ Len(parked') = Len(parked) - 1
      /\ \A i \in 1..Len(parked') : parked'[i] = parked[i + 1]
  BY <1>1, <1>2, <1>3, HeadTailProperties
<1>6. /\ received' \in Seq(All) /\ Len(received') = Len(received) + 1
      /\ received'[Len(received) + 1] = Head(queue)
      /\ \A i \in 1..Len(received) : received'[i] = received[i]
      /\ Len(received) \in Nat
  BY <1>1, <1>2, <1>4, AppendProperties, LenProperties
<1>7. TypeOK'
  BY <1>4, <1>5, <1>6 DEF IInv, TypeOK, poll_data, Unpark
<1>8. EndsOK'
  BY DEF IInv, EndsOK, poll_data
<1>9. DeliveryOK'
  <2>1. accepted' = received' \o queue'
    <3>1. accepted = received \o queue /\ accepted' = accepted
      BY DEF IInv, DeliveryOK, poll_data
    <3>2. queue = <<Head(queue)>> \o Tail(queue)
      BY <1>1, HeadTailProperties
    <3>3. <<Head(queue)>> \in Seq(All)
      BY <1>4, SMT
    <3>4. received' = received \o <<Head(queue)>>
      BY <1>1, <1>2, <1>4, AppendIsConcat
    <3>5. received \in Seq(All) /\ Tail(queue) \in Seq(All)
      BY <1>1, <1>2, <1>4
    <3>6. (received \o <<Head(queue)>>) \o Tail(queue) = received \o (<<Head(queue)>> \o Tail(queue))
      BY <3>3, <3>5, ConcatAssociative, SMTT(30)
    <3> QED  BY <1>2, <3>1, <3>2, <3>4, <3>6
  <2>2. rpc' \in {"running", "failed"} /\ rpc = "running"
    BY DEF poll_data
  <2>3. ASSUME rpc' = "running"
        PROVE  \A i \in 1..Len(received') : received'[i] # Err
    <3>1. Head(queue) # Err /\ \A i \in 1..Len(received) : received[i] # Err
      BY <2>2, <2>3 DEF poll_data, IInv, DeliveryOK
    <3> QED  BY <1>6, <3>1, SMT
  <2>4. errorSent' = errorSent /\ accepted' = accepted
    BY DEF poll_data
  <2> QED  BY <2>1, <2>2, <2>3, <2>4 DEF DeliveryOK, IInv
<1>10. RoomOK'
  <2>1. \A i \in 1..Len(queue') : i + 1 \in 1..Len(queue)
    BY <1>3, <1>4, SMT
  <2>2. \A i \in 1..Len(queue') : queue'[i] # Err => parked'[i] = "sender"
    BY <1>3, <1>4, <1>5, <2>1 DEF IInv, RoomOK
  <2>3. \A i, j \in 1..Len(parked') : parked'[i] = "sender" /\ parked'[j] = "sender" => i = j
    <3> SUFFICES ASSUME NEW i \in 1..Len(parked'), NEW j \in 1..Len(parked'),
                        parked'[i] = "sender", parked'[j] = "sender"
                 PROVE  i = j
      OBVIOUS
    <3>1. i + 1 \in 1..Len(parked) /\ j + 1 \in 1..Len(parked)
      BY <1>3, <1>4, <1>5, <2>1
    <3>2. parked[i + 1] = "sender" /\ parked[j + 1] = "sender"
      BY <1>5
    <3>3. i + 1 = j + 1
      BY <3>1, <3>2 DEF IInv, RoomOK
    <3> QED  BY <1>3, <1>5, <3>3, SMT
  <2>4. ~SenderParked => ~SenderParked'
    BY <1>3, <1>4, <1>5, <2>1 DEF SenderParked
  <2>5. pc' = pc
    BY DEF poll_data
  <2>6. Len(parked') = Len(queue')
    BY <1>3, <1>4, <1>5
  <2> QED  BY <2>2, <2>3, <2>4, <2>5, <2>6 DEF RoomOK, IInv
<1> QED  BY <1>7, <1>8, <1>9, <1>10 DEF IInv

\* The body is dropped with what is in the channel.
LEMMA CloseKeeps ==
  ASSUME IInv, CloseData
  PROVE  IInv'
<1>1. TypeOK'
  <2>1. <<>> \in Seq(Items \cup {Err}) /\ <<>> \in Seq({"sender", "clone"})
    BY EmptySeq
  <2>2. woken' \subseteq {"sender", "receiver"} /\ parkWaker' \in BOOLEAN
    BY DEF IInv, TypeOK, CloseData, Unpark
  <2>3. /\ open' \in BOOLEAN /\ queue' = <<>> /\ parked' = <<>> /\ rpc' = "dropped"
        /\ UNCHANGED <<want, wantWaker, dataWaker, trailers, trailerWaker, pc, chunk,
                       result, accepted, received, errorSent>>
    BY DEF CloseData
  <2> QED  BY <2>1, <2>2, <2>3 DEF IInv, TypeOK, NoChunk
<1>2. EndsOK'
  BY DEF IInv, EndsOK, CloseData
<1>3. DeliveryOK'
  BY DEF IInv, DeliveryOK, CloseData
<1>4. RoomOK'
  BY EmptySeq, SMT DEF IInv, RoomOK, CloseData, SenderParked
<1> QED  BY <1>1, <1>2, <1>3, <1>4 DEF IInv

\* A step that leaves the channel's contents and the histories alone keeps what
\* is said of them, if it closes the channel only with the sender, sends only
\* after it has seen room, and ends the body only when nothing can come.
LEMMA QuietKeeps ==
  ASSUME IInv, TypeOK',
         UNCHANGED <<queue, accepted, received, parked, errorSent>>,
         open' = open \/ (~open' /\ pc' = "dropping"),
         pc \in {"dropping", "dropped"} => pc' \in {"dropping", "dropped"},
         pc' = "sending" => pc = "sending" \/ ~SenderParked,
         rpc = "dropped" <=> rpc' = "dropped",
         rpc' \in {"waking", "closing", "dropped"} => want' = "closed",
         rpc' \in {"running", "asleep", "ended"} => rpc \in {"running", "asleep", "ended"},
         rpc' = "ended" => rpc = "ended" \/ (queue = <<>> /\ ~open)
  PROVE  IInv'
<1>1. EndsOK'
  BY DEF IInv, EndsOK
<1>2. DeliveryOK'
  <2>1. rpc' = "ended" => queue' = <<>> /\ ~open'
    BY DEF IInv, DeliveryOK
  <2> QED  BY <2>1 DEF IInv, DeliveryOK
<1>3. RoomOK'
  BY DEF IInv, RoomOK, SenderParked
<1> QED  BY <1>1, <1>2, <1>3 DEF IInv

\* A call of send_data, from its start to the attempt to send, and its end.
LEMMA SendKeeps ==
  ASSUME BodyChannelAssumption, IInv,
         \/ \E c \in Items : send_data(c)
         \/ Register \/ poll_want \/ poll_ready \/ Resume \/ CancelSend
  PROVE  IInv'
<1>1. CASE \E c \in Items : send_data(c)
  <2>1. TypeOK'
    BY <1>1 DEF IInv, TypeOK, send_data, sharedVars
  <2> QED  BY <1>1, <2>1, QuietKeeps DEF send_data, sharedVars, IInv, EndsOK
<1>2. CASE Register
  <2>1. TypeOK'
    BY <1>2 DEF IInv, TypeOK, Register
  <2> QED  BY <1>2, <2>1, QuietKeeps DEF Register, IInv, EndsOK
<1>3. CASE poll_want
  <2>1. TypeOK'
    BY <1>3 DEF IInv, TypeOK, poll_want, Return, NoChunk, sharedVars
  <2> QED  BY <1>3, <2>1, QuietKeeps DEF poll_want, Return, sharedVars, IInv, EndsOK
<1>4. CASE poll_ready
  <2>1. TypeOK'
    <3>1. /\ pc' \in {"idle", "asleep", "sending"} /\ parkWaker' \in BOOLEAN
          /\ chunk' \in Items \cup {NoChunk} /\ result' \in {"none", "ok", "err"}
      BY <1>4 DEF IInv, TypeOK, poll_ready, Return
    <3> QED  BY <1>4, <3>1 DEF IInv, TypeOK, poll_ready
  <2> QED  BY <1>4, <2>1, QuietKeeps DEF poll_ready, Return, IInv, EndsOK
<1>5. CASE Resume
  <2>1. TypeOK'
    BY <1>5 DEF IInv, TypeOK, Resume, sharedVars
  <2> QED  BY <1>5, <2>1, QuietKeeps DEF Resume, sharedVars, IInv, EndsOK
<1>6. CASE CancelSend
  <2>1. TypeOK'
    BY <1>6 DEF IInv, TypeOK, CancelSend, Return, NoChunk, sharedVars
  <2> QED  BY <1>6, <2>1, QuietKeeps DEF CancelSend, Return, sharedVars, IInv, EndsOK
<1> QED  BY <1>1, <1>2, <1>3, <1>4, <1>5, <1>6

\* The trailers and the two drops of the Sender.
LEMMA DropKeeps ==
  ASSUME IInv, send_trailers \/ DropData \/ DropTrailers
  PROVE  IInv'
<1>0. TypeOK
  BY DEF IInv
<1>1. CASE send_trailers
  <2>1. TypeOK'
    <3>1. woken' \subseteq {"sender", "receiver"} /\ trailers' \in {"sent", "gone"}
      BY <1>1 DEF IInv, TypeOK, send_trailers
    <3>2. /\ trailerWaker' \in BOOLEAN
          /\ UNCHANGED <<want, wantWaker, queue, open, parked, parkWaker, dataWaker, pc,
                         chunk, result, rpc, accepted, received, errorSent>>
      BY <1>1 DEF send_trailers
    <3> QED  BY <1>0, <3>1, <3>2 DEF TypeOK
  <2> QED  BY <1>1, <2>1, QuietKeeps DEF send_trailers, IInv, EndsOK
<1>2. CASE DropData
  <2>1. TypeOK'
    <3>1. woken' \subseteq {"sender", "receiver"}
      BY <1>2 DEF IInv, TypeOK, DropData
    <3>2. /\ pc' = "dropping" /\ open' \in BOOLEAN /\ dataWaker' \in BOOLEAN
          /\ UNCHANGED <<want, wantWaker, queue, parked, parkWaker, trailers,
                         trailerWaker, chunk, result, rpc, accepted, received, errorSent>>
      BY <1>2 DEF DropData
    <3> QED  BY <1>0, <3>1, <3>2 DEF TypeOK
  <2> QED  BY <1>2, <2>1, QuietKeeps DEF DropData, IInv, EndsOK
<1>3. CASE DropTrailers
  <2>1. TypeOK'
    <3>1. woken' \subseteq {"sender", "receiver"}
      BY <1>3 DEF IInv, TypeOK, DropTrailers
    <3>2. /\ pc' = "dropped" /\ trailers' \in {trailers, "gone"} /\ trailerWaker' \in BOOLEAN
          /\ UNCHANGED <<want, wantWaker, queue, open, parked, parkWaker, dataWaker,
                         chunk, result, rpc, accepted, received, errorSent>>
      BY <1>3 DEF DropTrailers
    <3> QED  BY <1>0, <3>1, <3>2 DEF TypeOK
  <2> QED  BY <1>3, <2>1, QuietKeeps DEF DropTrailers, IInv, EndsOK
<1> QED  BY <1>1, <1>2, <1>3

\* The receiver's steps that take nothing.
LEMMA PollKeeps ==
  ASSUME IInv, PendingData \/ poll_trailers \/ ResumeReceiver \/ CloseWant \/ WakeWant
  PROVE  IInv'
<1>1. CASE PendingData
  <2>1. TypeOK'
    BY <1>1 DEF IInv, TypeOK, PendingData, Sleep
  <2> QED  BY <1>1, <2>1, QuietKeeps DEF PendingData, Sleep, IInv, EndsOK
<1>2. CASE poll_trailers
  <2>1. TypeOK'
    <3>1. /\ trailers' \in {"none", "sent", "taken", "gone"} /\ trailerWaker' \in BOOLEAN
          /\ rpc' \in {"running", "asleep", "ended"}
      BY <1>2 DEF IInv, TypeOK, poll_trailers, Sleep
    <3> QED  BY <1>2, <3>1 DEF IInv, TypeOK, poll_trailers
  <2> QED  BY <1>2, <2>1, QuietKeeps DEF poll_trailers, Sleep, IInv, EndsOK
<1>3. CASE ResumeReceiver
  <2>1. TypeOK'
    BY <1>3 DEF IInv, TypeOK, ResumeReceiver, sharedVars
  <2> QED  BY <1>3, <2>1, QuietKeeps DEF ResumeReceiver, sharedVars, IInv, EndsOK
<1>4. CASE CloseWant
  <2>1. TypeOK'
    BY <1>4 DEF IInv, TypeOK, CloseWant
  <2> QED  BY <1>4, <2>1, QuietKeeps DEF CloseWant, IInv, EndsOK
<1>5. CASE WakeWant
  <2>1. TypeOK'
    <3>1. woken' \subseteq {"sender", "receiver"}
      BY <1>5 DEF IInv, TypeOK, WakeWant
    <3>2. /\ wantWaker' \in BOOLEAN /\ rpc' = "closing"
          /\ UNCHANGED <<want, queue, open, parked, parkWaker, dataWaker, trailers,
                         trailerWaker, pc, chunk, result, accepted, received, errorSent>>
      BY <1>5 DEF WakeWant
    <3> QED  BY <3>1, <3>2 DEF IInv, TypeOK, NoChunk
  <2> QED  BY <1>5, <2>1, QuietKeeps DEF WakeWant, IInv, EndsOK
<1> QED  BY <1>1, <1>2, <1>3, <1>4, <1>5
-----------------------------------------------------------------------------
\* Sending: a chunk, an error, an error that ends the sender, or nothing because
\* the channel is closed.
LEMMA PushingKeeps ==
  ASSUME BodyChannelAssumption, IInv,
         \/ try_send
         \/ \E c \in Items : try_send_data(c)
         \/ send_error /\ pc' \in {pc, "aborting"}
  PROVE  IInv'
<1>1. ASSUME NEW item \in Items \cup {Err}, NEW handle \in {"sender", "clone"},
             open, Push(item, handle),
             handle = "sender" => ~SenderParked,
             item # Err => handle = "sender",
             pc' = "sending" => pc = "sending" /\ handle = "clone",
             pc' \in {pc, "idle", "aborting"}, pc \in {"idle", "sending"},
             chunk' \in Items \cup {NoChunk}, result' \in {"none", "ok", "err"},
             errorSent' \in BOOLEAN, errorSent' => errorSent \/ item = Err,
             UNCHANGED <<want, wantWaker, open, parkWaker, trailers, trailerWaker,
                         rpc, received>>
      PROVE  IInv'
  <2>1. /\ queue' \in Seq(Items \cup {Err}) /\ accepted' \in Seq(Items \cup {Err})
        /\ parked' \in Seq({"sender", "clone"})
        /\ woken' \subseteq {"sender", "receiver"} /\ dataWaker' \in BOOLEAN
        /\ rpc # "dropped" => accepted' = received' \o queue'
        /\ item = Err => \E i \in 1..Len(accepted') : accepted'[i] = Err
        /\ \A i \in 1..Len(accepted) : i \in 1..Len(accepted') /\ accepted'[i] = accepted[i]
        /\ Len(parked') = Len(queue')
        /\ \A i \in 1..Len(queue') : queue'[i] # Err => parked'[i] = "sender"
        /\ \A i, j \in 1..Len(parked') :
             parked'[i] = "sender" /\ parked'[j] = "sender" => i = j
        /\ handle = "clone" /\ ~SenderParked => ~SenderParked'
    BY <1>1, PushKeeps
  <2>2. TypeOK'
    BY <1>1, <2>1 DEF IInv, TypeOK, NoChunk
  <2>3. EndsOK'
    BY <1>1 DEF IInv, EndsOK
  <2>4. DeliveryOK'
    <3>1. rpc' # "ended"
      BY <1>1 DEF IInv, DeliveryOK
    <3>2. errorSent' => \E i \in 1..Len(accepted') : accepted'[i] = Err
      BY <1>1, <2>1 DEF IInv, DeliveryOK
    <3> QED  BY <1>1, <2>1, <3>1, <3>2 DEF IInv, DeliveryOK
  <2>5. RoomOK'
    BY <1>1, <2>1 DEF IInv, RoomOK
  <2> QED  BY <2>2, <2>3, <2>4, <2>5 DEF IInv
<1>2. CASE try_send
  <2>1. CASE open
    <3>1. chunk \in Items \cup {Err}
      BY DEF IInv, TypeOK, NoChunk
    <3>2. ~SenderParked
      BY <1>2 DEF IInv, RoomOK, try_send
    <3>3. /\ Push(chunk, "sender") /\ pc = "sending" /\ pc' = "idle"
          /\ chunk' \in Items \cup {NoChunk} /\ result' \in {"none", "ok", "err"}
          /\ errorSent' \in BOOLEAN /\ (errorSent' => errorSent)
          /\ UNCHANGED <<want, wantWaker, open, parkWaker, trailers, trailerWaker,
                         rpc, received>>
      BY <1>2, <2>1 DEF try_send, Return, NoChunk, IInv, TypeOK
    <3> QED  BY <1>1, <2>1, <3>1, <3>2, <3>3
  <2>2. CASE ~open
    <3>1. TypeOK'
      <4>1. /\ pc' = "idle" /\ chunk' = NoChunk /\ result' = "err"
            /\ UNCHANGED <<want, wantWaker, queue, open, parked, parkWaker, dataWaker,
                           trailers, trailerWaker, woken, rpc, accepted, received, errorSent>>
        BY <1>2, <2>2 DEF try_send, Return
      <4> QED  BY <4>1 DEF IInv, TypeOK, NoChunk
    <3> QED  BY <1>2, <2>2, <3>1, QuietKeeps DEF try_send, Return, IInv, EndsOK
  <2> QED  BY <2>1, <2>2
<1>3. ASSUME NEW c \in Items, try_send_data(c)  PROVE IInv'
  <2>1. /\ open /\ ~SenderParked /\ Push(c, "sender") /\ pc = "idle" /\ pc' = "idle"
        /\ chunk' \in Items \cup {NoChunk} /\ result' \in {"none", "ok", "err"}
        /\ errorSent' \in BOOLEAN /\ (errorSent' => errorSent)
        /\ UNCHANGED <<want, wantWaker, open, parkWaker, trailers, trailerWaker,
                       rpc, received>>
    BY <1>3 DEF try_send_data, NoChunk, IInv, TypeOK
  <2> QED  BY <1>1, <2>1
<1>4. CASE send_error /\ pc' \in {pc, "aborting"}
  <2>1. CASE open
    <3>1. /\ Push(Err, "clone") /\ pc = "idle" /\ pc' \in {"idle", "aborting"}
          /\ chunk' \in Items \cup {NoChunk} /\ result' \in {"none", "ok", "err"}
          /\ errorSent' \in BOOLEAN
          /\ UNCHANGED <<want, wantWaker, open, parkWaker, trailers, trailerWaker,
                         rpc, received>>
      BY <1>4, <2>1 DEF send_error, NoChunk, IInv, TypeOK
    <3> QED  BY <1>1, <2>1, <3>1
  <2>2. CASE ~open
    <3>1. errorSent' = errorSent
      BY <1>4, <2>2 DEF IInv, TypeOK, send_error
    <3>2. TypeOK'
      <4>1. UNCHANGED <<want, wantWaker, queue, open, parked, parkWaker, dataWaker, trailers,
                        trailerWaker, woken, chunk, result, rpc, accepted, received>>
        BY <1>4, <2>2 DEF send_error
      <4>2. pc' \in {pc, "aborting"}
        BY <1>4
      <4> QED  BY <3>1, <4>1, <4>2 DEF IInv, TypeOK, NoChunk
    <3> QED  BY <1>4, <2>2, <3>1, <3>2, QuietKeeps DEF send_error, IInv, EndsOK
  <2> QED  BY <2>1, <2>2
<1> QED  BY <1>2, <1>3, <1>4

\* The invariant holds at the start.
LEMMA InitKeeps == InitChannel => IInv
<1> SUFFICES ASSUME InitChannel  PROVE IInv
  OBVIOUS
<1>1. <<>> \in Seq(Items \cup {Err}) /\ <<>> \in Seq({"sender", "clone"}) /\ Len(<<>>) = 0
  BY EmptySeq
<1>2. TypeOK
  BY <1>1 DEF InitChannel, TypeOK
<1>3. EndsOK /\ DeliveryOK
  <2>1. <<>> \o <<>> = <<>>
    BY <1>1, ConcatEmptySeq
  <2> QED  BY <1>1, <2>1, SMT DEF InitChannel, EndsOK, DeliveryOK
<1>4. RoomOK
  BY <1>1, SMT DEF InitChannel, RoomOK
<1> QED  BY <1>2, <1>3, <1>4 DEF IInv

\* Every step keeps the invariant.
LEMMA NextKeeps ==
  ASSUME BodyChannelAssumption, IInv, [ChannelNext]_channelVars
  PROVE  IInv'
<1>1. CASE SenderCalls
  <2>1. ASSUME NEW c \in Items, send_data(c)  PROVE IInv'
    BY <2>1, SendKeeps
  <2>2. ASSUME NEW c \in Items, try_send_data(c)  PROVE IInv'
    BY <2>2, PushingKeeps
  <2>3. CASE send_error /\ UNCHANGED pc
    BY <2>3, PushingKeeps
  <2>4. CASE abort
    BY <2>4, PushingKeeps DEF abort
  <2>5. CASE send_trailers
    BY <2>5, DropKeeps
  <2> QED  BY <1>1, <2>1, <2>2, <2>3, <2>4, <2>5 DEF SenderCalls
<1>2. CASE SenderProceeds
  BY <1>2, SendKeeps, PushingKeeps, DropKeeps DEF SenderProceeds
<1>3. CASE ReceiverProceeds
  BY <1>3, TakeKeeps, CloseKeeps, PollKeeps DEF ReceiverProceeds
<1>4. CASE CancelSend \/ DropData \/ CloseWant
  BY <1>4, SendKeeps, DropKeeps, PollKeeps
<1>5. CASE UNCHANGED channelVars
  <2>1. TypeOK'
    BY <1>5 DEF IInv, TypeOK, NoChunk, channelVars, sharedVars
  <2> QED  BY <1>5, <2>1, QuietKeeps DEF channelVars, sharedVars, IInv, EndsOK
<1> QED  BY <1>1, <1>2, <1>3, <1>4, <1>5 DEF ChannelNext

\* The inductive invariant holds in every state.
THEOREM Invariant == ChannelSpec => []IInv
<1>1. InitChannel => IInv
  BY InitKeeps
<1>2. IInv /\ [ChannelNext]_channelVars => IInv'
  BY BodyChannelAssumption, NextKeeps
<1> QED  BY <1>1, <1>2, PTL DEF ChannelSpec

-----------------------------------------------------------------------------
\* A body that ends normally has delivered all that was accepted, and no error
\* was sent.
THEOREM CompleteEnd == ChannelSpec => []EndIsComplete
<1>1. IInv => EndIsComplete
  <2> SUFFICES ASSUME IInv, rpc = "ended"  PROVE received = accepted /\ ~errorSent
    BY DEF EndIsComplete
  <2>1. accepted = received \o <<>>
    BY DEF IInv, DeliveryOK
  <2>2. received = accepted
    BY <2>1, ConcatEmptySeq DEF IInv, TypeOK
  <2>3. \A i \in 1..Len(received) : received[i] # Err
    BY DEF IInv, DeliveryOK
  <2>4. errorSent => \E i \in 1..Len(accepted) : accepted[i] = Err
    BY DEF IInv, DeliveryOK
  <2> QED  BY <2>2, <2>3, <2>4
<1> QED  BY <1>1, Invariant, PTL

\* At most one chunk waits in the channel.
THEOREM OneChunkWaits == ChannelSpec => []BackPressure
<1>1. IInv => BackPressure
  BY DEF IInv, RoomOK, BackPressure
<1> QED  BY <1>1, Invariant, PTL

\* send_data fails only if the body is gone.
THEOREM FailureMeansGone == ChannelSpec => FailsOnlyIfGone
<1>1. IInv /\ [ChannelNext]_channelVars
        => [result' = "err" /\ result # "err" => want = "closed"]_channelVars
  <2> SUFFICES ASSUME IInv, ChannelNext, result' = "err", result # "err"
               PROVE  want = "closed"
    BY DEF channelVars
  <2>1. CASE poll_want
    BY <2>1 DEF poll_want, Return
  <2>2. CASE poll_ready
    BY <2>2 DEF poll_ready, Return, IInv, EndsOK
  <2>3. CASE try_send
    BY <2>3 DEF try_send, Return, IInv, EndsOK
  <2>4. CASE SenderCalls
    BY <2>4 DEF SenderCalls, send_data, try_send_data, send_error, abort, send_trailers
  <2>5. CASE ReceiverProceeds \/ CloseWant
    BY <2>5 DEF ReceiverProceeds, poll_data, PendingData, poll_trailers, ResumeReceiver,
                CloseWant, WakeWant, CloseData
  <2>6. CASE Register \/ Resume \/ DropTrailers \/ DropData \/ CancelSend
    BY <2>6 DEF Register, Resume, DropTrailers, DropData, CancelSend, Return
  <2> QED  BY <2>1, <2>2, <2>3, <2>4, <2>5, <2>6 DEF ChannelNext, SenderProceeds
<1> QED  BY <1>1, Invariant, PTL DEF ChannelSpec, FailsOnlyIfGone

-----------------------------------------------------------------------------
(* Wakes.  Whoever sleeps was woken, or has left its waker with everything *)
(* that may end its wait.                                                  *)

\* The sender's waker is in the watch from Register on, until the watch's end
\* calls it; a sender that finds no room leaves it in its handle as well.
SenderWakeOK ==
  /\ pc = "loading" => wantWaker \/ "sender" \in woken
  /\ pc \in {"polling", "asleep"} =>
       (wantWaker /\ rpc \notin {"closing", "dropped"}) \/ "sender" \in woken
  /\ pc = "asleep" => (open /\ SenderParked /\ parkWaker) \/ "sender" \in woken

\* The receiver's waker is with the data, or, when they are over, the trailers.
ReceiverWakeOK ==
  rpc = "asleep" =>
    \/ /\ queue = <<>>
       /\ IF open THEN dataWaker ELSE trailers = "none" /\ trailerWaker
    \/ "receiver" \in woken

\* The watch is closed by the body's end only.
ClosedOK == want = "closed" => rpc \in {"waking", "closing", "dropped"}

WakeOK == SenderWakeOK /\ ReceiverWakeOK /\ ClosedOK

\* Steps of the sender inside send_data.
LEMMA SendingWakes ==
  ASSUME IInv, WakeOK,
         \/ \E c \in Items : send_data(c)
         \/ Register \/ poll_want \/ poll_ready \/ Resume \/ CancelSend
  PROVE  WakeOK'
<1> USE DEF WakeOK, SenderWakeOK, ReceiverWakeOK, ClosedOK, SenderParked
<1>1. CASE \E c \in Items : send_data(c)
  BY <1>1 DEF send_data, sharedVars
<1>2. CASE Register
  BY <1>2 DEF Register
<1>3. CASE poll_want
  BY <1>3 DEF poll_want, Return, sharedVars, IInv, EndsOK
<1>4. CASE poll_ready
  BY <1>4 DEF poll_ready, Return
<1>5. CASE Resume
  BY <1>5 DEF Resume, sharedVars
<1>6. CASE CancelSend
  BY <1>6 DEF CancelSend, Return, sharedVars
<1> QED  BY <1>1, <1>2, <1>3, <1>4, <1>5, <1>6

\* The sender sends something, or goes: the receiver is woken if it waits for it.
LEMMA CallsWake ==
  ASSUME IInv, WakeOK,
         \/ try_send \/ send_trailers \/ DropData \/ DropTrailers
         \/ send_error /\ pc' \in {pc, "aborting"}
         \/ \E c \in Items : try_send_data(c)
  PROVE  WakeOK'
<1> USE DEF WakeOK, SenderWakeOK, ReceiverWakeOK, ClosedOK
<1>1. ASSUME NEW item, NEW handle, Push(item, handle), open' = open, rpc' = rpc, open
      PROVE  ReceiverWakeOK'
  BY <1>1 DEF Push
<1>2. CASE try_send
  BY <1>1, <1>2 DEF try_send, Return
<1>3. CASE send_error /\ pc' \in {pc, "aborting"}
  BY <1>1, <1>3 DEF send_error
<1>4. CASE \E c \in Items : try_send_data(c)
  BY <1>1, <1>4 DEF try_send_data
<1>5. CASE send_trailers
  BY <1>5 DEF send_trailers, IInv, EndsOK
<1>6. CASE DropData
  BY <1>6 DEF DropData, IInv, EndsOK
<1>7. CASE DropTrailers
  BY <1>7 DEF DropTrailers
<1> QED  BY <1>2, <1>3, <1>4, <1>5, <1>6, <1>7

\* The receiver takes something, waits, or goes: the sender is woken if it waits
\* for it.
LEMMA PollsWake ==
  ASSUME IInv, WakeOK, ReceiverProceeds \/ CloseWant
  PROVE  WakeOK'
<1> USE DEF WakeOK, SenderWakeOK, ReceiverWakeOK, ClosedOK
<1>1. CASE poll_data
  <2>1. ASSUME SenderParked, Head(parked) # "sender"  PROVE SenderParked'
    <3>1. parked \in Seq({"sender", "clone"}) /\ parked' = Tail(parked)
      BY <1>1 DEF IInv, TypeOK, poll_data
    <3>2. PICK i \in 1..Len(parked) : parked[i] = "sender"
      BY <2>1 DEF SenderParked
    <3>3. parked # <<>> /\ Len(parked) \in Nat
      BY <3>1, <3>2, EmptySeq, LenProperties
    <3>4. /\ Len(parked') = Len(parked) - 1
          /\ \A k \in 1..Len(parked') : parked'[k] = parked[k + 1]
      BY <3>1, <3>3, HeadTailProperties
    <3>5. i # 1
      BY <2>1, <3>1, <3>2, <3>3
    <3>6. i - 1 \in 1..Len(parked') /\ (i - 1) + 1 = i
      BY <3>2, <3>3, <3>4, <3>5, SMT
    <3> QED  BY <3>2, <3>4, <3>6 DEF SenderParked
  <2>2. CASE Head(parked) = "sender"
    BY <1>1, <2>2 DEF poll_data, Unpark
  <2>3. CASE Head(parked) # "sender"
    BY <1>1, <2>1, <2>3 DEF poll_data, Unpark
  <2> QED  BY <2>2, <2>3
<1>2. CASE PendingData
  BY <1>2 DEF PendingData, Sleep, SenderParked
<1>3. CASE poll_trailers
  BY <1>3 DEF poll_trailers, Sleep, SenderParked
<1>4. CASE ResumeReceiver
  BY <1>4 DEF ResumeReceiver, sharedVars, SenderParked
<1>5. CASE CloseWant
  BY <1>5 DEF CloseWant, SenderParked
<1>6. CASE WakeWant
  BY <1>6 DEF WakeWant, SenderParked
<1>7. CASE CloseData
  BY <1>7 DEF CloseData, Unpark
<1> QED  BY <1>1, <1>2, <1>3, <1>4, <1>5, <1>6, <1>7 DEF ReceiverProceeds

\* Both invariants hold in every state, whatever is called, sent and dropped.
THEOREM WakeInvariant == ChannelSpec => [](IInv /\ WakeOK)
<1>1. InitChannel => WakeOK
  BY DEF InitChannel, WakeOK, SenderWakeOK, ReceiverWakeOK, ClosedOK
<1>2. ASSUME IInv, WakeOK, [ChannelNext]_channelVars  PROVE WakeOK'
  <2>1. CASE SenderCalls
    BY <1>2, <2>1, SendingWakes, CallsWake DEF SenderCalls, abort
  <2>2. CASE CancelSend \/ DropData \/ SenderProceeds
    BY <1>2, <2>2, SendingWakes, CallsWake DEF SenderProceeds
  <2>3. CASE ReceiverProceeds \/ CloseWant
    BY <1>2, <2>3, PollsWake
  <2>4. CASE UNCHANGED channelVars
    BY <1>2, <2>4 DEF channelVars, sharedVars, WakeOK, SenderWakeOK, ReceiverWakeOK, ClosedOK,
                       SenderParked
  <2> QED  BY <1>2, <2>1, <2>2, <2>3, <2>4 DEF ChannelNext
<1> QED  BY <1>1, <1>2, Invariant, PTL DEF ChannelSpec

\* No wake is lost between the two threads (watch.rs:47-65, sender.rs:41-69,
\* channel.rs:81-92).
THEOREM WakesArrive == ChannelSpec => []NoWakeLost
<1>1. IInv /\ WakeOK => NoWakeLost
  BY DEF IInv, TypeOK, WakeOK, SenderWakeOK, ReceiverWakeOK, ClosedOK, NoWakeLost
<1> QED  BY <1>1, WakeInvariant, PTL

\* The two ends never wait for each other.
NoMutualWait == pc = "asleep" /\ rpc = "asleep" => woken # {}

\* A sender waits for room only when something is in the channel, and a receiver
\* only when nothing is.
THEOREM EndsNeverWaitForEachOther == ChannelSpec => []NoMutualWait
<1>1. IInv /\ NoWakeLost => NoMutualWait
  <2> SUFFICES ASSUME IInv, NoWakeLost, pc = "asleep", rpc = "asleep", woken = {}
               PROVE  FALSE
    BY DEF NoMutualWait
  <2>1. SenderParked /\ queue = <<>>
    BY DEF NoWakeLost
  <2>2. Len(parked) = 0
    BY <2>1, EmptySeq DEF IInv, RoomOK
  <2> QED  BY <2>1, <2>2, SMT DEF SenderParked
<1> QED  BY <1>1, Invariant, WakesArrive, PTL
-----------------------------------------------------------------------------
(* The task of a streaming response.                                       *)

\* The items of the user's stream.
StreamItems == Chunks \cup {StreamError}

TaskTypeOK ==
  /\ stage \in {"start", "prelude", "delimiter", "item", "returned"}
  /\ yielded \in Seq(StreamItems)
  /\ panicked \in BOOLEAN
  /\ late \in Nat

\* The number of pieces of the framed stream that the task has begun to send.
Begun ==
  IF stage = "start" THEN 0
  ELSE IF stage = "prelude" THEN 1
  ELSE 2 + Len(yielded)

\* send_data has not returned.
Sending == pc \in {"registering", "loading", "polling", "asleep", "sending"}

\* What was accepted are the first pieces, all that were begun but the one at hand.
FramingOK ==
  /\ Len(accepted) <= Len(Framed)
  /\ \A i \in 1..Len(accepted) : accepted[i] = Framed[i]
  /\ stage \in {"start", "prelude", "delimiter"} => yielded = <<>>
  /\ stage = "start" => pc = "idle" /\ Len(accepted) = 0
  /\ stage \in {"prelude", "delimiter", "item"} =>
       \/ /\ Sending
          /\ Len(accepted) = Begun - 1 /\ chunk = Framed[Begun]
       \/ pc = "idle" /\ result = "ok" /\ Len(accepted) = Begun
       \/ pc = "idle" /\ result = "err" /\ want = "closed"

\* The task returns when the stream has ended or panicked, or the body is gone;
\* it drops the sender then, and not before.
ReturnOK ==
  /\ stage = "returned" =>
       /\ pc \in {"idle", "dropping", "dropped"}
       /\ panicked \/ want = "closed" \/ Len(accepted) = 2 + Len(yielded)
  /\ pc \in {"dropping", "dropped"} => stage = "returned"
  /\ want = "closed" => rpc \in {"waking", "closing", "dropped"}

\* An item that is taken when the body is gone is not sent, and the last one.
LateOK ==
  \/ late = 0
  \/ /\ late = 1
     /\ want = "closed"
     /\ \/ stage = "returned"
        \/ stage = "item" /\ pc \in {"registering", "loading"}
        \/ stage = "item" /\ pc = "idle" /\ result = "err"

\* What was received is the beginning of what was accepted.
ReceivedOK ==
  /\ Len(received) <= Len(accepted)
  /\ \A i \in 1..Len(received) : received[i] = accepted[i]

StreamInv == TaskTypeOK /\ FramingOK /\ ReturnOK /\ LateOK /\ ReceivedOK

-----------------------------------------------------------------------------
\* The framing of a stream's items ...
FramingOf(items) == <<Prelude, Delimiter>> \o [i \in DOMAIN items |-> Rendered(items[i])]

\* ... and its pieces.
LEMMA FramedPieces ==
  ASSUME ResponseStreamAssumption, NEW items \in Seq(StreamItems)
  PROVE  /\ FramingOf(items) \in Seq(Items)
         /\ Len(FramingOf(items)) = 2 + Len(items)
         /\ FramingOf(items)[1] = Prelude /\ FramingOf(items)[2] = Delimiter
         /\ \A i \in 1..Len(items) : FramingOf(items)[i + 2] = Rendered(items[i])
<1> DEFINE rendered == [i \in DOMAIN items |-> Rendered(items[i])]
<1>1. Len(items) \in Nat /\ DOMAIN items = 1..Len(items)
      /\ \A i \in 1..Len(items) : items[i] \in StreamItems
  BY LenProperties
<1>2. \A item \in StreamItems : Rendered(item) \in Items
  BY DEF Rendered, StreamItems, Chunks, ResponseStreamAssumption
<1>3. rendered \in [1..Len(items) -> Items]
  BY <1>1, <1>2
<1>4. rendered \in Seq(Items)
  BY <1>1, <1>3, SeqDef
<1>5. Len(rendered) = Len(items)
  <2>1. Len(rendered) \in Nat /\ 1..Len(rendered) = 1..Len(items)
    BY <1>1, <1>3, <1>4, LenProperties
  <2>2. ASSUME NEW a \in Nat, NEW b \in Nat, 1..a = 1..b  PROVE a = b
    <3>1. a >= 1 => a \in 1..b
      BY <2>2, SMT
    <3>2. b >= 1 => b \in 1..a
      BY <2>2, SMT
    <3> QED  BY <3>1, <3>2, SMT
  <2> QED  BY <1>1, <2>1, <2>2
<1>6. \A i \in 1..Len(items) : rendered[i] = Rendered(items[i])
  BY <1>1
<1> HIDE DEF rendered
<1> DEFINE head == <<Prelude, Delimiter>>
<1>7. head \in Seq(Items) /\ Len(head) = 2 /\ head[1] = Prelude /\ head[2] = Delimiter
  BY SMT DEF ResponseStreamAssumption
<1> HIDE DEF head
<1>8. /\ head \o rendered \in Seq(Items)
      /\ Len(head \o rendered) = 2 + Len(items)
      /\ \A i \in 1..(2 + Len(items)) :
           (head \o rendered)[i] = IF i <= 2 THEN head[i] ELSE rendered[i - 2]
  <2>1. /\ head \o rendered \in Seq(Items)
        /\ Len(head \o rendered) = Len(head) + Len(rendered)
        /\ \A i \in 1..Len(head) + Len(rendered) :
             (head \o rendered)[i] = IF i <= Len(head) THEN head[i] ELSE rendered[i - Len(head)]
    BY <1>4, <1>7, ConcatProperties
  <2> QED  BY <1>5, <1>7, <2>1
<1>9. FramingOf(items) = head \o rendered
  BY DEF FramingOf, head, rendered
<1>10. 1 \in 1..(2 + Len(items)) /\ 2 \in 1..(2 + Len(items)) /\ 1 <= 2 /\ 2 <= 2
  BY <1>1, SMT
<1>11. ASSUME NEW i \in 1..Len(items)
       PROVE  i + 2 \in 1..(2 + Len(items)) /\ ~ (i + 2 <= 2) /\ (i + 2) - 2 = i
  BY <1>1, SMT
<1>12. FramingOf(items)[1] = Prelude /\ FramingOf(items)[2] = Delimiter
  BY <1>7, <1>8, <1>9, <1>10
<1>13. ASSUME NEW i \in 1..Len(items)  PROVE FramingOf(items)[i + 2] = Rendered(items[i])
  <2>1. (head \o rendered)[i + 2] = rendered[(i + 2) - 2]
    BY <1>8, <1>11
  <2> QED  BY <1>6, <1>9, <1>11, <2>1
<1> QED  BY <1>8, <1>9, <1>12, <1>13

\* An item that is yielded is rendered at the end of the framed stream.
LEMMA FramedGrows ==
  ASSUME ResponseStreamAssumption, yielded \in Seq(StreamItems),
         NEW item \in StreamItems, yielded' = Append(yielded, item)
  PROVE  /\ yielded' \in Seq(StreamItems) /\ Len(yielded') = Len(yielded) + 1
         /\ Len(Framed') = Len(Framed) + 1
         /\ \A i \in 1..Len(Framed) : Framed'[i] = Framed[i]
         /\ Framed'[Len(Framed) + 1] = Rendered(item)
<1>1. /\ yielded' \in Seq(StreamItems) /\ Len(yielded') = Len(yielded) + 1
      /\ yielded'[Len(yielded) + 1] = item
      /\ \A i \in 1..Len(yielded) : yielded'[i] = yielded[i]
      /\ Len(yielded) \in Nat
  BY AppendProperties, LenProperties
<1>2. /\ Len(Framed) = 2 + Len(yielded)
      /\ Framed[1] = Prelude /\ Framed[2] = Delimiter
      /\ \A i \in 1..Len(yielded) : Framed[i + 2] = Rendered(yielded[i])
  BY FramedPieces DEF Framed, FramingOf
<1>3. /\ Len(Framed') = 2 + Len(yielded')
      /\ Framed'[1] = Prelude /\ Framed'[2] = Delimiter
      /\ \A i \in 1..Len(yielded') : Framed'[i + 2] = Rendered(yielded'[i])
  BY <1>1, FramedPieces DEF Framed, FramingOf
<1>4. ASSUME NEW i \in 1..Len(Framed)  PROVE Framed'[i] = Framed[i]
  <2>1. CASE i = 1 \/ i = 2
    BY <2>1, <1>2, <1>3
  <2>2. CASE ~ (i = 1 \/ i = 2)
    <3>1. i - 2 \in 1..Len(yielded) /\ i - 2 \in 1..Len(yielded') /\ (i - 2) + 2 = i
      BY <1>1, <1>2, <2>2, SMT
    <3> QED  BY <1>1, <1>2, <1>3, <3>1
  <2> QED  BY <2>1, <2>2
<1>5. Framed'[Len(Framed) + 1] = Rendered(item)
  <2>1. Len(yielded) + 1 \in 1..Len(yielded') /\ (Len(yielded) + 1) + 2 = Len(Framed) + 1
    BY <1>1, <1>2, SMT
  <2> QED  BY <1>1, <1>3, <2>1
<1>6. Len(Framed') = Len(Framed) + 1
  BY <1>1, <1>2, <1>3, SMT
<1> QED  BY <1>1, <1>4, <1>5, <1>6

\* While nothing is yielded the framed stream stays as it is.
LEMMA FramedStays ==
  ASSUME yielded' = yielded
  PROVE  Framed' = Framed
BY DEF Framed

\* The task begins to send the next piece.
LEMMA PieceBegins ==
  ASSUME ResponseStreamAssumption, StreamInv,
         SendPrelude \/ SendDelimiter
           \/ \E item \in Chunks \cup {StreamError} : StreamYields(item)
  PROVE  StreamInv'
<1>1. /\ pc = "idle" /\ pc' = "registering"
      /\ accepted' = accepted /\ received' = received /\ want' = want /\ rpc' = rpc
      /\ panicked' = panicked
  BY DEF SendPrelude, SendDelimiter, StreamYields, Taken, send_data, sharedVars
<1>2. yielded \in Seq(StreamItems) /\ Len(yielded) \in Nat /\ late \in Nat
  BY LenProperties DEF StreamInv, TaskTypeOK
<1>3. Len(Framed) = 2 + Len(yielded) /\ Framed[1] = Prelude /\ Framed[2] = Delimiter
  BY <1>2, FramedPieces DEF Framed, FramingOf
<1>4. ReceivedOK'
  BY <1>1 DEF StreamInv, ReceivedOK
<1>5. ~Sending /\ Sending'
  BY <1>1 DEF Sending
<1>6. CASE SendPrelude
  <2>1. stage = "start" /\ stage' = "prelude" /\ yielded' = yielded /\ late' = late
        /\ chunk' = Prelude
    BY <1>6 DEF SendPrelude, send_data
  <2>2. Framed' = Framed
    BY <2>1, FramedStays
  <2>3. yielded = <<>> /\ Len(accepted) = 0 /\ late = 0
    BY <2>1 DEF StreamInv, FramingOK, LateOK
  <2>4. Begun' = 1
    BY <2>1 DEF Begun
  <2>5. FramingOK'
    BY <1>1, <1>3, <1>5, <2>1, <2>2, <2>3, <2>4, SMT DEF StreamInv, FramingOK
  <2>6. ReturnOK' /\ LateOK' /\ TaskTypeOK'
    BY <1>1, <2>1, <2>3 DEF StreamInv, ReturnOK, LateOK, TaskTypeOK
  <2> QED  BY <1>4, <2>5, <2>6 DEF StreamInv
<1>7. CASE SendDelimiter
  <2>1. stage = "prelude" /\ stage' = "delimiter" /\ yielded' = yielded /\ late' = late
        /\ chunk' = Delimiter /\ result = "ok"
    BY <1>7 DEF SendDelimiter, send_data
  <2>2. Framed' = Framed
    BY <2>1, FramedStays
  <2>3. yielded = <<>> /\ Len(accepted) = 1 /\ late = 0
    BY <1>1, <1>5, <2>1 DEF StreamInv, FramingOK, LateOK, Begun
  <2>4. Len(yielded) = 0
    BY <2>3, EmptySeq
  <2>5. Begun' = 2
    BY <2>1, <2>4 DEF Begun
  <2>6. FramingOK'
    BY <1>1, <1>3, <1>5, <2>1, <2>2, <2>3, <2>5, SMT DEF StreamInv, FramingOK
  <2>7. ReturnOK' /\ LateOK' /\ TaskTypeOK'
    BY <1>1, <2>1, <2>3 DEF StreamInv, ReturnOK, LateOK, TaskTypeOK
  <2> QED  BY <1>4, <2>6, <2>7 DEF StreamInv
<1>8. ASSUME NEW item \in StreamItems, StreamYields(item)  PROVE StreamInv'
  <2>1. /\ stage \in {"delimiter", "item"} /\ stage' = "item" /\ result = "ok"
        /\ yielded' = Append(yielded, item) /\ chunk' = Rendered(item)
        /\ late' = IF want = "closed" THEN late + 1 ELSE late
    BY <1>8 DEF StreamYields, AwaitsStream, Taken, send_data
  <2>2. /\ yielded' \in Seq(StreamItems) /\ Len(yielded') = Len(yielded) + 1
        /\ Len(Framed') = Len(Framed) + 1
        /\ \A i \in 1..Len(Framed) : Framed'[i] = Framed[i]
        /\ Framed'[Len(Framed) + 1] = Rendered(item)
    BY <1>2, <2>1, FramedGrows
  <2>3. Len(accepted) = Len(Framed) /\ late = 0
    BY <1>1, <1>3, <1>5, <2>1 DEF StreamInv, FramingOK, LateOK, Begun
  <2>4. Begun' = Len(Framed) + 1
    BY <1>2, <1>3, <2>1, <2>2, SMT DEF Begun
  <2>5. \A i \in 1..Len(accepted) : accepted'[i] = Framed'[i]
    BY <1>1, <2>2, <2>3 DEF StreamInv, FramingOK
  <2>6. Len(accepted') <= Len(Framed') /\ Len(accepted') = Begun' - 1
    BY <1>1, <1>2, <1>3, <2>2, <2>3, <2>4, SMT
  <2>7. FramingOK'
    BY <1>1, <1>5, <2>1, <2>2, <2>4, <2>5, <2>6 DEF FramingOK
  <2>8. ReturnOK' /\ TaskTypeOK'
    BY <1>1, <1>2, <2>1, <2>2 DEF StreamInv, ReturnOK, TaskTypeOK
  <2>9. LateOK'
    BY <1>1, <2>1, <2>3 DEF LateOK
  <2> QED  BY <1>4, <2>7, <2>8, <2>9 DEF StreamInv
<1> QED  BY <1>6, <1>7, <1>8 DEF StreamItems

\* The task returns, drops the sender, or drops the sender's trailers.
LEMMA TaskReturns ==
  ASSUME StreamInv,
         SendFailed \/ StreamEnds \/ StreamPanics \/ SenderDropped
           \/ (DropTrailers /\ UNCHANGED taskVars)
  PROVE  StreamInv'
<1>1. /\ accepted' = accepted /\ received' = received /\ want' = want /\ rpc' = rpc
      /\ yielded' = yielded /\ late' = late /\ stage' = "returned"
      /\ panicked' \in BOOLEAN
  BY DEF SendFailed, StreamEnds, StreamPanics, SenderDropped, DropTrailers, DropData,
         taskVars, channelVars, sharedVars, AwaitsStream, StreamInv, TaskTypeOK, ReturnOK
<1>2. Framed' = Framed
  BY <1>1, FramedStays
<1>3. FramingOK' /\ TaskTypeOK' /\ ReceivedOK'
  BY <1>1, <1>2 DEF StreamInv, FramingOK, TaskTypeOK, ReceivedOK
<1>4. pc' \in {"idle", "dropping", "dropped"}
  BY DEF SendFailed, StreamEnds, StreamPanics, SenderDropped, DropTrailers, DropData,
         taskVars, channelVars, AwaitsStream
<1>5. LateOK'
  BY <1>1 DEF StreamInv, LateOK
<1>6. panicked' \/ want = "closed" \/ Len(accepted) = 2 + Len(yielded)
  <2>1. CASE SendFailed
    BY <2>1 DEF SendFailed, StreamInv, FramingOK, Sending
  <2>2. CASE StreamEnds
    BY <2>2 DEF StreamEnds, AwaitsStream, StreamInv, FramingOK, Sending, Begun
  <2>3. CASE StreamPanics
    BY <2>3 DEF StreamPanics
  <2>4. CASE SenderDropped \/ (DropTrailers /\ UNCHANGED taskVars)
    BY <2>4, <1>1 DEF SenderDropped, taskVars, StreamInv, ReturnOK
  <2> QED  BY <2>1, <2>2, <2>3, <2>4
<1>7. ReturnOK'
  BY <1>1, <1>4, <1>6 DEF StreamInv, ReturnOK
<1> QED  BY <1>3, <1>5, <1>7 DEF StreamInv

\* send_data goes on, gives up, or puts the chunk on the channel.
LEMMA SendProceeds ==
  ASSUME ResponseStreamAssumption, IInv, StreamInv, UNCHANGED taskVars,
         Register \/ poll_want \/ poll_ready \/ Resume \/ try_send
  PROVE  StreamInv'
<1>1. /\ yielded' = yielded /\ late' = late /\ stage' = stage /\ panicked' = panicked
      /\ received' = received /\ want' = want /\ rpc' = rpc
  BY DEF Register, poll_want, poll_ready, Resume, try_send, taskVars, sharedVars
<1>2. Sending
  BY DEF Register, poll_want, poll_ready, Resume, try_send, Sending
<1>3. Framed' = Framed /\ Begun' = Begun
  BY <1>1, FramedStays DEF Begun
<1>4. /\ yielded \in Seq(StreamItems) /\ Len(yielded) \in Nat
      /\ accepted \in Seq(Items \cup {Err}) /\ Len(accepted) \in Nat
      /\ Len(received) \in Nat
  BY LenProperties DEF StreamInv, TaskTypeOK, IInv, TypeOK
<1>5. stage \in {"prelude", "delimiter", "item"}
  BY <1>2 DEF StreamInv, TaskTypeOK, FramingOK, ReturnOK, Sending
<1>6. /\ Len(accepted) = Begun - 1 /\ chunk = Framed[Begun]
      /\ Len(accepted) <= Len(Framed)
      /\ \A i \in 1..Len(accepted) : accepted[i] = Framed[i]
  BY <1>2, <1>5 DEF StreamInv, FramingOK, Sending
<1>7. Len(Framed) = 2 + Len(yielded)
  BY <1>4, FramedPieces DEF Framed, FramingOf
<1>8. Begun \in Nat /\ Begun <= Len(Framed)
  <2>1. stage \in {"delimiter", "item"} => Begun = 2 + Len(yielded)
    BY DEF Begun
  <2>2. stage = "prelude" => Begun = 1
    BY DEF Begun
  <2> QED  BY <1>4, <1>5, <1>7, <2>1, <2>2, SMT
<1>9. /\ stage \in {"prelude", "delimiter"} => yielded = <<>>
      /\ stage # "start" /\ stage # "returned"
  BY <1>5 DEF StreamInv, FramingOK
<1>10. TaskTypeOK'
  BY <1>1 DEF StreamInv, TaskTypeOK
<1>11. pc' \in {"idle", "loading", "polling", "asleep", "sending", "registering"}
  BY DEF Register, poll_want, poll_ready, Resume, try_send, Return
<1>12. ReturnOK'
  BY <1>1, <1>9, <1>11 DEF StreamInv, ReturnOK
<1>13. CASE accepted' = accepted /\ chunk' = chunk /\ Sending'
  <2>1. FramingOK'
    BY <1>1, <1>3, <1>6, <1>9, <1>13 DEF FramingOK
  <2>2. late = 0 \/ pc = "registering" \/ pc = "loading"
    BY <1>2, <1>5 DEF StreamInv, LateOK, Sending
  <2>3. late = 0 \/ pc' = "registering" \/ pc' = "loading"
    <3>1. CASE Register \/ Resume
      BY <3>1 DEF Register, Resume
    <3>2. CASE poll_want
      BY <1>13, <3>2 DEF poll_want, Return, StreamInv, LateOK, Sending
    <3>3. CASE poll_ready \/ try_send
      BY <2>2, <3>3 DEF poll_ready, try_send
    <3> QED  BY <3>1, <3>2, <3>3
  <2>4. LateOK'
    BY <1>1, <1>2, <1>5, <2>3 DEF StreamInv, LateOK, Sending
  <2>5. ReceivedOK'
    BY <1>1, <1>13 DEF StreamInv, ReceivedOK
  <2> QED  BY <1>10, <1>12, <2>1, <2>4, <2>5 DEF StreamInv
<1>14. CASE accepted' = accepted /\ pc' = "idle" /\ result' = "err" /\ want = "closed"
  <2>1. FramingOK'
    BY <1>1, <1>3, <1>6, <1>9, <1>14 DEF FramingOK
  <2>2. LateOK'
    BY <1>1, <1>2, <1>5, <1>14 DEF StreamInv, LateOK, Sending
  <2>3. ReceivedOK'
    BY <1>1, <1>14 DEF StreamInv, ReceivedOK
  <2> QED  BY <1>10, <1>12, <2>1, <2>2, <2>3 DEF StreamInv
<1>15. CASE accepted' = Append(accepted, chunk) /\ pc' = "idle" /\ result' = "ok"
            /\ pc = "sending"
  <2>1. chunk \in Items \cup {Err}
    BY DEF IInv, TypeOK, NoChunk
  <2>2. /\ Len(accepted') = Len(accepted) + 1
        /\ accepted'[Len(accepted) + 1] = chunk
        /\ \A i \in 1..Len(accepted) : accepted'[i] = accepted[i]
    BY <1>4, <1>15, <2>1, AppendProperties
  <2>3. Len(accepted') = Begun /\ Len(accepted') <= Len(Framed)
    BY <1>4, <1>6, <1>8, <2>2, SMT
  <2>4. \A i \in 1..Len(accepted') : i \in 1..Len(accepted) \/ i = Len(accepted) + 1
    BY <1>4, <2>2, SMT
  <2>5. \A i \in 1..Len(accepted') : accepted'[i] = Framed[i]
    BY <1>6, <2>2, <2>3, <2>4
  <2>6. FramingOK'
    BY <1>1, <1>3, <1>9, <1>15, <2>3, <2>5 DEF FramingOK
  <2>7. LateOK'
    BY <1>1, <1>9, <1>15 DEF StreamInv, LateOK
  <2>8. \A i \in 1..Len(received) : i \in 1..Len(accepted)
    BY <1>4, SMT DEF StreamInv, ReceivedOK
  <2>9. ReceivedOK'
    <3>1. Len(received) <= Len(accepted')
      BY <1>4, <2>2, SMT DEF StreamInv, ReceivedOK
    <3>2. \A i \in 1..Len(received) : received[i] = accepted'[i]
      BY <2>2, <2>8 DEF StreamInv, ReceivedOK
    <3> QED  BY <1>1, <3>1, <3>2 DEF ReceivedOK
  <2> QED  BY <1>10, <1>12, <2>6, <2>7, <2>9 DEF StreamInv
<1>16. CASE Register \/ Resume
  BY <1>13, <1>16 DEF Register, Resume, Sending
<1>17. CASE poll_want
  BY <1>13, <1>14, <1>17 DEF poll_want, Return, Sending
<1>18. CASE poll_ready
  BY <1>13, <1>14, <1>18 DEF poll_ready, Return, Sending, IInv, EndsOK
<1>19. CASE try_send
  BY <1>14, <1>15, <1>19 DEF try_send, Return, Push, IInv, EndsOK
<1> QED  BY <1>16, <1>17, <1>18, <1>19

\* The body is read or dropped.
LEMMA BodyProceeds ==
  ASSUME BodyChannelAssumption, IInv, StreamInv, UNCHANGED taskVars,
         ReceiverProceeds \/ CloseWant
  PROVE  StreamInv'
<1>1. /\ yielded' = yielded /\ late' = late /\ stage' = stage /\ panicked' = panicked
      /\ pc' = pc /\ chunk' = chunk /\ result' = result /\ accepted' = accepted
  BY DEF ReceiverProceeds, poll_data, PendingData, poll_trailers, ResumeReceiver, CloseWant,
         WakeWant, CloseData, sharedVars, taskVars
<1>2. want = "closed" => want' = "closed"
  BY DEF ReceiverProceeds, poll_data, PendingData, poll_trailers, ResumeReceiver, CloseWant,
         WakeWant, CloseData, sharedVars
<1>3. want' = "closed" => rpc' \in {"waking", "closing", "dropped"}
  BY DEF StreamInv, ReturnOK, ReceiverProceeds, poll_data, PendingData, poll_trailers,
         ResumeReceiver, CloseWant, WakeWant, CloseData, sharedVars
<1>4. Framed' = Framed /\ Begun' = Begun /\ Sending' = Sending
  BY <1>1, FramedStays DEF Begun, Sending
<1>5. FramingOK' /\ TaskTypeOK' /\ ReturnOK' /\ LateOK'
  BY <1>1, <1>2, <1>3, <1>4 DEF StreamInv, FramingOK, TaskTypeOK, ReturnOK, LateOK
<1>6. CASE received' = received
  BY <1>1, <1>5, <1>6 DEF StreamInv, ReceivedOK
<1>7. CASE poll_data
  <2>1. IInv'
    BY <1>7, TakeKeeps
  <2>2. accepted' = received' \o queue'
    BY <1>7, <2>1 DEF IInv, DeliveryOK, poll_data
  <2>3. /\ received' \in Seq(Items \cup {Err}) /\ queue' \in Seq(Items \cup {Err})
        /\ Len(received') \in Nat /\ Len(queue') \in Nat
    BY <2>1, LenProperties DEF IInv, TypeOK
  <2>4. /\ Len(accepted') = Len(received') + Len(queue')
        /\ \A i \in 1..Len(received') + Len(queue') :
             accepted'[i] = IF i <= Len(received') THEN received'[i]
                                                   ELSE queue'[i - Len(received')]
    BY <2>2, <2>3, ConcatProperties
  <2>5. \A i \in 1..Len(received') :
          i \in 1..Len(received') + Len(queue') /\ i <= Len(received')
    BY <2>3, SMT
  <2>6. Len(received') <= Len(accepted')
    BY <2>3, <2>4, SMT
  <2>7. ReceivedOK'
    BY <2>4, <2>5, <2>6 DEF ReceivedOK
  <2> QED  BY <1>5, <2>7 DEF StreamInv
<1>8. CASE PendingData \/ poll_trailers \/ ResumeReceiver \/ CloseWant \/ WakeWant \/ CloseData
  BY <1>6, <1>8 DEF PendingData, poll_trailers, ResumeReceiver, CloseWant, WakeWant, CloseData
<1> QED  BY <1>7, <1>8 DEF ReceiverProceeds

-----------------------------------------------------------------------------
(* The theorems about the task.                                            *)

\* The calls of the task are calls of the channel.
LEMMA TaskIsCaller ==
  ASSUME ResponseStreamAssumption, [Next \/ Finished]_vars
  PROVE  [ChannelNext]_channelVars
<1>1. CASE SendPrelude \/ SendDelimiter
  BY <1>1 DEF SendPrelude, SendDelimiter, ResponseStreamAssumption, ChannelNext, SenderCalls
<1>2. ASSUME NEW item \in Chunks \cup {StreamError}, StreamYields(item)
      PROVE  ChannelNext
  <2>1. Rendered(item) \in Items
    BY DEF Rendered, Chunks, ResponseStreamAssumption
  <2> QED  BY <1>2, <2>1 DEF StreamYields, ChannelNext, SenderCalls
<1>3. CASE SendFailed \/ StreamEnds \/ StreamPanics
  BY <1>3 DEF SendFailed, StreamEnds, StreamPanics
<1>4. CASE SenderDropped \/ SenderProceeds \/ ReceiverProceeds \/ CloseWant
  BY <1>4 DEF SenderDropped, ChannelNext
<1>5. CASE Finished \/ UNCHANGED vars
  BY <1>5 DEF Finished, vars
<1> QED  BY <1>1, <1>2, <1>3, <1>4, <1>5 DEF Next, Task

\* Every step of the composition keeps the invariant.
LEMMA StreamNextKeeps ==
  ASSUME BodyChannelAssumption, ResponseStreamAssumption, IInv, StreamInv,
         [Next \/ Finished]_vars
  PROVE  StreamInv'
<1>1. CASE Task
  BY <1>1, PieceBegins, TaskReturns DEF Task
<1>2. CASE SenderProceeds /\ UNCHANGED taskVars
  <2>1. CASE pc = "aborting" /\ DropData
    BY <2>1 DEF StreamInv, TaskTypeOK, FramingOK, ReturnOK, Sending
  <2> QED  BY <1>2, <2>1, SendProceeds, TaskReturns DEF SenderProceeds
<1>3. CASE (ReceiverProceeds \/ CloseWant) /\ UNCHANGED taskVars
  BY <1>3, BodyProceeds
<1>4. CASE UNCHANGED vars
  <2>1. UNCHANGED <<stage, yielded, panicked, late, pc, chunk, result, want, rpc,
                    accepted, received>>
    BY <1>4 DEF vars, channelVars, sharedVars, taskVars
  <2>2. Framed' = Framed /\ Begun' = Begun /\ Sending' = Sending
    BY <2>1, FramedStays DEF Begun, Sending
  <2> QED
    BY <2>1, <2>2 DEF StreamInv, TaskTypeOK, FramingOK, ReturnOK, LateOK, ReceivedOK
<1> QED  BY <1>1, <1>2, <1>3, <1>4 DEF Next, Finished

\* The response task uses the body like any other owner of a Sender: what is
\* proved of the channel holds of it (requests.rs:158-210).
THEOREM TaskUsesChannel == Safety => ChannelSpec
<1>1. Init => InitChannel
  BY DEF Init
<1>2. [Next \/ Finished]_vars => [ChannelNext]_channelVars
  BY TaskIsCaller, ResponseStreamAssumption
<1> QED  BY <1>1, <1>2, PTL DEF Safety, ChannelSpec

\* Both inductive invariants hold in every state.
THEOREM StreamInvariant == Safety => [](IInv /\ StreamInv)
<1>1. Init => IInv /\ StreamInv
  <2> SUFFICES ASSUME Init  PROVE IInv /\ StreamInv
    OBVIOUS
  <2>1. IInv
    BY InitKeeps DEF Init
  <2>2. /\ stage = "start" /\ yielded = <<>> /\ panicked = FALSE /\ late = 0
        /\ pc = "idle" /\ want = "ready" /\ accepted = <<>> /\ received = <<>>
    BY DEF Init, InitChannel
  <2>3. yielded \in Seq(StreamItems) /\ Len(accepted) = 0 /\ Len(received) = 0
    BY <2>2, EmptySeq
  <2>4. Len(Framed) = 2 + Len(yielded) /\ Len(yielded) = 0
    BY <2>2, <2>3, ResponseStreamAssumption, FramedPieces, EmptySeq DEF Framed, FramingOf
  <2>5. TaskTypeOK /\ ReturnOK /\ LateOK
    BY <2>2, <2>3 DEF TaskTypeOK, ReturnOK, LateOK
  <2>6. FramingOK /\ ReceivedOK
    BY <2>2, <2>3, <2>4, SMT DEF FramingOK, ReceivedOK
  <2> QED  BY <2>1, <2>5, <2>6 DEF StreamInv
<1>2. IInv /\ StreamInv /\ [Next \/ Finished]_vars => (IInv /\ StreamInv)'
  BY BodyChannelAssumption, ResponseStreamAssumption, TaskIsCaller, NextKeeps,
     StreamNextKeeps
<1> QED  BY <1>1, <1>2, PTL DEF Safety

\* Up to the first error of the user's stream the connection reads the framed stream
\* in order, and all of it before the body ends normally, if the stream did not panic.
THEOREM StreamArrives == Safety => []WholeStream
<1>1. IInv /\ StreamInv => WholeStream
  <2> SUFFICES ASSUME IInv, StreamInv  PROVE WholeStream
    OBVIOUS
  <2>1. /\ yielded \in Seq(StreamItems) /\ Len(yielded) \in Nat
        /\ received \in Seq(Items \cup {Err}) /\ Len(received) \in Nat
        /\ accepted \in Seq(Items \cup {Err}) /\ Len(accepted) \in Nat
    BY LenProperties DEF IInv, TypeOK, StreamInv, TaskTypeOK
  <2>2. /\ Framed \in Seq(Items) /\ Len(Framed) = 2 + Len(yielded)
        /\ DOMAIN Framed = 1..Len(Framed)
    BY <2>1, ResponseStreamAssumption, FramedPieces, LenProperties DEF Framed, FramingOf
  <2>3. Len(received) <= Len(Framed)
    BY <2>1, <2>2, SMT DEF StreamInv, FramingOK, ReceivedOK
  <2>4. \A i \in 1..Len(received) : received[i] = Framed[i]
    <3>1. \A i \in 1..Len(received) : i \in 1..Len(accepted)
      BY <2>1, SMT DEF StreamInv, ReceivedOK
    <3> QED  BY <3>1 DEF StreamInv, FramingOK, ReceivedOK
  <2>5. ASSUME NEW i \in Sound, i <= Len(received)  PROVE received[i] = Framed[i]
    BY <2>1, <2>2, <2>4, <2>5 DEF Sound
  <2>6. ASSUME NEW i \in Sound, rpc = "ended", ~panicked  PROVE i <= Len(received)
    <3>1. accepted = received \o <<>>
      BY <2>6 DEF IInv, DeliveryOK
    <3>2. accepted = received
      BY <2>1, <3>1, ConcatEmptySeq
    <3>3. Len(accepted) = 2 + Len(yielded)
      BY <2>6 DEF IInv, EndsOK, DeliveryOK, StreamInv, ReturnOK
    <3>4. i \in 1..Len(Framed)
      BY <2>2 DEF Sound
    <3> QED  BY <2>2, <3>2, <3>3, <3>4
  <2> QED  BY <2>3, <2>5, <2>6 DEF WholeStream
<1> QED  BY <1>1, StreamInvariant, PTL

\* Once the connection is gone the task takes at most one more item.
THEOREM TaskStops == Safety => []StopsSoon
<1>1. StreamInv => StopsSoon
  BY DEF StreamInv, LateOK, StopsSoon
<1> QED  BY <1>1, StreamInvariant, PTL

=============================================================================
