-------------------------- MODULE ExtensionProofs --------------------------
(***************************************************************************)
(* Proofs for Listener and Extension: for any APIs, processors and traffic *)
(* the processor of an API is called for one batch at a time and the       *)
(* answers to the platform are true, for a server alone and for the ones   *)
(* that an extension starts one by one while it registers; no event is     *)
(* asked for before every subscription stands, and a failed processor is   *)
(* reported once, to the endpoint of its phase.                            *)
(***************************************************************************)
EXTENDS Extension, TLAPS

\* The mutex: who is in the queue awaits or holds it, nobody is in it twice.
QueueOK ==
  \A a \in Apis : \A i \in 1..Len(lock[a]) :
    /\ To[lock[a][i]] = a
    /\ conn[lock[a][i]] \in {"locking", "processing"}
    /\ \A j \in 1..Len(lock[a]) : lock[a][i] = lock[a][j] => i = j

\* Who awaits or holds the mutex is in the queue, and the holder is its head.
HolderOK ==
  \A c \in Conns :
    /\ conn[c] \in {"locking", "processing"} => Place(c) # {}
    /\ conn[c] = "processing" => Place(c) = {1}

\* What a task has in hand at each point.
CarriedOK ==
  \A c \in Conns :
    /\ conn[c] \in {"reading", "locking", "processing", "answering"} => carried[c] # NoBatch
    /\ conn[c] \in {"locking", "processing", "answering"} => carried[c] \notin Malformed
    /\ conn[c] = "answering" => carried[c] \in completed

ServerOK == TypeOK /\ QueueOK /\ HolderOK /\ CarriedOK /\ AnswersAreTrue

InQueue(st) == st \in {"locking", "processing"}

-----------------------------------------------------------------------------
(* The queue of a server.                                                  *)

\* What is left of a queue when one leaves.
LEMMA WithoutProperties ==
  ASSUME NEW S, NEW s \in Seq(S), NEW i \in 1..Len(s)
  PROVE  /\ Without(s, i) \in Seq(S)
         /\ Len(Without(s, i)) = Len(s) - 1
         /\ \A j \in 1..(Len(s) - 1) :
              Without(s, i)[j] = IF j < i THEN s[j] ELSE s[j + 1]
<1> DEFINE w == Without(s, i)
<1>1. Len(s) - 1 \in Nat
  OBVIOUS
<1>2. \A j \in 1..(Len(s) - 1) : (IF j < i THEN s[j] ELSE s[j + 1]) \in S
  OBVIOUS
<1>3. w \in [1..(Len(s) - 1) -> S]
  BY <1>2 DEF Without
<1>4. w \in Seq(S) /\ Len(w) = Len(s) - 1
  BY <1>1, <1>3
<1> QED
  BY <1>4 DEF Without

\* Steps that do not touch the queue, nor who is in it and who holds it.
LEMMA QueueUntouched ==
  ASSUME TypeOK, QueueOK, HolderOK, lock' = lock,
         \A c \in Conns : conn'[c] # conn[c] => ~InQueue(conn[c]) /\ ~InQueue(conn'[c])
  PROVE  QueueOK' /\ HolderOK'
<1>1. \A c \in Conns : InQueue(conn'[c]) \/ InQueue(conn[c]) => conn'[c] = conn[c]
  OBVIOUS
<1>2. \A a \in Apis : \A i \in 1..Len(lock[a]) : lock[a][i] \in Conns
  BY DEF TypeOK
<1>3. \A c \in Conns : Place(c)' = Place(c)
  BY DEF Place
<1>4. QueueOK'
  BY <1>1, <1>2 DEF QueueOK, InQueue
<1>5. HolderOK'
  BY <1>1, <1>3 DEF HolderOK, InQueue
<1> QED
  BY <1>4, <1>5

\* A task goes to the end of the queue.
LEMMA QueueJoined ==
  ASSUME ListenerAssumption, TypeOK, QueueOK, HolderOK, NEW c \in Conns,
         conn[c] = "reading", conn' = [conn EXCEPT ![c] = "locking"],
         lock' = [lock EXCEPT ![To[c]] = Append(@, c)]
  PROVE  lock' \in [Apis -> Seq(Conns)] /\ QueueOK' /\ HolderOK'
<1> DEFINE a == To[c]  n == Len(lock[a])
<1>1. a \in Apis /\ lock[a] \in Seq(Conns) /\ n \in Nat
  BY DEF ListenerAssumption, TypeOK
<1>2. /\ lock'[a] = Append(lock[a], c)
      /\ \A b \in Apis \ {a} : lock'[b] = lock[b]
      /\ lock' \in [Apis -> Seq(Conns)]
  BY <1>1 DEF TypeOK
<1>3. /\ Len(lock'[a]) = n + 1
      /\ lock'[a][n + 1] = c
      /\ \A i \in 1..n : lock'[a][i] = lock[a][i]
  BY <1>1, <1>2
<1>4. /\ conn'[c] = "locking"
      /\ \A d \in Conns \ {c} : conn'[d] = conn[d]
  BY DEF TypeOK
<1>5. \A b \in Apis : \A i \in 1..Len(lock[b]) : lock[b][i] \in Conns /\ lock[b][i] # c
  <2>1. \A b \in Apis : \A i \in 1..Len(lock[b]) : lock[b][i] \in Conns
    BY DEF TypeOK
  <2>2. \A b \in Apis : \A i \in 1..Len(lock[b]) : conn[lock[b][i]] # "reading"
    BY DEF QueueOK
  <2> QED
    BY <2>1, <2>2
<1>6. QueueOK'
  <2> SUFFICES ASSUME NEW b \in Apis, NEW i \in 1..Len(lock'[b])
               PROVE  /\ To[lock'[b][i]] = b
                      /\ conn'[lock'[b][i]] \in {"locking", "processing"}
                      /\ \A j \in 1..Len(lock'[b]) : lock'[b][i] = lock'[b][j] => i = j
    BY DEF QueueOK
  <2>1. CASE b # a
    BY <1>2, <1>4, <1>5, <2>1 DEF QueueOK
  <2>2. CASE b = a /\ i = n + 1
    BY <1>1, <1>3, <1>4, <1>5, <2>2
  <2>3. CASE b = a /\ i \in 1..n
    BY <1>1, <1>3, <1>4, <1>5, <2>3 DEF QueueOK
  <2> QED
    BY <1>1, <1>3, <2>1, <2>2, <2>3
<1>7. \A d \in Conns \ {c} : Place(d)' = Place(d)
  <2> SUFFICES ASSUME NEW d \in Conns \ {c} PROVE Place(d)' = Place(d)
    OBVIOUS
  <2>1. CASE To[d] = a
    BY <1>1, <1>3, <2>1 DEF Place
  <2>2. CASE To[d] # a
    BY <1>2, <2>2 DEF Place, ListenerAssumption
  <2> QED
    BY <2>1, <2>2
<1>8. n + 1 \in Place(c)'
  BY <1>1, <1>3 DEF Place
<1>9. HolderOK'
  BY <1>4, <1>7, <1>8 DEF HolderOK
<1> QED
  BY <1>2, <1>6, <1>9

\* A task leaves the queue, if it was in it.
LEMMA QueueLeft ==
  ASSUME ListenerAssumption, TypeOK, QueueOK, HolderOK, NEW c \in Conns, NEW st,
         ~InQueue(st), conn' = [conn EXCEPT ![c] = st], Release(c)
  PROVE  lock' \in [Apis -> Seq(Conns)] /\ QueueOK' /\ HolderOK'
<1> DEFINE a == To[c]  q == lock[a]
<1>1. a \in Apis /\ q \in Seq(Conns) /\ Len(q) \in Nat
  BY DEF ListenerAssumption, TypeOK
<1>2. /\ conn'[c] = st
      /\ \A d \in Conns \ {c} : conn'[d] = conn[d]
  BY DEF TypeOK
<1>3. CASE Place(c) = {}
  <2>1. lock' = lock /\ ~InQueue(conn[c])
    BY <1>3 DEF Release, HolderOK, InQueue
  <2>2. QueueOK' /\ HolderOK'
    BY <1>2, <2>1, QueueUntouched
  <2> QED
    BY <2>1, <2>2 DEF TypeOK
<1>4. CASE Place(c) # {}
  <2>1. PICK k \in Place(c) : TRUE
    BY <1>4
  <2>2. k \in 1..Len(q) /\ q[k] = c
    BY <2>1 DEF Place
  <2> DEFINE w == Without(q, k)
  <2>3. lock' = [lock EXCEPT ![a] = w]
    BY <2>1 DEF Release
  <2>4. /\ w \in Seq(Conns)
        /\ Len(w) = Len(q) - 1
        /\ \A j \in 1..(Len(q) - 1) : w[j] = IF j < k THEN q[j] ELSE q[j + 1]
    BY <1>1, <2>2, WithoutProperties
  <2> HIDE DEF w
  <2>5. /\ lock'[a] = w
        /\ \A b \in Apis \ {a} : lock'[b] = lock[b]
        /\ lock' \in [Apis -> Seq(Conns)]
    BY <1>1, <2>3, <2>4 DEF TypeOK
  <2>6. \A i \in 1..Len(q) : i # k => q[i] # c
    BY <1>1, <2>2 DEF QueueOK
  <2>7. \A b \in Apis : \A i \in 1..Len(lock[b]) : lock[b][i] \in Conns
    BY DEF TypeOK
  <2>8. \A b \in Apis \ {a} : \A i \in 1..Len(lock[b]) : lock[b][i] # c
    BY DEF QueueOK
  <2>9. QueueOK'
    <3> SUFFICES ASSUME NEW b \in Apis, NEW i \in 1..Len(lock'[b])
                 PROVE  /\ To[lock'[b][i]] = b
                        /\ conn'[lock'[b][i]] \in {"locking", "processing"}
                        /\ \A j \in 1..Len(lock'[b]) : lock'[b][i] = lock'[b][j] => i = j
      BY DEF QueueOK
    <3>1. CASE b # a
      BY <1>2, <2>5, <2>7, <2>8, <3>1 DEF QueueOK
    <3>2. CASE b = a
      <4> DEFINE from(j) == IF j < k THEN j ELSE j + 1
      <4>1. \A j \in 1..Len(w) : from(j) \in 1..Len(q) /\ from(j) # k /\ w[j] = q[from(j)]
        BY <1>1, <2>2, <2>4
      <4>2. i \in 1..Len(w)
        BY <2>5, <3>2
      <4>3. q[from(i)] # c /\ q[from(i)] \in Conns
        BY <1>1, <2>6, <2>7, <4>1, <4>2
      <4>4. To[w[i]] = a /\ conn[w[i]] \in {"locking", "processing"}
        BY <1>1, <4>1, <4>2 DEF QueueOK
      <4>5. \A j \in 1..Len(w) : w[i] = w[j] => from(i) = from(j)
        BY <1>1, <4>1, <4>2 DEF QueueOK
      <4>6. \A j \in 1..Len(w) : w[i] = w[j] => i = j
        BY <2>2, <4>2, <4>5
      <4> QED
        BY <1>2, <2>5, <3>2, <4>1, <4>2, <4>3, <4>4, <4>6
    <3> QED
      BY <3>1, <3>2
  <2>10. ASSUME NEW d \in Conns \ {c}
         PROVE  /\ Place(d) # {} => Place(d)' # {}
                /\ Place(d) = {1} => Place(d)' = {1}
    <3>1. CASE To[d] # a
      BY <2>5, <3>1 DEF Place, ListenerAssumption
    <3>2. CASE To[d] = a
      <4>1. Place(d) = {i \in 1..Len(q) : q[i] = d}
        BY <3>2 DEF Place
      <4>2. Place(d)' = {j \in 1..(Len(q) - 1) : w[j] = d}
        BY <2>4, <2>5, <3>2 DEF Place
      <4>3. ASSUME NEW i \in Place(d) PROVE Place(d)' # {}
        <5>1. i \in 1..Len(q) /\ q[i] = d /\ i # k
          BY <2>2, <4>1
        <5>2. CASE i < k
          <6>1. i \in 1..(Len(q) - 1)
            BY <1>1, <2>2, <5>1, <5>2
          <6> QED
            BY <2>4, <4>2, <5>1, <5>2, <6>1
        <5>3. CASE i > k
          <6>1. i - 1 \in 1..(Len(q) - 1) /\ ~(i - 1 < k) /\ (i - 1) + 1 = i
            BY <1>1, <2>2, <5>1, <5>3
          <6> QED
            BY <2>4, <4>2, <5>1, <6>1
        <5> QED
          BY <2>2, <5>1, <5>2, <5>3
      <4>4. ASSUME Place(d) = {1} PROVE Place(d)' = {1}
        <5>1. 1 \in 1..Len(q) /\ q[1] = d /\ k # 1 /\ \A i \in 1..Len(q) : q[i] = d => i = 1
          BY <2>2, <4>1, <4>4
        <5>2. 1 \in 1..(Len(q) - 1) /\ 1 < k
          BY <1>1, <2>2, <5>1
        <5>3. w[1] = d
          BY <2>4, <5>1, <5>2
        <5>4. \A j \in 1..(Len(q) - 1) : w[j] = d => j = 1
          BY <1>1, <2>2, <2>4, <5>1
        <5> QED
          BY <4>2, <5>2, <5>3, <5>4
      <4> QED
        BY <4>3, <4>4
    <3> QED
      BY <3>1, <3>2
  <2>11. HolderOK'
    BY <1>2, <2>10 DEF HolderOK, InQueue
  <2> QED
    BY <2>5, <2>9, <2>11
<1> QED
  BY <1>3, <1>4

-----------------------------------------------------------------------------
(* The steps of a server.                                                  *)

\* A server that nobody has connected to, started or not.
LEMMA IdleServerOK ==
  ASSUME ListenerAssumption, InitListener, subscribed \subseteq Apis,
         listener \in [Apis -> {"none", "unbound", "listening", "dead"}]
  PROVE  ServerOK
<1>1. TypeOK
  BY DEF ListenerAssumption, InitListener, TypeOK
<1>2. QueueOK /\ HolderOK /\ CarriedOK
  BY DEF InitListener, QueueOK, HolderOK, CarriedOK
<1>3. AnswersAreTrue
  BY DEF InitListener, AnswersAreTrue
<1> QED
  BY <1>1, <1>2, <1>3 DEF ServerOK

\* The listening task and the platform's connecting: no task with a batch moves.
LEMMA AcceptingServerOK ==
  ASSUME ListenerAssumption, ServerOK,
         \/ \E a \in Apis : bind(a) \/ UnwrapPanics(a)
         \/ \E c \in Conns : accept(c) \/ Connect(c)
  PROVE  ServerOK'
<1>1. /\ lock' = lock /\ carried' = carried /\ completed' = completed
      /\ cut' = cut /\ batch' = batch /\ faults' = faults /\ subscribed' = subscribed
  BY DEF bind, UnwrapPanics, accept, Connect, connVars
<1> USE DEF ServerOK
<1>2. conn' \in [Conns -> {"idle", "queued", "open", "reading", "locking",
                           "processing", "answering"}]
  <2> USE DEF TypeOK, connVars
  <2>1. CASE \E a \in Apis : bind(a)
    BY <2>1 DEF bind
  <2>2. CASE \E a \in Apis : UnwrapPanics(a)
    BY <2>2 DEF UnwrapPanics, Reset
  <2>3. CASE \E c \in Conns : accept(c)
    BY <2>3 DEF accept, Reset
  <2>4. CASE \E c \in Conns : Connect(c)
    BY <2>4 DEF Connect
  <2> QED
    BY <2>1, <2>2, <2>3, <2>4
<1>3. \A c \in Conns : conn'[c] # conn[c] =>
        conn[c] \in {"idle", "queued"} /\ conn'[c] \in {"idle", "queued", "open"}
  <2>0. conn \in [Conns -> {"idle", "queued", "open", "reading", "locking",
                            "processing", "answering"}]
    BY DEF TypeOK
  <2>1. CASE \E a \in Apis : bind(a)
    BY <2>1 DEF bind, connVars
  <2>2. CASE \E a \in Apis : UnwrapPanics(a)
    BY <2>2 DEF UnwrapPanics, Reset
  <2>3. CASE \E c \in Conns : accept(c)
    BY <2>0, <2>3 DEF accept, Reset
  <2>4. CASE \E c \in Conns : Connect(c)
    BY <2>0, <2>4 DEF Connect
  <2> QED
    BY <2>1, <2>2, <2>3, <2>4
<1>4. listener' \in [Apis -> {"none", "unbound", "listening", "dead"}]
  <2>0. listener \in [Apis -> {"none", "unbound", "listening", "dead"}]
    BY DEF TypeOK
  <2>1. \/ listener' = listener
        \/ \E a \in Apis : \E st \in {"unbound", "listening", "dead"} :
             listener' = [listener EXCEPT ![a] = st]
    BY DEF bind, UnwrapPanics, accept, Connect, ListenerAssumption
  <2> QED
    BY <2>0, <2>1
<1>5. TypeOK'
  BY <1>1, <1>2, <1>4 DEF TypeOK
<1>6. QueueOK' /\ HolderOK'
  <2>1. \A c \in Conns : conn'[c] # conn[c] => ~InQueue(conn[c]) /\ ~InQueue(conn'[c])
    BY <1>3 DEF InQueue
  <2> QED
    BY <1>1, <2>1, QueueUntouched
<1>7. CarriedOK'
  BY <1>1, <1>3 DEF CarriedOK
<1>8. AnswersAreTrue'
  BY <1>1 DEF AnswersAreTrue
<1> QED
  BY <1>5, <1>6, <1>7, <1>8

\* A batch is delivered, found malformed, or answered.
LEMMA ExchangeServerOK ==
  ASSUME ListenerAssumption, ServerOK, NEW c \in Conns,
         BadRequest(c) \/ Answer(c) \/ \E b \in Batches : Deliver(b, c)
  PROVE  ServerOK'
<1> USE DEF ServerOK
<1>1. /\ lock' = lock /\ completed' = completed /\ faults' = faults /\ cut' = cut
      /\ subscribed' = subscribed /\ listener' = listener
  BY DEF BadRequest, Answer, Respond, Deliver
<1>2. /\ carried[c] \in Batches \cup {NoBatch}
      /\ \A st : \A d \in Conns : [conn EXCEPT ![c] = st][d] = IF d = c THEN st ELSE conn[d]
  BY DEF TypeOK
<1>3. CASE BadRequest(c)
  <2>1. TypeOK'
    BY <1>1, <1>3 DEF BadRequest, Respond, TypeOK
  <2>2. QueueOK' /\ HolderOK'
    BY <1>1, <1>2, <1>3, QueueUntouched DEF BadRequest, Respond, InQueue
  <2>3. CarriedOK'
    BY <1>1, <1>2, <1>3 DEF BadRequest, Respond, CarriedOK, TypeOK
  <2>4. AnswersAreTrue'
    BY <1>1, <1>3 DEF BadRequest, Respond, AnswersAreTrue, TypeOK
  <2> QED
    BY <2>1, <2>2, <2>3, <2>4
<1>4. CASE Answer(c)
  <2>1. TypeOK'
    BY <1>1, <1>4 DEF Answer, Respond, TypeOK
  <2>2. QueueOK' /\ HolderOK'
    BY <1>1, <1>2, <1>4, QueueUntouched DEF Answer, Respond, InQueue
  <2>3. CarriedOK'
    BY <1>1, <1>2, <1>4 DEF Answer, Respond, CarriedOK, TypeOK
  <2>4. AnswersAreTrue'
    BY <1>1, <1>4 DEF Answer, Respond, AnswersAreTrue, CarriedOK, TypeOK
  <2> QED
    BY <2>1, <2>2, <2>3, <2>4
<1>5. ASSUME NEW b \in Batches, Deliver(b, c) PROVE ServerOK'
  <2>1. TypeOK'
    BY <1>1, <1>5 DEF Deliver, TypeOK
  <2>2. QueueOK' /\ HolderOK'
    BY <1>1, <1>2, <1>5, QueueUntouched DEF Deliver, InQueue
  <2>3. CarriedOK'
    BY <1>1, <1>2, <1>5, ListenerAssumption DEF Deliver, CarriedOK, TypeOK, ListenerAssumption
  <2>4. AnswersAreTrue'
    BY <1>1, <1>5 DEF Deliver, AnswersAreTrue, TypeOK
  <2> QED
    BY <2>1, <2>2, <2>3, <2>4
<1> QED
  BY <1>3, <1>4, <1>5

\* A task goes for the mutex, holds it, gives it back.
LEMMA ProcessingServerOK ==
  ASSUME ListenerAssumption, ServerOK, NEW c \in Conns,
         Parsed(c) \/ CallProcessor(c) \/ ProcessorReturns(c)
  PROVE  ServerOK'
<1> USE DEF ServerOK
<1>1. /\ carried' = carried /\ batch' = batch /\ faults' = faults /\ cut' = cut
      /\ subscribed' = subscribed /\ listener' = listener
  BY DEF Parsed, CallProcessor, ProcessorReturns
<1>2. CASE Parsed(c)
  <2>1. lock' \in [Apis -> Seq(Conns)] /\ QueueOK' /\ HolderOK'
    BY <1>2, QueueJoined DEF Parsed
  <2>2. TypeOK'
    BY <1>1, <1>2, <2>1 DEF Parsed, TypeOK
  <2>3. CarriedOK' /\ AnswersAreTrue'
    BY <1>1, <1>2 DEF Parsed, CarriedOK, AnswersAreTrue, TypeOK
  <2> QED
    BY <2>1, <2>2, <2>3
<1>3. CASE CallProcessor(c)
  <2>1. TypeOK'
    BY <1>1, <1>3 DEF CallProcessor, TypeOK
  <2>2. /\ conn'[c] = "processing"
        /\ \A d \in Conns \ {c} : conn'[d] = conn[d]
        /\ lock' = lock
    BY <1>3 DEF CallProcessor, TypeOK
  <2>3. \A d \in Conns : Place(d)' = Place(d)
    BY <2>2 DEF Place
  <2>4. QueueOK'
    <3>1. \A a \in Apis : \A i \in 1..Len(lock[a]) : lock[a][i] \in Conns
      BY DEF TypeOK
    <3> QED
      BY <2>2, <3>1 DEF QueueOK
  <2>5. Place(c) = {1}
    <3>1. To[c] \in Apis /\ lock[To[c]] \in Seq(Conns)
      BY DEF ListenerAssumption, TypeOK
    <3>2. PICK k \in Place(c) : TRUE
      BY <1>3 DEF CallProcessor, HolderOK
    <3>3. k \in 1..Len(lock[To[c]]) /\ lock[To[c]][k] = c
      BY <3>2 DEF Place
    <3>4. 1 \in 1..Len(lock[To[c]]) /\ lock[To[c]][1] = c
      BY <1>3, <3>1, <3>3 DEF CallProcessor
    <3>5. \A i \in 1..Len(lock[To[c]]) : lock[To[c]][i] = c => i = 1
      BY <3>1, <3>4 DEF QueueOK
    <3> QED
      BY <3>4, <3>5 DEF Place
  <2>6. HolderOK'
    BY <2>2, <2>3, <2>5 DEF HolderOK
  <2>7. CarriedOK' /\ AnswersAreTrue'
    BY <1>1, <1>3, <2>2 DEF CallProcessor, CarriedOK, AnswersAreTrue
  <2> QED
    BY <2>1, <2>4, <2>6, <2>7
<1>4. CASE ProcessorReturns(c)
  <2>1. lock' \in [Apis -> Seq(Conns)] /\ QueueOK' /\ HolderOK'
    BY <1>4, QueueLeft DEF ProcessorReturns, InQueue
  <2>2. carried[c] \in Batches \ Malformed
    BY <1>4 DEF ProcessorReturns, CarriedOK, TypeOK
  <2>3. TypeOK'
    BY <1>1, <1>4, <2>1, <2>2 DEF ProcessorReturns, TypeOK
  <2>4. CarriedOK'
    BY <1>1, <1>4, <2>2 DEF ProcessorReturns, CarriedOK, TypeOK
  <2>5. AnswersAreTrue'
    BY <1>1, <1>4, <2>2 DEF ProcessorReturns, AnswersAreTrue
  <2> QED
    BY <2>1, <2>3, <2>4, <2>5
<1> QED
  BY <1>2, <1>3, <1>4

\* A task ends, wherever it is.
LEMMA EndServerOK ==
  ASSUME ListenerAssumption, ServerOK, NEW c \in Conns, Noticed(c) \/ ProcessorPanics(c)
  PROVE  ServerOK'
<1> USE DEF ServerOK
<1>1. TaskEnds(c)
  BY DEF Noticed, ProcessorPanics
<1>2. lock' \in [Apis -> Seq(Conns)] /\ QueueOK' /\ HolderOK'
  BY <1>1, QueueLeft DEF TaskEnds, InQueue
<1>3. \/ batch' = batch
      \/ carried[c] # NoBatch /\ batch' = [batch EXCEPT ![carried[c]] = "lost"]
  BY DEF Noticed, ProcessorPanics, Lose
<1>4. faults' \in 0..MaxFaults
  BY DEF Noticed, ProcessorPanics, TypeOK, ListenerAssumption
<1>5. TypeOK'
  BY <1>1, <1>2, <1>3, <1>4 DEF TaskEnds, TypeOK
<1>6. CarriedOK'
  BY <1>1 DEF TaskEnds, CarriedOK, TypeOK
<1>7. AnswersAreTrue'
  BY <1>1, <1>3 DEF TaskEnds, AnswersAreTrue, TypeOK
<1> QED
  BY <1>2, <1>5, <1>6, <1>7

\* A connection breaks, and its task does not know.
LEMMA BreakServerOK ==
  ASSUME ListenerAssumption, ServerOK, NEW c \in Conns, Breaks(c)
  PROVE  ServerOK'
<1> USE DEF ServerOK
<1>1. UNCHANGED <<listener, subscribed, conn, carried, lock, completed>>
  BY DEF Breaks
<1>2. \/ batch' = batch
      \/ carried[c] # NoBatch /\ batch' = [batch EXCEPT ![carried[c]] = "lost"]
  BY DEF Breaks, Lose
<1>3. faults' \in 0..MaxFaults /\ cut' \subseteq Conns
  BY DEF Breaks, TypeOK, ListenerAssumption
<1>4. TypeOK'
  BY <1>1, <1>2, <1>3 DEF TypeOK
<1>5. QueueOK' /\ HolderOK'
  BY <1>1, QueueUntouched
<1>6. CarriedOK' /\ AnswersAreTrue'
  BY <1>1, <1>2 DEF CarriedOK, AnswersAreTrue, TypeOK
<1> QED
  BY <1>4, <1>5, <1>6

\* Every step of a server keeps the invariant.
LEMMA ListenerNextServerOK ==
  ASSUME ListenerAssumption, ServerOK, [ListenerNext]_listenerVars
  PROVE  ServerOK'
<1>1. CASE ListenerNext
  BY <1>1, AcceptingServerOK, ExchangeServerOK, ProcessingServerOK, EndServerOK,
     BreakServerOK
     DEF ListenerNext, Serve
<1>2. CASE UNCHANGED listenerVars
  BY <1>2 DEF listenerVars, connVars, ServerOK, TypeOK, QueueOK, HolderOK, CarriedOK,
              AnswersAreTrue, Place
<1> QED
  BY <1>1, <1>2

-----------------------------------------------------------------------------
(* The theorems about servers.                                             *)

\* In every state of a server the queue of the mutex is as lock() and the drop of
\* its guard leave it, and a task has in hand what it read (logs.rs:189-231).
THEOREM ServerInvariant == ListenerSpec => []ServerOK
<1>1. Started => ServerOK
  BY IdleServerOK, ListenerAssumption DEF Started
<1>2. ServerOK /\ [ListenerNext]_listenerVars => ServerOK'
  BY ListenerNextServerOK, ListenerAssumption
<1> QED
  BY <1>1, <1>2, PTL DEF ListenerSpec

\* The head of the queue is one.
LEMMA HolderIsAlone ==
  ASSUME ServerOK
  PROVE  ProcessorSerial
<1> SUFFICES ASSUME NEW c \in Conns, NEW d \in Conns,
                    conn[c] = "processing", conn[d] = "processing", To[c] = To[d]
             PROVE  c = d
  BY DEF ProcessorSerial
<1>1. Place(c) = {1} /\ Place(d) = {1}
  BY DEF ServerOK, HolderOK
<1>2. 1 \in Place(c) /\ 1 \in Place(d)
  BY <1>1
<1> QED
  BY <1>2 DEF Place

\* The processor of an API is called for one batch at a time, though every
\* connection has a task of its own (extension.rs:260, 306; logs.rs:222-228).
THEOREM OneBatchAtATime == ListenerSpec => []ProcessorSerial
BY ServerInvariant, HolderIsAlone, PTL

\* A success says that the processor has finished with the batch, and what it
\* has finished with was well-formed (logs.rs:201-230).
THEOREM AnswersTrue == ListenerSpec => []AnswersAreTrue
<1>1. ServerOK => AnswersAreTrue
  BY DEF ServerOK
<1> QED
  BY <1>1, ServerInvariant, PTL

\* Who waits for a mutex waits for a task that is there: one that holds it, or one
\* that it is free for and that is about to take it.
WaitsForSomebody ==
  \A c \in Conns :
    conn[c] = "locking" =>
      /\ lock[To[c]] # <<>>
      /\ To[Head(lock[To[c]])] = To[c]
      /\ conn[Head(lock[To[c]])] \in {"locking", "processing"}

\* The head of a queue that somebody is in is live.
LEMMA QueueHeadIsThere ==
  ASSUME ServerOK
  PROVE  WaitsForSomebody
<1> SUFFICES ASSUME NEW c \in Conns, conn[c] = "locking"
             PROVE  /\ lock[To[c]] # <<>>
                    /\ To[Head(lock[To[c]])] = To[c]
                    /\ conn[Head(lock[To[c]])] \in {"locking", "processing"}
  BY DEF WaitsForSomebody
<1>1. To[c] \in Apis /\ lock[To[c]] \in Seq(Conns)
  BY ListenerAssumption DEF ListenerAssumption, ServerOK, TypeOK
<1>2. PICK i \in 1..Len(lock[To[c]]) : lock[To[c]][i] = c
  BY DEF ServerOK, HolderOK, Place
<1>3. 1 \in 1..Len(lock[To[c]]) /\ lock[To[c]] # <<>> /\ Head(lock[To[c]]) = lock[To[c]][1]
  BY <1>1, <1>2
<1> QED
  BY <1>1, <1>3 DEF ServerOK, QueueOK

\* A task that ends, by a panic of the processor or with its connection, leaves no
\* lock behind it (logs.rs:222-228; tokio's guard unlocks when it is dropped).
THEOREM NoLockLeftBehind == ListenerSpec => []WaitsForSomebody
BY ServerInvariant, QueueHeadIsThere, PTL

-----------------------------------------------------------------------------
(* What becomes of a batch.                                                *)

Working == {"reading", "locking", "processing", "answering"}

\* Who has a batch in hand is a task that works on it, for the API it is for; only
\* connections that work do; the platform waits for what it sent on a connection
\* that is not broken, on one for each batch; and what it waits for is in the hands
\* of that connection's task.
HandsOK ==
  /\ \A c \in Conns : carried[c] # NoBatch =>
       /\ conn[c] \in Working
       /\ To[c] = ApiOf[carried[c]]
  /\ \A c \in Conns \ cut : carried[c] # NoBatch =>
       /\ batch[carried[c]] = "sent"
       /\ \A d \in Conns \ cut : carried[d] = carried[c] => d = c
  /\ \A b \in Batches : batch[b] = "sent" => \E c \in Conns \ cut : carried[c] = b

\* Steps that hand nothing over.
LEMMA HandsUntouched ==
  ASSUME HandsOK, carried' = carried, batch' = batch, cut' = cut,
         \A c \in Conns :
           conn'[c] = conn[c] \/ carried[c] = NoBatch \/ conn'[c] \in Working
  PROVE  HandsOK'
BY DEF HandsOK, Working

\* The platform gets an answer to what it sent on a connection, or cannot get one
\* any more, and waits on it no longer; it waited on no broken one.
LEMMA HandEmptied ==
  ASSUME TypeOK, ListenerAssumption, HandsOK, NEW c \in Conns,
         NEW end \in {"ok", "badRequest", "lost"},
         batch' = IF carried[c] = NoBatch \/ c \in cut THEN batch
                  ELSE [batch EXCEPT ![carried[c]] = end],
         \/ carried'[c] = NoBatch
         \/ c \in cut' /\ conn' = conn /\ carried' = carried,
         \A d \in Conns \ {c} : /\ carried'[d] = carried[d] /\ conn'[d] = conn[d]
                               /\ (d \in cut' <=> d \in cut)
  PROVE  HandsOK'
<1>1. \A d \in Conns : carried[d] # NoBatch => carried[d] \in Batches
  BY DEF TypeOK
<1>2. \A b \in Batches : b # carried[c] \/ c \in cut => batch'[b] = batch[b]
  BY DEF TypeOK
<1>3. c \notin cut /\ carried[c] # NoBatch => batch'[carried[c]] # "sent"
  BY <1>1 DEF TypeOK
<1>4. ASSUME NEW d \in Conns, carried'[d] # NoBatch
      PROVE  conn'[d] \in Working /\ To[d] = ApiOf[carried'[d]]
  BY <1>4 DEF HandsOK
<1>5. ASSUME NEW d \in Conns \ cut', carried'[d] # NoBatch
      PROVE  /\ batch'[carried'[d]] = "sent"
             /\ \A e \in Conns \ cut' : carried'[e] = carried'[d] => e = d
  <2>1. d # c /\ d \in Conns \ cut /\ carried'[d] = carried[d]
    BY <1>5
  <2>2. batch[carried[d]] = "sent"
    BY <1>5, <2>1 DEF HandsOK
  <2>3. c \notin cut => carried[d] # carried[c]
    BY <1>5, <2>1 DEF HandsOK
  <2>4. batch'[carried[d]] = "sent"
    BY <1>1, <1>2, <1>5, <2>1, <2>2, <2>3
  <2>5. ASSUME NEW e \in Conns \ cut', carried'[e] = carried'[d]  PROVE e = d
    <3>1. e # c
      BY <1>5, <2>5
    <3>2. e \in Conns \ cut /\ carried[e] = carried[d]
      BY <2>1, <2>5, <3>1
    <3> QED
      BY <1>5, <2>1, <3>2 DEF HandsOK
  <2> QED
    BY <2>1, <2>4, <2>5
<1>6. ASSUME NEW b \in Batches, batch'[b] = "sent"
      PROVE  \E d \in Conns \ cut' : carried'[d] = b
  <2>1. b # NoBatch
    BY DEF ListenerAssumption
  <2>2. b # carried[c] \/ c \in cut
    BY <1>3, <1>6, <2>1
  <2>3. PICK d \in Conns \ cut : carried[d] = b
    BY <1>2, <1>6, <2>2 DEF HandsOK
  <2>4. d # c
    BY <2>2, <2>3
  <2> QED
    BY <2>3, <2>4
<1> QED
  BY <1>4, <1>5, <1>6 DEF HandsOK

\* The platform sends a batch that it waits for nowhere, on a connection that is
\* not broken.
LEMMA HandFilled ==
  ASSUME TypeOK, ListenerAssumption, HandsOK, NEW b \in Batches, NEW c \in Conns,
         Deliver(b, c)
  PROVE  HandsOK'
<1>1. /\ carried'[c] = b /\ conn'[c] = "reading" /\ c \notin cut
      /\ \A d \in Conns \ {c} : carried'[d] = carried[d] /\ conn'[d] = conn[d]
      /\ cut' = cut
  BY DEF Deliver, TypeOK
<1>2. /\ batch'[b] = "sent"
      /\ \A e \in Batches \ {b} : batch'[e] = batch[e]
  BY DEF Deliver, TypeOK
<1>3. \A d \in Conns \ cut : carried[d] # b
  <2>1. b # NoBatch /\ batch[b] # "sent"
    BY DEF Deliver, ListenerAssumption
  <2> QED
    BY <2>1 DEF HandsOK
<1>4. carried[c] = NoBatch
  BY DEF Deliver, HandsOK, Working
<1>5. \A d \in Conns : carried[d] # NoBatch => carried[d] \in Batches
  BY DEF TypeOK
<1>6. ASSUME NEW d \in Conns, carried'[d] # NoBatch
      PROVE  conn'[d] \in Working /\ To[d] = ApiOf[carried'[d]]
  BY <1>1, <1>6 DEF HandsOK, Working, Deliver
<1>7. ASSUME NEW d \in Conns \ cut', carried'[d] # NoBatch
      PROVE  /\ batch'[carried'[d]] = "sent"
             /\ \A e \in Conns \ cut' : carried'[e] = carried'[d] => e = d
  <2>1. CASE d = c
    BY <1>1, <1>2, <1>3, <2>1
  <2>2. CASE d # c
    <3>1. carried'[d] = carried[d] /\ carried[d] # NoBatch /\ carried[d] \in Batches \ {b}
      BY <1>1, <1>3, <1>5, <1>7, <2>2
    <3>2. batch'[carried[d]] = "sent"
      BY <1>1, <1>2, <1>7, <3>1 DEF HandsOK
    <3>3. \A e \in Conns : carried'[e] = carried[d] => carried[e] = carried[d]
      BY <1>1, <3>1
    <3> QED
      BY <1>1, <1>7, <3>1, <3>2, <3>3 DEF HandsOK
  <2> QED
    BY <2>1, <2>2
<1>8. ASSUME NEW e \in Batches, batch'[e] = "sent"
      PROVE  \E d \in Conns \ cut' : carried'[d] = e
  <2>1. CASE e = b
    BY <1>1, <2>1
  <2>2. CASE e # b
    <3>1. PICK d \in Conns \ cut : carried[d] = e
      BY <1>2, <1>8, <2>2 DEF HandsOK
    <3>2. d # c
      <4>1. e # NoBatch
        BY DEF ListenerAssumption
      <4> QED
        BY <1>4, <3>1, <4>1
    <3> QED
      BY <1>1, <3>1, <3>2
  <2> QED
    BY <2>1, <2>2
<1> QED
  BY <1>6, <1>7, <1>8 DEF HandsOK

\* Every step of a server and its platform keeps track of the batches.
LEMMA ListenerNextHandsOK ==
  ASSUME ListenerAssumption, ServerOK, HandsOK, [ListenerNext]_listenerVars
  PROVE  HandsOK'
<1>0. TypeOK
  BY DEF ServerOK
<1>1. CASE UNCHANGED listenerVars \/ \E a \in Apis : bind(a)
  <2>1. UNCHANGED <<conn, cut, carried, batch>>
    BY <1>1 DEF listenerVars, connVars, bind
  <2> QED
    BY <2>1, HandsUntouched
<1>2. ASSUME NEW a \in Apis, UnwrapPanics(a)  PROVE HandsOK'
  <2>1. \A c \in Conns : conn'[c] # conn[c] => conn[c] = "queued"
    BY <1>2 DEF UnwrapPanics, Reset
  <2>2. \A c \in Conns : carried[c] # NoBatch => conn[c] # "queued"
    BY DEF HandsOK, Working
  <2>3. UNCHANGED <<cut, carried, batch>>
    BY <1>2 DEF UnwrapPanics
  <2> QED
    BY <2>1, <2>2, <2>3, HandsUntouched
<1>3. ASSUME NEW c \in Conns, accept(c) \/ Connect(c)  PROVE HandsOK'
  <2>1. \A d \in Conns : conn'[d] # conn[d] => conn[d] \in {"queued", "idle"}
    <3>1. CASE accept(c)
      BY <1>0, <3>1 DEF accept, Reset, TypeOK
    <3>2. CASE Connect(c)
      BY <1>0, <3>2 DEF Connect, TypeOK
    <3> QED
      BY <1>3, <3>1, <3>2
  <2>2. \A d \in Conns : carried[d] # NoBatch => conn[d] \notin {"queued", "idle"}
    BY DEF HandsOK, Working
  <2>3. UNCHANGED <<cut, carried, batch>>
    BY <1>3 DEF accept, Connect
  <2> QED
    BY <2>1, <2>2, <2>3, HandsUntouched
<1>4. ASSUME NEW c \in Conns, Parsed(c) \/ CallProcessor(c) \/ ProcessorReturns(c)
      PROVE  HandsOK'
  <2>1. /\ UNCHANGED <<cut, carried, batch>>
        /\ \E st \in {"locking", "processing", "answering"} : conn' = [conn EXCEPT ![c] = st]
    BY <1>4 DEF Parsed, CallProcessor, ProcessorReturns
  <2>2. \A d \in Conns : conn'[d] = conn[d] \/ conn'[d] \in Working
    BY <1>0, <2>1 DEF TypeOK, Working
  <2> QED
    BY <2>1, <2>2, HandsUntouched
<1>5. ASSUME NEW c \in Conns, BadRequest(c) \/ Answer(c)  PROVE HandsOK'
  <2>1. carried[c] # NoBatch /\ cut' = cut
    BY <1>5 DEF BadRequest, Answer, ServerOK, CarriedOK
  <2>2. PICK end \in {"ok", "badRequest"} : Respond(c, end)
    BY <1>5 DEF BadRequest, Answer
  <2>3. /\ carried'[c] = NoBatch
        /\ \A d \in Conns \ {c} : carried'[d] = carried[d] /\ conn'[d] = conn[d]
    BY <1>0, <2>2 DEF Respond, TypeOK
  <2>4. batch' = IF carried[c] = NoBatch \/ c \in cut THEN batch
                 ELSE [batch EXCEPT ![carried[c]] = end]
    BY <2>1, <2>2 DEF Respond
  <2> QED
    BY <1>0, <2>1, <2>3, <2>4, HandEmptied
<1>6. ASSUME NEW c \in Conns, Breaks(c)  PROVE HandsOK'
  BY <1>0, <1>6, HandEmptied DEF Breaks, Lose
<1>7. ASSUME NEW c \in Conns, Noticed(c) \/ ProcessorPanics(c)  PROVE HandsOK'
  <2>1. /\ carried'[c] = NoBatch
        /\ \A d \in Conns \ {c} : /\ carried'[d] = carried[d] /\ conn'[d] = conn[d]
                                 /\ (d \in cut' <=> d \in cut)
    BY <1>0, <1>7 DEF Noticed, ProcessorPanics, TaskEnds, TypeOK
  <2>2. batch' = IF carried[c] = NoBatch \/ c \in cut THEN batch
                 ELSE [batch EXCEPT ![carried[c]] = "lost"]
    BY <1>7 DEF Noticed, ProcessorPanics, Lose
  <2> QED
    BY <1>0, <2>1, <2>2, HandEmptied
<1> QED
  BY <1>0, <1>1, <1>2, <1>3, <1>4, <1>5, <1>6, <1>7, HandFilled DEF ListenerNext, Serve

\* What a step does to a batch: its platform sends it, gets the answer to it or
\* loses it.
LEMMA BatchSteps ==
  ASSUME ServerOK, HandsOK, [ListenerNext]_listenerVars, NEW b \in Batches,
         batch'[b] # batch[b]
  PROVE  batch[b] \in {"pending", "lost", "sent"}
<1>0. batch \in [Batches -> {"pending", "sent", "ok", "badRequest", "lost"}]
  BY DEF ServerOK, TypeOK
<1>1. \/ \E c \in Conns : BadRequest(c) \/ Answer(c) \/ Breaks(c) \/ ProcessorPanics(c)
      \/ \E e \in Batches, c \in Conns : Deliver(e, c)
  BY DEF ListenerNext, Serve, listenerVars, bind, UnwrapPanics, accept, Connect, Parsed,
         CallProcessor, ProcessorReturns, Noticed
<1>2. ASSUME NEW c \in Conns, BadRequest(c) \/ Answer(c) \/ Breaks(c) \/ ProcessorPanics(c)
      PROVE  batch[b] = "sent"
  <2>1. BadRequest(c) \/ Answer(c) => carried[c] # NoBatch
    BY DEF BadRequest, Answer, ServerOK, CarriedOK
  <2>2. /\ c \notin cut /\ carried[c] # NoBatch
        /\ \E end : batch' = [batch EXCEPT ![carried[c]] = end]
    BY <1>2, <2>1 DEF BadRequest, Answer, Respond, Breaks, ProcessorPanics, Lose
  <2>3. b = carried[c]
    BY <1>0, <2>2
  <2> QED
    BY <2>2, <2>3 DEF HandsOK
<1>3. ASSUME NEW e \in Batches, NEW c \in Conns, Deliver(e, c)
      PROVE  batch[b] \in {"pending", "lost"}
  <2>1. b = e
    BY <1>0, <1>3 DEF Deliver
  <2> QED
    BY <1>3, <2>1 DEF Deliver
<1> QED
  BY <1>1, <1>2, <1>3

-----------------------------------------------------------------------------
(* The order in which a mutex is had.                                      *)

\* c asked for the mutex that d asks for, and asked first.
Before(c, d) ==
  /\ To[c] = To[d]
  /\ \E i, j \in 1..Len(lock[To[c]]) : /\ i < j
                                       /\ lock[To[c]][i] = c
                                       /\ lock[To[c]][j] = d

\* Who leaves does not change the order of the others.
LEMMA OrderOutlivesLeaving ==
  ASSUME ListenerAssumption, TypeOK, NEW x \in Conns, Release(x),
         NEW c \in Conns \ {x}, NEW d \in Conns \ {x}, Before(c, d)
  PROVE  Before(c, d)'
<1> DEFINE a == To[c]  q == lock[a]
<1>1. a \in Apis /\ q \in Seq(Conns) /\ Len(q) \in Nat /\ To[d] = a
  BY DEF ListenerAssumption, TypeOK, Before
<1>2. PICK i \in 1..Len(q), j \in 1..Len(q) : i < j /\ q[i] = c /\ q[j] = d
  BY DEF Before
<1>3. CASE lock'[a] = q
  BY <1>1, <1>2, <1>3 DEF Before
<1>4. CASE lock'[a] # q
  <2>1. Place(x) # {}
    BY <1>4 DEF Release
  <2>2. PICK k \in Place(x) : TRUE
    BY <2>1
  <2>3. lock' = [lock EXCEPT ![To[x]] = Without(@, k)]
    BY <2>2 DEF Release
  <2>4. To[x] = a
    BY <1>4, <2>3 DEF TypeOK
  <2>5. k \in 1..Len(q) /\ q[k] = x
    BY <2>2, <2>4 DEF Place
  <2> DEFINE w == Without(q, k)  to(n) == IF n < k THEN n ELSE n - 1
  <2>6. lock'[a] = w
    BY <1>1, <2>3, <2>4 DEF TypeOK
  <2>7. /\ Len(w) = Len(q) - 1
        /\ \A n \in 1..(Len(q) - 1) : w[n] = IF n < k THEN q[n] ELSE q[n + 1]
    BY <1>1, <2>5, WithoutProperties
  <2> HIDE DEF w
  <2>8. ASSUME NEW n \in 1..Len(q), n # k
        PROVE  to(n) \in 1..Len(w) /\ w[to(n)] = q[n]
    <3>1. CASE n < k
      BY <1>1, <2>5, <2>7, <2>8, <3>1
    <3>2. CASE n > k
      <4>1. n - 1 \in 1..(Len(q) - 1) /\ ~(n - 1 < k) /\ (n - 1) + 1 = n /\ to(n) = n - 1
        BY <1>1, <2>5, <3>2
      <4> QED
        BY <2>7, <4>1
    <3> QED
      BY <2>5, <2>8, <3>1, <3>2
  <2>9. i # k /\ j # k
    BY <1>2, <2>5
  <2>10. /\ to(i) \in 1..Len(w) /\ w[to(i)] = c
         /\ to(j) \in 1..Len(w) /\ w[to(j)] = d
    BY <1>2, <2>8, <2>9
  <2>11. to(i) < to(j)
    BY <1>2, <2>5, <2>9
  <2> HIDE DEF to
  <2> QED
    BY <1>1, <2>6, <2>10, <2>11 DEF Before
<1> QED
  BY <1>3, <1>4

\* Who comes does not either.
LEMMA OrderOutlivesJoining ==
  ASSUME ListenerAssumption, TypeOK, NEW x \in Conns,
         lock' = [lock EXCEPT ![To[x]] = Append(@, x)],
         NEW c \in Conns, NEW d \in Conns, Before(c, d)
  PROVE  Before(c, d)'
<1> DEFINE a == To[c]  q == lock[a]
<1>1. a \in Apis /\ q \in Seq(Conns) /\ Len(q) \in Nat /\ To[d] = a
  BY DEF ListenerAssumption, TypeOK, Before
<1>2. lock'[a] = q \/ lock'[a] = Append(q, x)
  BY <1>1 DEF TypeOK
<1>3. /\ 1..Len(q) \subseteq 1..Len(lock'[a])
      /\ \A i \in 1..Len(q) : lock'[a][i] = q[i]
  BY <1>1, <1>2
<1>4. PICK i \in 1..Len(q), j \in 1..Len(q) : i < j /\ q[i] = c /\ q[j] = d
  BY DEF Before
<1>5. i \in 1..Len(lock'[a]) /\ j \in 1..Len(lock'[a])
  BY <1>3
<1> QED
  BY <1>1, <1>3, <1>4, <1>5 DEF Before

\* No step lets one overtake another.
LEMMA OrderIsKept ==
  ASSUME ListenerAssumption, ServerOK, [ListenerNext]_listenerVars,
         NEW c \in Conns, NEW d \in Conns, Before(c, d),
         InQueue(conn'[c]), InQueue(conn'[d])
  PROVE  Before(c, d)'
<1>0. TypeOK
  BY DEF ServerOK
<1>1. CASE lock' = lock
  BY <1>1 DEF Before
<1>2. ASSUME NEW x \in Conns, Parsed(x)  PROVE Before(c, d)'
  BY <1>0, <1>2, OrderOutlivesJoining DEF Parsed
<1>3. ASSUME NEW x \in Conns, ProcessorReturns(x) \/ Noticed(x) \/ ProcessorPanics(x)
      PROVE  Before(c, d)'
  <2>1. Release(x) /\ ~InQueue(conn'[x])
    BY <1>0, <1>3 DEF ProcessorReturns, Noticed, ProcessorPanics, TaskEnds, InQueue, TypeOK
  <2>2. x # c /\ x # d
    BY <2>1
  <2> QED
    BY <1>0, <2>1, <2>2, OrderOutlivesLeaving
<1>4. \/ lock' = lock
      \/ \E x \in Conns : Parsed(x) \/ ProcessorReturns(x) \/ Noticed(x) \/ ProcessorPanics(x)
  BY DEF ListenerNext, Serve, listenerVars, bind, UnwrapPanics, accept, Connect, BadRequest,
         CallProcessor, Answer, Deliver, Breaks
<1> QED
  BY <1>1, <1>2, <1>3, <1>4

-----------------------------------------------------------------------------
(* The extension.                                                          *)

\* The processors before and after the one that is being set up.
Setup(n) == {Processors[i] : i \in 1..n}

Running == pc \in {"registered", "polling", "ready", "failed", "reporting"}

\* How far the setup is.
AtOK ==
  /\ pc \in {"registering", "configuring"} => at \in 1..(Len(Processors) + 1)
  /\ pc = "registering" => at = 1
  /\ pc \in {"subscribing", "accepted", "refused"} => at \in 1..Len(Processors)

\* The listening tasks are never back at where they started from.
ListenersOK ==
  /\ listener \in [Apis -> {"none", "unbound", "listening", "dead"}]
  /\ \A a \in subscribed : listener[a] # "none"
  /\ subscribed \subseteq Apis

\* Which subscriptions stand, and for which listener the next one is.
SubscriptionsOK ==
  /\ pc \in {"registering", "configuring", "subscribing"} => subscribed = Setup(at - 1)
  /\ pc \in {"subscribing", "accepted", "refused"} => listener[Processors[at]] # "none"
  /\ pc = "accepted" => subscribed = Setup(at)
  /\ Running => subscribed = Subscribed

\* The report and why the extension ended.
ReportsOK ==
  /\ pc # "returned" => cause = "none"
  /\ pc \notin {"reporting", "returned"} => reports = <<>>
  /\ pc = "reporting" => reports = <<[to |-> Endpoint, event |-> event]>>
  /\ pc = "returned" /\ cause \notin {"setup", "next", "unprintable"} =>
       reports = <<[to |-> Endpoint, event |-> event]>>

IInv == AtOK /\ ListenersOK /\ SubscriptionsOK /\ ReportsOK

-----------------------------------------------------------------------------
(* The steps of the extension's task.                                      *)

\* Nothing is set up yet.
LEMMA InitIInv ==
  ASSUME ExtensionAssumption, InitExtension
  PROVE  IInv
BY DEF InitExtension, ExtensionAssumption, IInv, AtOK, ListenersOK, SubscriptionsOK,
       ReportsOK, Running, Setup

\* A server's step leaves the subscriptions alone and its listener alive or dead.
LEMMA ServerIInv ==
  ASSUME ExtensionAssumption, ListenerAssumption, IInv, ListenerNext, UNCHANGED mainVars
  PROVE  IInv'
<1>1. subscribed' = subscribed
  BY DEF ListenerNext, Serve, bind, UnwrapPanics, accept, BadRequest, Parsed, CallProcessor,
         ProcessorReturns, Answer, Breaks, Noticed, ProcessorPanics, TaskEnds, Connect,
         Deliver
<1>2. \/ listener' = listener
      \/ \E a \in Apis : \E st \in {"unbound", "listening", "dead"} :
           listener' = [listener EXCEPT ![a] = st]
  BY DEF ListenerNext, Serve, bind, UnwrapPanics, accept, BadRequest, Parsed, CallProcessor,
         ProcessorReturns, Answer, Breaks, Noticed, ProcessorPanics, TaskEnds, Connect,
         Deliver, ListenerAssumption
<1>3. ListenersOK' /\ \A a \in Apis : listener[a] # "none" => listener'[a] # "none"
  BY <1>1, <1>2 DEF IInv, ListenersOK
<1>4. \A i \in 1..Len(Processors) : Processors[i] \in Apis
  BY DEF ExtensionAssumption
<1>5. AtOK' /\ SubscriptionsOK' /\ ReportsOK'
  BY <1>1, <1>3, <1>4 DEF mainVars, IInv, AtOK, SubscriptionsOK, ReportsOK, Running, Endpoint
<1> QED
  BY <1>3, <1>5 DEF IInv

\* Registration and subscriptions, but for the one the platform handles.
LEMMA RegisterIInv ==
  ASSUME ExtensionAssumption, IInv, RegisterNext
  PROVE  IInv'
<1> USE DEF IInv, AtOK, ListenersOK, SubscriptionsOK, ReportsOK, Running, Endpoint
<1>0. /\ Len(Processors) \in Nat
      /\ \A i \in 1..Len(Processors) : Processors[i] \in Apis
  BY DEF ExtensionAssumption
<1>1. CASE register
  BY <1>0, <1>1 DEF register, listenerVars
<1>2. CASE RegisterFails \/ ValidationFails \/ SubscriptionFails
  BY <1>2 DEF RegisterFails, ValidationFails, SubscriptionFails, Return, listenerVars
<1>3. CASE MakeServicePanics
  BY <1>3 DEF MakeServicePanics, listenerVars
<1>4. CASE SpawnListener
  <2>1. at \in 1..Len(Processors)
    BY <1>0, <1>4 DEF SpawnListener
  <2>2. Processors[at] \in Apis
    BY <1>0, <2>1
  <2>3. ListenersOK' /\ listener'[Processors[at]] = "unbound"
    BY <1>4, <2>2 DEF SpawnListener
  <2> QED
    BY <1>4, <2>1, <2>3 DEF SpawnListener
<1>5. CASE HandleSubscription
  <2>1. at \in 1..Len(Processors) /\ Processors[at] \in Apis /\ pc = "subscribing"
    BY <1>0, <1>5 DEF HandleSubscription
  <2>2. Setup(at - 1) \cup {Processors[at]} = Setup(at)
    BY <1>0, <2>1 DEF Setup
  <2>3. /\ listener' = listener /\ at' = at /\ cause' = cause /\ reports' = reports
        /\ \/ subscribed' = subscribed \cup {Processors[at]} /\ pc' = "accepted"
           \/ subscribed' = subscribed /\ pc' = "refused"
    BY <1>5 DEF HandleSubscription
  <2>4. subscribed = Setup(at - 1) /\ listener[Processors[at]] # "none"
    BY <2>1
  <2>5. AtOK' /\ ReportsOK'
    BY <2>1, <2>3
  <2>6. ListenersOK'
    BY <2>1, <2>3, <2>4
  <2>7. SubscriptionsOK'
    BY <2>2, <2>3, <2>4
  <2> QED
    BY <2>5, <2>6, <2>7
<1>6. CASE SubscriptionAccepted
  BY <1>0, <1>6 DEF SubscriptionAccepted, listenerVars
<1>7. CASE Registered
  <2>1. at = Len(Processors) + 1
    BY <1>0, <1>7 DEF Registered
  <2>2. Setup(at - 1) = Subscribed
    BY <1>0, <2>1 DEF Setup, Subscribed
  <2> QED
    BY <1>7, <2>2 DEF Registered, listenerVars
<1> QED
  BY <1>1, <1>2, <1>3, <1>4, <1>5, <1>6, <1>7 DEF RegisterNext

\* The event loop.
LEMMA RunIInv ==
  ASSUME IInv, run \/ RunNext \/ \E e \in Events : NextEvent(e)
  PROVE  IInv'
<1> USE DEF IInv, AtOK, ListenersOK, SubscriptionsOK, ReportsOK, Running, listenerVars
<1>1. CASE run \/ EventProcessed \/ EventFails \/ EventPanics \/ \E e \in Events : NextEvent(e)
  BY <1>1 DEF run, EventProcessed, EventFails, EventPanics, NextEvent
<1>2. CASE NextFails \/ ReportNotBuilt
  BY <1>2 DEF NextFails, ReportNotBuilt, Return
<1>3. CASE report
  BY <1>3 DEF report, Endpoint
<1>4. CASE ReportEnds
  BY <1>4 DEF ReportEnds, Return, Endpoint
<1> QED
  BY <1>1, <1>2, <1>3, <1>4 DEF RunNext

\* Every step keeps the invariant.
LEMMA NextIInv ==
  ASSUME ExtensionAssumption, ListenerAssumption, IInv, [ExtensionNext]_extensionVars
  PROVE  IInv'
<1>1. CASE ExtensionNext
  BY <1>1, ServerIInv, RegisterIInv, RunIInv DEF ExtensionNext
<1>2. CASE UNCHANGED extensionVars
  BY <1>2 DEF extensionVars, mainVars, listenerVars, IInv, AtOK, ListenersOK, SubscriptionsOK,
              ReportsOK, Running, Endpoint
<1> QED
  BY <1>1, <1>2

-----------------------------------------------------------------------------
(* The theorems about extensions.                                          *)

\* In every state of an extension the subscriptions are those of the processors
\* it has gone past in its registration (extension.rs:239-356).
THEOREM Invariant == ExtensionSpec => []IInv
<1>1. InitExtension => IInv
  BY InitIInv, ExtensionAssumption
<1>2. IInv /\ [ExtensionNext]_extensionVars => IInv'
  BY NextIInv, ExtensionAssumption, ListenerAssumption
<1> QED
  BY <1>1, <1>2, PTL DEF ExtensionSpec

\* The first event is asked for after all subscriptions were accepted, each of
\* them made after its listener was spawned (extension.rs:251-341).
THEOREM SubscribedFirst == ExtensionSpec => []SubscribedInInit
<1>1. IInv => SubscribedInInit
  BY DEF IInv, SubscribedInInit, ListenersOK, SubscriptionsOK, Running
<1> QED
  BY <1>1, Invariant, PTL

\* An error of the events processor is reported once, to the endpoint of its
\* phase, and ends the loop (extension.rs:457-483).
THEOREM OneReport == ExtensionSpec => []FailureEndsRun
<1>1. IInv => FailureEndsRun
  BY DEF IInv, FailureEndsRun, ReportsOK, Endpoint
<1> QED
  BY <1>1, Invariant, PTL

-----------------------------------------------------------------------------
(* The servers of an extension: what holds of a server alone holds of the  *)
(* ones that are started, subscribed to and left behind by an extension,   *)
(* wherever its own task is.                                               *)

\* The extension's task touches no connection and no queue.
LEMMA TaskLeavesConnections ==
  ASSUME RegisterNext \/ run \/ RunNext \/ \E e \in Events : NextEvent(e)
  PROVE  UNCHANGED <<conn, cut, carried, lock, batch, completed, faults>>
<1> USE DEF listenerVars, connVars
<1>1. CASE RegisterNext
  BY <1>1 DEF RegisterNext, register, RegisterFails, ValidationFails, MakeServicePanics,
              SpawnListener, HandleSubscription, SubscriptionAccepted, SubscriptionFails,
              Registered
<1>2. CASE run \/ \E e \in Events : NextEvent(e)
  BY <1>2 DEF run, NextEvent
<1>3. CASE RunNext
  BY <1>3 DEF RunNext, NextFails, EventProcessed, EventFails, EventPanics, report,
              ReportNotBuilt, ReportEnds
<1> QED
  BY <1>1, <1>2, <1>3

\* Every step of an extension and its servers keeps the servers' invariant.
LEMMA NextServerOK ==
  ASSUME ExtensionAssumption, ListenerAssumption, IInv, ServerOK,
         [ExtensionNext]_extensionVars
  PROVE  ServerOK'
<1>1. CASE ListenerNext \/ UNCHANGED extensionVars
  BY <1>1, ListenerNextServerOK DEF extensionVars
<1>2. CASE RegisterNext \/ run \/ RunNext \/ \E e \in Events : NextEvent(e)
  <2>1. UNCHANGED <<conn, cut, carried, lock, batch, completed, faults>>
    BY <1>2, TaskLeavesConnections
  <2>2. ListenersOK'
    BY NextIInv DEF IInv
  <2>3. TypeOK'
    BY <2>1, <2>2 DEF ServerOK, TypeOK, ListenersOK
  <2>4. QueueOK' /\ HolderOK' /\ CarriedOK' /\ AnswersAreTrue'
    BY <2>1 DEF ServerOK, QueueOK, HolderOK, CarriedOK, AnswersAreTrue, Place
  <2> QED
    BY <2>3, <2>4 DEF ServerOK
<1> QED
  BY <1>1, <1>2 DEF ExtensionNext

\* In every state of an extension its servers are as servers alone are.
THEOREM ExtensionServers == ExtensionSpec => []ServerOK
<1>1. InitExtension => ServerOK
  <2> SUFFICES ASSUME InitExtension  PROVE ServerOK
    OBVIOUS
  <2>1. subscribed \subseteq Apis /\ listener \in [Apis -> {"none", "unbound", "listening", "dead"}]
    BY DEF InitExtension
  <2> QED
    BY <2>1, IdleServerOK, ListenerAssumption DEF InitExtension
<1>2. IInv /\ ServerOK /\ [ExtensionNext]_extensionVars => ServerOK'
  BY NextServerOK, ExtensionAssumption, ListenerAssumption
<1> QED
  BY <1>1, <1>2, Invariant, PTL DEF ExtensionSpec

\* The processors of an extension are called for one batch at a time, what its
\* servers answer is true, and no mutex is left locked, whatever the extension's
\* task does meanwhile (extension.rs:251-341; logs.rs:189-231).
THEOREM ServersInExtension ==
  ExtensionSpec => [](ProcessorSerial /\ AnswersAreTrue /\ WaitsForSomebody)
<1>1. ServerOK => ProcessorSerial /\ AnswersAreTrue /\ WaitsForSomebody
  BY HolderIsAlone, QueueHeadIsThere DEF ServerOK
<1> QED
  BY <1>1, ExtensionServers, PTL

-----------------------------------------------------------------------------
(* What becomes of the batches of an extension.                            *)

\* Every step of an extension and its servers keeps track of the batches.
LEMMA NextHandsOK ==
  ASSUME ListenerAssumption, ServerOK, HandsOK, [ExtensionNext]_extensionVars
  PROVE  HandsOK'
<1>1. CASE ListenerNext \/ UNCHANGED extensionVars
  BY <1>1, ListenerNextHandsOK DEF extensionVars
<1>2. CASE RegisterNext \/ run \/ RunNext \/ \E e \in Events : NextEvent(e)
  <2>1. UNCHANGED <<conn, cut, carried, batch>>
    BY <1>2, TaskLeavesConnections
  <2> QED
    BY <2>1, HandsUntouched
<1> QED
  BY <1>1, <1>2 DEF ExtensionNext

\* A step of an extension is one of its servers or leaves them alone.
LEMMA ServersStep ==
  ASSUME [ExtensionNext]_extensionVars
  PROVE  ListenerNext \/ UNCHANGED <<conn, carried, lock, batch>>
<1>1. CASE UNCHANGED extensionVars
  BY <1>1 DEF extensionVars, listenerVars, connVars
<1> QED
  BY <1>1, TaskLeavesConnections DEF ExtensionNext

\* No batch is lost between the tasks: what the platform waits for an answer to it
\* sent on one connection that is not broken, whose task works on it for the API
\* that it was sent to.  Tasks of broken connections may work on the same batch,
\* until they are done or the server notices (logs.rs:189-231; extension.rs:258-277,
\* 304-323).
THEOREM BatchesInHand == ExtensionSpec => []HandsOK
<1>1. InitExtension => HandsOK
  BY DEF InitExtension, InitListener, HandsOK
<1>2. ServerOK /\ HandsOK /\ [ExtensionNext]_extensionVars => HandsOK'
  BY NextHandsOK, ListenerAssumption
<1> QED
  BY <1>1, <1>2, ExtensionServers, PTL DEF ExtensionSpec

\* An answer is the last word on a batch: no task that still works on it, or ends
\* later, makes the platform send it again (logs.rs:201-230).
THEOREM AnswersAreFinal ==
  ExtensionSpec =>
    [][\A b \in Batches : batch[b] \in {"ok", "badRequest"} => batch'[b] = batch[b]]_extensionVars
<1> DEFINE Final == \A b \in Batches :
                      batch[b] \in {"ok", "badRequest"} => batch'[b] = batch[b]
<1>1. ServerOK /\ HandsOK /\ [ExtensionNext]_extensionVars => Final
  <2> SUFFICES ASSUME ServerOK, HandsOK, [ExtensionNext]_extensionVars, NEW b \in Batches,
                      batch'[b] # batch[b]
               PROVE  batch[b] \notin {"ok", "badRequest"}
    OBVIOUS
  <2>1. ListenerNext
    BY ServersStep
  <2> QED
    BY <2>1, BatchSteps
<1> HIDE DEF Final
<1>2. ExtensionSpec => [][Final]_extensionVars
  BY <1>1, ExtensionServers, BatchesInHand, PTL DEF ExtensionSpec
<1> QED
  BY <1>2 DEF Final

\* The processor takes the batches in the order in which their tasks asked for its
\* mutex: none overtakes another while both are alive (logs.rs:222-228; tokio's
\* mutex is fair).
THEOREM NobodyOvertakes ==
  ExtensionSpec =>
    [][\A c, d \in Conns :
         Before(c, d) /\ InQueue(conn'[c]) /\ InQueue(conn'[d]) => Before(c, d)']_extensionVars
<1> DEFINE Kept == \A c, d \in Conns :
                     Before(c, d) /\ InQueue(conn'[c]) /\ InQueue(conn'[d]) => Before(c, d)'
<1>1. ServerOK /\ [ExtensionNext]_extensionVars => Kept
  <2> SUFFICES ASSUME ServerOK, [ExtensionNext]_extensionVars,
                      NEW c \in Conns, NEW d \in Conns, Before(c, d),
                      InQueue(conn'[c]), InQueue(conn'[d])
               PROVE  Before(c, d)'
    OBVIOUS
  <2>1. CASE ListenerNext
    BY <2>1, OrderIsKept, ListenerAssumption
  <2>2. CASE lock' = lock
    BY <2>2 DEF Before
  <2> QED
    BY <2>1, <2>2, ServersStep
<1> HIDE DEF Kept
<1>2. ExtensionSpec => [][Kept]_extensionVars
  BY <1>1, ExtensionServers, PTL DEF ExtensionSpec
<1> QED
  BY <1>2 DEF Kept

\* A task that can go on at once: it is not behind another one.
CanMove(c) == \/ conn[c] \in {"reading", "processing", "answering"}
              \/ conn[c] = "locking" /\ lock[To[c]][1] = c

\* While a batch of a subscribed API is not answered, there is somebody to work on
\* it: a listening task to deliver it through, or a task of its API that can move.
Attended(b) ==
  \/ batch[b] \in {"ok", "badRequest"}
  \/ listener[ApiOf[b]] = "dead"
  \/ batch[b] \in {"pending", "lost"} /\ listener[ApiOf[b]] \in {"unbound", "listening"}
  \/ batch[b] = "sent" /\ \E c \in Conns : To[c] = ApiOf[b] /\ CanMove(c)

\* In no state does a batch wait for something that cannot happen, whichever
\* connections broke and processors panicked: this is what the fairness of the
\* scheduler needs to find for `BatchesDelivered` (extension.rs:264-276).
THEOREM NothingIsStuck ==
  ExtensionSpec => [](\A b \in Batches : ApiOf[b] \in subscribed => Attended(b))
<1>1. ASSUME IInv, ServerOK, HandsOK, NEW b \in Batches, ApiOf[b] \in subscribed
      PROVE  Attended(b)
  <2>1. batch[b] \in {"pending", "sent", "ok", "badRequest", "lost"}
    BY <1>1 DEF ServerOK, TypeOK
  <2>2. listener[ApiOf[b]] \in {"unbound", "listening", "dead"}
    BY <1>1, ListenerAssumption DEF ListenerAssumption, IInv, ListenersOK
  <2>3. ASSUME batch[b] = "sent"
        PROVE  \E c \in Conns : To[c] = ApiOf[b] /\ CanMove(c)
    <3>1. PICK c \in Conns \ cut : carried[c] = b
      BY <1>1, <2>3 DEF HandsOK
    <3>2. conn[c] \in Working /\ To[c] = ApiOf[b]
      <4>1. b # NoBatch
        BY ListenerAssumption DEF ListenerAssumption
      <4> QED
        BY <1>1, <3>1, <4>1 DEF HandsOK
    <3>3. CASE conn[c] # "locking"
      BY <3>2, <3>3 DEF CanMove, Working
    <3>4. CASE conn[c] = "locking"
      <4> DEFINE q == lock[To[c]]  h == q[1]
      <4>1. q # <<>> /\ To[Head(q)] = To[c] /\ conn[Head(q)] \in {"locking", "processing"}
        BY <1>1, <3>4, QueueHeadIsThere DEF WaitsForSomebody
      <4>2. q \in Seq(Conns)
        BY <1>1, ListenerAssumption DEF ListenerAssumption, ServerOK, TypeOK
      <4>3. h \in Conns /\ Head(q) = h
        BY <4>1, <4>2
      <4>4. CanMove(h)
        BY <4>1, <4>3 DEF CanMove
      <4> QED
        BY <3>2, <4>1, <4>3, <4>4
    <3> QED
      BY <3>3, <3>4
  <2> QED
    BY <2>1, <2>2, <2>3 DEF Attended
<1>2. IInv /\ ServerOK /\ HandsOK =>
        \A b \in Batches : ApiOf[b] \in subscribed => Attended(b)
  BY <1>1
<1> QED
  BY <1>2, Invariant, ExtensionServers, BatchesInHand, PTL

=============================================================================
