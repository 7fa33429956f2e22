--------------------------- MODULE RuntimeProofs ---------------------------
(***************************************************************************)
(* Proofs about Runtime: the inductive invariant of module RuntimeInv is   *)
(* preserved by every action, and the safety properties follow from it,    *)
(* for any number of attempts, requests and workers, any mix of responses, *)
(* either entry point and either build.                                    *)
(***************************************************************************)
EXTENDS RuntimeInv, TLAPS, FiniteSetTheorems, SequenceTheorems

\* Without concurrency there is one worker.
LEMMA SequentialWorker == ~Concurrent => Workers = {1}
  BY DEF Workers

\* What RAPID may answer with is a response, and a 204 carries no attempt.
LEMMA ShapesOK ==
  /\ Blank \in AllShapes
  /\ BareResponses \subseteq AllShapes
  /\ \A s \in BareResponses : s.intake = "panic"
  /\ Shapes \subseteq AllShapes
  /\ \A s \in Shapes : s.status # "noContent"
<1>1. Blank \in AllShapes
  BY DEF Blank, AllShapes
<1>2. \A st \in {"noContent", "serverError"} :
        Bare(st) \in AllShapes /\ Bare(st).intake = "panic"
  BY DEF Bare, AllShapes
<1>3. QED
  BY <1>1, <1>2, RuntimeAssumption DEF BareResponses

\* What a worker that holds an attempt posts is made for that attempt.
LEMMA SendOK ==
  ASSUME TypeOK, NEW w \in Workers, held[w] \in Attempts,
         NEW post \in {EventCompletionRequest(w), EventErrorRequest(w)},
         Send(w, post)
  PROVE  /\ post \in Posts /\ post.from = held[w]
         /\ post.req = ReqOf[held[w]] /\ post.inv = InvocationId(w)
         /\ net' = net \cup {post}
         /\ \A a \in Attempts : a # held[w] => posts'[a] = posts[a]
         /\ posts'[held[w]] = Append(posts[held[w]], post.kind)
         /\ posts' \in [Attempts -> Seq({"response", "error"})]
<1>1. InvocationId(w) \in Attempts \cup {NoId}
  BY DEF InvocationId
<1>2. ReqOf[held[w]] \in Requests
  BY RuntimeAssumption
<1>3. /\ post \in Posts /\ post.from = held[w] /\ post.req = ReqOf[held[w]]
      /\ post.inv = InvocationId(w) /\ post.kind \in {"response", "error"}
  BY <1>1, <1>2 DEF Posts, EventCompletionRequest, EventErrorRequest
<1>4. Append(posts[held[w]], post.kind) \in Seq({"response", "error"})
  BY <1>3 DEF TypeOK
<1>5. QED
  BY <1>3, <1>4 DEF TypeOK, Send

\* Taking an attempt from /next preserves the invariant.
LEMMA NextEventStep ==
  ASSUME IInv, NEW w \in Workers, NEW a \in Attempts, NextEvent(w, a)
  PROVE  IInv'
<1> USE DEF IInv, TypeOK, vars, mainVars, rapidVars, history
<1>1. /\ pc[w] = "polling" /\ rapid[a] = "queued"
      /\ rapid' = [rapid EXCEPT ![a] = "outstanding"]
      /\ held' = [held EXCEPT ![w] = a]
      /\ taker' = [taker EXCEPT ![a] = w]
      /\ pc' = [pc EXCEPT ![w] = "received"]
      /\ UNCHANGED <<answers, net, reply, result, traceEnv, main, mainVars,
                     posts>>
  BY DEF NextEvent, MayDeliver, Goto
<1>2. PICK s \in Shapes :
        /\ resp' = [resp EXCEPT ![w] = s]
        /\ tagged' = IF s.invId = "ok" THEN tagged \cup {a} ELSE tagged
  BY DEF NextEvent
<1>3. s \in AllShapes /\ s.status # "noContent"
  BY ShapesOK
<1>4. taker[a] = NoWorker /\ a \notin tagged /\ posts[a] = <<>>
  BY <1>1 DEF QueuedOK
<1>5. \A v \in Workers : held[v] # a
  BY <1>1 DEF OwnershipOK
<1> USE <1>1, <1>2, <1>3, <1>4, <1>5
<1>6. TypeOK'
  BY DEF PCs
<1>7. HoldingOK'
  BY DEF HoldingOK
<1>8. OwnershipOK'
  BY DEF OwnershipOK
<1>9. QueuedOK'
  BY DEF QueuedOK
<1>10. PostsOK'
  <2>1. \A p \in Posts : PostOK(p) => PostOK(p)'
    BY DEF PostOK, Posts
  <2>2. QED BY <2>1 DEF PostsOK
<1>11. MainOK'
  BY SequentialWorker DEF MainOK, HoldingOK
<1>12. EnvOK'
  BY DEF EnvOK, amzn_trace_env
<1>13. NoSilentDrop'
  <2> SUFFICES ASSUME NEW b \in Attempts, taker'[b] # NoWorker, posts'[b] = <<>>
               PROVE  held'[taker'[b]] = b \/ pc'[taker'[b]] = "exited"
    BY DEF NoSilentDrop
  <2>1. CASE b = a
    BY <2>1
  <2>2. CASE b # a
    BY <2>2, RuntimeAssumption DEF NoSilentDrop, HoldingOK
  <2>3. QED BY <2>1, <2>2
<1> QED
  BY <1>6, <1>7, <1>8, <1>9, <1>10, <1>11, <1>12, <1>13 DEF IInv

\* So does a response without an attempt,
LEMMA NextBareStep ==
  ASSUME IInv, NEW w \in Workers, NextBare(w)
  PROVE  IInv'
<1> USE DEF IInv, TypeOK, vars, mainVars, rapidVars, history, NextBare, Goto
<1>1. TypeOK'
  BY ShapesOK DEF TypeOK, AllShapes, Posts, PCs
<1>2. HoldingOK'
  BY ShapesOK DEF HoldingOK
<1>3. OwnershipOK'
  BY RuntimeAssumption DEF OwnershipOK, HoldingOK
<1>4. QueuedOK'
  BY DEF QueuedOK, HoldingOK, OwnershipOK
<1>5. PostsOK'
  BY DEF PostsOK, PostOK, HoldingOK, OwnershipOK, QueuedOK
<1>6. MainOK'
  BY SequentialWorker DEF MainOK, HoldingOK
<1>7. EnvOK'
  BY SequentialWorker DEF EnvOK, amzn_trace_env, HoldingOK, OwnershipOK,
      QueuedOK
<1>8. NoSilentDrop'
  BY DEF NoSilentDrop, HoldingOK, OwnershipOK, QueuedOK
<1> QED
  BY <1>1, <1>2, <1>3, <1>4, <1>5, <1>6, <1>7, <1>8 DEF IInv

\* and a failed call of /next, whether or not the loop ends on it.
LEMMA NextErrorStep ==
  ASSUME IInv, NEW w \in Workers, NextError(w)
  PROVE  IInv'
<1> USE DEF IInv, TypeOK, vars, mainVars, rapidVars, history
<1>1. /\ pc[w] = "polling"
      /\ UNCHANGED <<answers, net, reply, traceEnv, mainVars, history>>
  BY DEF NextError
<1>2. /\ rapid' \in [Attempts -> {"queued", "outstanding", "answered", "timedout"}]
      /\ \A a \in Attempts : rapid'[a] = "queued" => rapid[a] = "queued"
      /\ \A a \in Attempts : rapid[a] # "queued" => rapid'[a] # "queued"
  BY DEF NextError, MayDeliver
<1>3. \/ UNCHANGED <<pc, held, resp, result, main>>
      \/ ~Concurrent /\ Exit(w, "err")
  BY DEF NextError
<1>4. held[w] = NoAttempt
  BY <1>1 DEF HoldingOK
<1> USE <1>1, <1>2, <1>3, <1>4 DEF Exit, Goto, Drop
<1>5. TypeOK'
  <2>1. CASE UNCHANGED <<pc, held, resp, result, main>>
    BY <2>1
  <2>2. CASE ~Concurrent /\ Exit(w, "err")
    BY <2>2, ShapesOK DEF PCs
  <2> QED
    BY <2>1, <2>2
<1>6. HoldingOK'
  BY RuntimeAssumption DEF HoldingOK
<1>7. OwnershipOK'
  <2> SUFFICES ASSUME NEW v \in Workers, held'[v] \in Attempts
               PROVE  /\ taker[held'[v]] = v
                      /\ rapid'[held'[v]] # "queued"
                      /\ pc'[v] # "posting" => posts[held'[v]] = <<>>
                      /\ pc'[v] = "posting" => posts[held'[v]] # <<>>
                      /\ resp'[v].status # "noContent"
                      /\ held'[v] \in tagged <=> resp'[v].invId = "ok"
    BY DEF OwnershipOK
  <2>1. v # w
    BY RuntimeAssumption
  <2>2. held'[v] = held[v] /\ pc'[v] = pc[v] /\ resp'[v] = resp[v]
    BY <2>1
  <2>3. QED BY <2>2 DEF OwnershipOK
<1>8. QueuedOK'
  BY DEF QueuedOK
<1>9. PostsOK'
  <2>1. \A p \in Posts : PostOK(p) => PostOK(p)'
    BY DEF PostOK, Posts
  <2>2. QED BY <2>1 DEF PostsOK
<1>10. MainOK'
  BY SequentialWorker DEF MainOK
<1>11. EnvOK'
  BY SequentialWorker DEF EnvOK, amzn_trace_env
<1>12. NoSilentDrop'
  BY RuntimeAssumption DEF NoSilentDrop, OwnershipOK
<1> QED
  BY <1>5, <1>6, <1>7, <1>8, <1>9, <1>10, <1>11, <1>12 DEF IInv

\* The steps of process_invocation.
LEMMA IgnoreNoContentStep ==
  ASSUME IInv, NEW w \in Workers, IgnoreNoContent(w)
  PROVE  IInv'
<1> USE DEF IInv, TypeOK, vars, mainVars, rapidVars, history,
            IgnoreNoContent, Ignorable, Goto, Drop
<1>1. TypeOK'
  BY ShapesOK DEF TypeOK, AllShapes, Posts, PCs
<1>2. HoldingOK'
  BY RuntimeAssumption, ShapesOK DEF HoldingOK
<1>3. OwnershipOK'
  BY RuntimeAssumption, ShapesOK DEF OwnershipOK, HoldingOK
<1>4. QueuedOK'
  BY RuntimeAssumption DEF QueuedOK, HoldingOK, OwnershipOK
<1>5. PostsOK'
  BY RuntimeAssumption DEF PostsOK, PostOK, HoldingOK, OwnershipOK, QueuedOK
<1>6. MainOK'
  BY SequentialWorker DEF MainOK, HoldingOK
<1>7. EnvOK'
  BY SequentialWorker DEF EnvOK, amzn_trace_env, HoldingOK, OwnershipOK,
      QueuedOK
<1>8. NoSilentDrop'
  BY RuntimeAssumption DEF NoSilentDrop, HoldingOK, OwnershipOK, QueuedOK
<1> QED
  BY <1>1, <1>2, <1>3, <1>4, <1>5, <1>6, <1>7, <1>8 DEF IInv

LEMMA IntakeStep ==
  ASSUME IInv, NEW w \in Workers, Intake(w)
  PROVE  IInv'
<1> USE DEF IInv, TypeOK, vars, mainVars, rapidVars, history, Intake, Goto
<1>1. TypeOK'
  BY RuntimeAssumption DEF HoldingOK, amzn_trace_env, TypeOK, AllShapes,
      Posts, PCs
<1>2. HoldingOK'
  BY RuntimeAssumption, ShapesOK DEF HoldingOK
<1>3. OwnershipOK'
  BY RuntimeAssumption, ShapesOK DEF OwnershipOK, HoldingOK
<1>4. QueuedOK'
  BY RuntimeAssumption DEF QueuedOK, HoldingOK, OwnershipOK
<1>5. PostsOK'
  BY RuntimeAssumption DEF PostsOK, PostOK, HoldingOK, OwnershipOK, QueuedOK
<1>6. MainOK'
  BY SequentialWorker DEF MainOK, HoldingOK
<1>7. EnvOK'
  BY SequentialWorker DEF EnvOK, amzn_trace_env, HoldingOK, OwnershipOK,
      QueuedOK
<1>8. NoSilentDrop'
  BY RuntimeAssumption DEF NoSilentDrop, HoldingOK, OwnershipOK, QueuedOK
<1> QED
  BY <1>1, <1>2, <1>3, <1>4, <1>5, <1>6, <1>7, <1>8 DEF IInv

LEMMA IntakeFailsStep ==
  ASSUME IInv, NEW w \in Workers, IntakeFails(w)
  PROVE  IInv'
<1> USE DEF IInv, TypeOK, vars, mainVars, rapidVars, history, IntakeFails,
            Exit, Goto, Drop
<1>1. TypeOK'
  BY ShapesOK DEF TypeOK, AllShapes, Posts, PCs
<1>2. HoldingOK'
  BY RuntimeAssumption DEF HoldingOK, AllShapes
<1>3. OwnershipOK'
  BY RuntimeAssumption, ShapesOK DEF OwnershipOK, HoldingOK
<1>4. QueuedOK'
  BY RuntimeAssumption DEF QueuedOK, HoldingOK, OwnershipOK
<1>5. PostsOK'
  BY RuntimeAssumption DEF PostsOK, PostOK, HoldingOK, OwnershipOK, QueuedOK
<1>6. MainOK'
  BY SequentialWorker DEF MainOK, HoldingOK
<1>7. EnvOK'
  BY SequentialWorker DEF EnvOK, amzn_trace_env, HoldingOK, OwnershipOK,
      QueuedOK
<1>8. NoSilentDrop'
  BY RuntimeAssumption DEF NoSilentDrop, HoldingOK, OwnershipOK, QueuedOK
<1> QED
  BY <1>1, <1>2, <1>3, <1>4, <1>5, <1>6, <1>7, <1>8 DEF IInv

LEMMA ReadyFailsStep ==
  ASSUME IInv, NEW w \in Workers, ReadyFails(w)
  PROVE  IInv'
<1> USE DEF IInv, TypeOK, vars, mainVars, rapidVars, history
<1>1. PICK how \in {"err", "panic"} : Exit(w, how)
  BY DEF ReadyFails
<1>2. /\ pc[w] = "waiting"
      /\ UNCHANGED <<rapidVars, net, reply, traceEnv, mainVars, taker,
                     posts, tagged>>
  BY DEF ReadyFails
<1> USE <1>1, <1>2 DEF Exit, Goto, Drop
<1>3. held[w] \in Attempts
  BY DEF HoldingOK
<1>4. TypeOK'
  BY <1>3, ShapesOK DEF PCs
<1>5. HoldingOK'
  BY RuntimeAssumption DEF HoldingOK
<1>6. OwnershipOK'
  BY RuntimeAssumption DEF OwnershipOK, HoldingOK
<1>7. QueuedOK' /\ PostsOK'
  BY DEF QueuedOK, PostsOK, PostOK
<1>8. MainOK'
  BY SequentialWorker DEF MainOK
<1>9. EnvOK'
  BY SequentialWorker DEF EnvOK
<1>10. NoSilentDrop'
  BY RuntimeAssumption DEF NoSilentDrop, OwnershipOK
<1> QED
  BY <1>4, <1>5, <1>6, <1>7, <1>8, <1>9, <1>10 DEF IInv

LEMMA CallFailsStep ==
  ASSUME IInv, NEW w \in Workers, CallFails(w)
  PROVE  IInv'
<1> USE DEF IInv, TypeOK, vars, mainVars, rapidVars, history, CallFails,
            Exit, Goto, Drop
<1>1. TypeOK'
  BY ShapesOK DEF TypeOK, AllShapes, Posts, PCs
<1>2. HoldingOK'
  BY RuntimeAssumption, ShapesOK DEF HoldingOK
<1>3. OwnershipOK'
  BY RuntimeAssumption, ShapesOK DEF OwnershipOK, HoldingOK
<1>4. QueuedOK'
  BY RuntimeAssumption DEF QueuedOK, HoldingOK, OwnershipOK
<1>5. PostsOK'
  BY RuntimeAssumption DEF PostsOK, PostOK, HoldingOK, OwnershipOK, QueuedOK
<1>6. MainOK'
  BY SequentialWorker DEF MainOK, HoldingOK
<1>7. EnvOK'
  BY SequentialWorker DEF EnvOK, amzn_trace_env, HoldingOK, OwnershipOK,
      QueuedOK
<1>8. NoSilentDrop'
  BY RuntimeAssumption DEF NoSilentDrop, HoldingOK, OwnershipOK, QueuedOK
<1> QED
  BY <1>1, <1>2, <1>3, <1>4, <1>5, <1>6, <1>7, <1>8 DEF IInv

LEMMA CallHandlerStep ==
  ASSUME IInv, NEW w \in Workers, CallHandler(w)
  PROVE  IInv'
<1> USE DEF IInv, TypeOK, vars, mainVars, rapidVars, history, CallHandler,
            Goto
<1>1. TypeOK'
  BY ShapesOK DEF TypeOK, AllShapes, Posts, PCs
<1>2. HoldingOK'
  BY RuntimeAssumption, ShapesOK DEF HoldingOK
<1>3. OwnershipOK'
  BY RuntimeAssumption, ShapesOK DEF OwnershipOK, HoldingOK
<1>4. QueuedOK'
  BY RuntimeAssumption DEF QueuedOK, HoldingOK, OwnershipOK
<1>5. PostsOK'
  BY RuntimeAssumption DEF PostsOK, PostOK, HoldingOK, OwnershipOK, QueuedOK
<1>6. MainOK'
  BY SequentialWorker DEF MainOK, HoldingOK
<1>7. EnvOK'
  BY SequentialWorker DEF EnvOK, amzn_trace_env, HoldingOK, OwnershipOK,
      QueuedOK
<1>8. NoSilentDrop'
  BY RuntimeAssumption DEF NoSilentDrop, HoldingOK, OwnershipOK, QueuedOK
<1> QED
  BY <1>1, <1>2, <1>3, <1>4, <1>5, <1>6, <1>7, <1>8 DEF IInv

LEMMA ReportFailsStep ==
  ASSUME IInv, NEW w \in Workers, ReportFails(w)
  PROVE  IInv'
<1> USE DEF IInv, TypeOK, vars, mainVars, rapidVars, history, ReportFails,
            Exit, Goto, Drop
<1>1. TypeOK'
  BY ShapesOK DEF TypeOK, AllShapes, Posts, PCs
<1>2. HoldingOK'
  BY RuntimeAssumption, ShapesOK DEF HoldingOK
<1>3. OwnershipOK'
  BY RuntimeAssumption, ShapesOK DEF OwnershipOK, HoldingOK
<1>4. QueuedOK'
  BY RuntimeAssumption DEF QueuedOK, HoldingOK, OwnershipOK
<1>5. PostsOK'
  BY RuntimeAssumption DEF PostsOK, PostOK, HoldingOK, OwnershipOK, QueuedOK
<1>6. MainOK'
  BY SequentialWorker DEF MainOK, HoldingOK
<1>7. EnvOK'
  BY SequentialWorker DEF EnvOK, amzn_trace_env, HoldingOK, OwnershipOK,
      QueuedOK
<1>8. NoSilentDrop'
  BY RuntimeAssumption DEF NoSilentDrop, HoldingOK, OwnershipOK, QueuedOK
<1> QED
  BY <1>1, <1>2, <1>3, <1>4, <1>5, <1>6, <1>7, <1>8 DEF IInv

LEMMA BuildFailsStep ==
  ASSUME IInv, NEW w \in Workers, BuildFails(w)
  PROVE  IInv'
<1> USE DEF IInv, TypeOK, vars, mainVars, rapidVars, history, BuildFails,
            Exit, Goto, Drop
<1>1. TypeOK'
  BY ShapesOK DEF TypeOK, AllShapes, Posts, PCs
<1>2. HoldingOK'
  BY RuntimeAssumption, ShapesOK DEF HoldingOK
<1>3. OwnershipOK'
  BY RuntimeAssumption, ShapesOK DEF OwnershipOK, HoldingOK
<1>4. QueuedOK'
  BY RuntimeAssumption DEF QueuedOK, HoldingOK, OwnershipOK
<1>5. PostsOK'
  BY RuntimeAssumption DEF PostsOK, PostOK, HoldingOK, OwnershipOK, QueuedOK
<1>6. MainOK'
  BY SequentialWorker DEF MainOK, HoldingOK
<1>7. EnvOK'
  BY SequentialWorker DEF EnvOK, amzn_trace_env, HoldingOK, OwnershipOK,
      QueuedOK
<1>8. NoSilentDrop'
  BY RuntimeAssumption DEF NoSilentDrop, HoldingOK, OwnershipOK, QueuedOK
<1> QED
  BY <1>1, <1>2, <1>3, <1>4, <1>5, <1>6, <1>7, <1>8 DEF IInv

LEMMA PostReplyStep ==
  ASSUME IInv, NEW w \in Workers, PostReply(w)
  PROVE  IInv'
<1> USE DEF IInv, TypeOK, vars, mainVars, rapidVars, history, PostReply,
            Goto, Drop
<1>1. TypeOK'
  BY ShapesOK DEF TypeOK, AllShapes, Posts, PCs
<1>2. HoldingOK'
  BY RuntimeAssumption, ShapesOK DEF HoldingOK
<1>3. OwnershipOK'
  BY RuntimeAssumption, ShapesOK DEF OwnershipOK, HoldingOK
<1>4. QueuedOK'
  BY RuntimeAssumption DEF QueuedOK, HoldingOK, OwnershipOK
<1>5. PostsOK'
  BY RuntimeAssumption DEF PostsOK, PostOK, HoldingOK, OwnershipOK, QueuedOK
<1>6. MainOK'
  BY SequentialWorker DEF MainOK, HoldingOK
<1>7. EnvOK'
  BY SequentialWorker DEF EnvOK, amzn_trace_env, HoldingOK, OwnershipOK,
      QueuedOK
<1>8. NoSilentDrop'
  BY RuntimeAssumption DEF NoSilentDrop, HoldingOK, OwnershipOK, QueuedOK
<1> QED
  BY <1>1, <1>2, <1>3, <1>4, <1>5, <1>6, <1>7, <1>8 DEF IInv

LEMMA PostFailsStep ==
  ASSUME IInv, NEW w \in Workers, PostFails(w)
  PROVE  IInv'
<1> USE DEF IInv, TypeOK, vars, mainVars, rapidVars, history, PostFails,
            Exit, Goto, Drop
<1>1. TypeOK'
  BY ShapesOK DEF TypeOK, AllShapes, Posts, PCs
<1>2. HoldingOK'
  BY RuntimeAssumption, ShapesOK DEF HoldingOK
<1>3. OwnershipOK'
  BY RuntimeAssumption, ShapesOK DEF OwnershipOK, HoldingOK
<1>4. QueuedOK'
  BY RuntimeAssumption DEF QueuedOK, HoldingOK, OwnershipOK
<1>5. PostsOK'
  BY RuntimeAssumption DEF PostsOK, PostOK, HoldingOK, OwnershipOK, QueuedOK
<1>6. MainOK'
  BY SequentialWorker DEF MainOK, HoldingOK
<1>7. EnvOK'
  BY SequentialWorker DEF EnvOK, amzn_trace_env, HoldingOK, OwnershipOK,
      QueuedOK
<1>8. NoSilentDrop'
  BY RuntimeAssumption DEF NoSilentDrop, HoldingOK, OwnershipOK, QueuedOK
<1> QED
  BY <1>1, <1>2, <1>3, <1>4, <1>5, <1>6, <1>7, <1>8 DEF IInv


\* Building a post and handing it to the client, common to the next two.
LEMMA SendStep ==
  ASSUME IInv, NEW w \in Workers, pc[w] \in {"waiting", "handling"},
         NEW post \in {EventCompletionRequest(w), EventErrorRequest(w)},
         Send(w, post),
         UNCHANGED <<rapidVars, reply, held, resp, result, traceEnv, main,
                     mainVars, taker, tagged>>
  PROVE  IInv'
<1> USE DEF IInv, TypeOK, vars, mainVars, rapidVars, history
<1>1. held[w] \in Attempts
  BY DEF HoldingOK
<1>2. /\ post \in Posts /\ post.from = held[w]
      /\ post.req = ReqOf[held[w]] /\ post.inv = InvocationId(w)
      /\ net' = net \cup {post}
      /\ \A a \in Attempts : a # held[w] => posts'[a] = posts[a]
      /\ posts'[held[w]] = Append(posts[held[w]], post.kind)
      /\ posts' \in [Attempts -> Seq({"response", "error"})]
  BY <1>1, SendOK
<1>3. pc' = [pc EXCEPT ![w] = "posting"]
  BY DEF Send, Goto
<1>4. posts[held[w]] = <<>> /\ taker[held[w]] = w
  BY <1>1 DEF OwnershipOK
<1>5. Len(posts'[held[w]]) = 1 /\ posts'[held[w]] # <<>>
  BY <1>1, <1>2, <1>4
<1>6. w # NoWorker
  BY RuntimeAssumption DEF Workers, concurrency_limit, max_concurrency_from_env
<1>7. TypeOK'
  BY <1>1, <1>2, <1>3 DEF PCs
<1>8. HoldingOK'
  BY <1>1, <1>3 DEF HoldingOK
<1>9. OwnershipOK'
  <2> SUFFICES ASSUME NEW v \in Workers, held[v] \in Attempts
               PROVE  /\ taker[held[v]] = v
                      /\ rapid[held[v]] # "queued"
                      /\ pc'[v] # "posting" => posts'[held[v]] = <<>>
                      /\ pc'[v] = "posting" => posts'[held[v]] # <<>>
                      /\ resp[v].status # "noContent"
                      /\ held[v] \in tagged <=> resp[v].invId = "ok"
    BY DEF OwnershipOK
  <2>1. CASE v = w
    BY <2>1, <1>1, <1>3, <1>4, <1>5 DEF OwnershipOK
  <2>2. CASE v # w
    BY <2>2, <1>1, <1>2, <1>3, <1>4 DEF OwnershipOK
  <2>3. QED BY <2>1, <2>2
<1>10. QueuedOK'
  <2> SUFFICES ASSUME NEW a \in Attempts
               PROVE  /\ rapid'[a] = "queued" => taker'[a] = NoWorker /\ a \notin tagged'
                      /\ taker'[a] = NoWorker => posts'[a] = <<>>
                      /\ Len(posts'[a]) <= 1
    BY DEF QueuedOK
  <2>1. CASE a = held[w]
    BY <2>1, <1>1, <1>4, <1>5, <1>6 DEF OwnershipOK
  <2>2. CASE a # held[w]
    BY <2>2, <1>2 DEF QueuedOK
  <2>3. QED BY <2>1, <2>2
<1>11. PostsOK'
  <2>1. PostOK(post)
    BY <1>1, <1>2 DEF PostOK, OwnershipOK, InvocationId
  <2>2. QED BY <2>1, <1>2 DEF PostsOK, PostOK
<1>12. MainOK'
  BY <1>3, SequentialWorker DEF MainOK
<1>13. EnvOK'
  BY <1>3 DEF EnvOK, amzn_trace_env
<1>14. NoSilentDrop'
  BY <1>1, <1>2, <1>3, <1>4, <1>5 DEF NoSilentDrop
<1> QED
  BY <1>7, <1>8, <1>9, <1>10, <1>11, <1>12, <1>13, <1>14 DEF IInv

LEMMA DeserializeFailsStep ==
  ASSUME IInv, NEW w \in Workers, DeserializeFails(w)
  PROVE  IInv'
<1> USE DEF IInv, TypeOK, vars, mainVars, rapidVars, history
<1>1. /\ pc[w] = "waiting"
      /\ UNCHANGED <<rapidVars, reply, held, resp, result, traceEnv, main, mainVars,
                     taker, tagged>>
  BY DEF DeserializeFails
<1>2. PICK post \in {EventCompletionRequest(w), EventErrorRequest(w)} :
        Send(w, post)
  BY DEF DeserializeFails
<1>3. held[w] \in Attempts
  BY <1>1 DEF HoldingOK
<1> HIDE DEF IInv
<1> QED
  BY <1>1, <1>2, <1>3, SendStep

LEMMA HandlerReturnsStep ==
  ASSUME IInv, NEW w \in Workers, HandlerReturns(w)
  PROVE  IInv'
<1> USE DEF IInv, TypeOK, vars, mainVars, rapidVars, history
<1>1. /\ pc[w] = "handling"
      /\ UNCHANGED <<rapidVars, reply, held, resp, result, traceEnv, main, mainVars,
                     taker, tagged>>
  BY DEF HandlerReturns
<1>2. PICK post \in {EventCompletionRequest(w), EventErrorRequest(w)} :
        Send(w, post)
  BY DEF HandlerReturns
<1>3. held[w] \in Attempts
  BY <1>1 DEF HoldingOK
<1> HIDE DEF IInv
<1> QED
  BY <1>1, <1>2, <1>3, SendStep

\* The main task.
LEMMA JoinNextStep ==
  ASSUME IInv, NEW w \in Workers, JoinNext(w)
  PROVE  IInv'
<1> USE DEF IInv, TypeOK, vars, mainVars, rapidVars, history, JoinNext
<1>1. result[w] \in {"err", "panic"}
  BY DEF HoldingOK
<1>2. errors' \in Seq([worker : Workers, how : {"err", "panic"}])
  <2>1. [worker |-> w, how |-> result[w]] \in [worker : Workers, how : {"err", "panic"}]
    BY <1>1
  <2>2. QED BY <2>1
<1>3. remaining' \in Nat
  OBVIOUS
<1>4. TypeOK'
  BY <1>2, <1>3
<1>5. HoldingOK' /\ OwnershipOK' /\ QueuedOK' /\ PostsOK' /\ NoSilentDrop'
  BY DEF HoldingOK, OwnershipOK, QueuedOK, PostsOK, PostOK, NoSilentDrop
<1>6. MainOK' /\ EnvOK'
  BY DEF MainOK, EnvOK, amzn_trace_env
<1> QED
  BY <1>4, <1>5, <1>6 DEF IInv

LEMMA MainReturnsStep ==
  ASSUME IInv, MainReturns
  PROVE  IInv'
<1> USE DEF IInv, TypeOK, vars, mainVars, rapidVars, history, MainReturns
<1>1. TypeOK'
  BY DEF TypeOK, AllShapes, Posts, PCs
<1>2. HoldingOK'
  BY DEF HoldingOK
<1>3. OwnershipOK'
  BY DEF OwnershipOK, HoldingOK
<1>4. QueuedOK'
  BY DEF QueuedOK, HoldingOK, OwnershipOK
<1>5. PostsOK'
  BY DEF PostsOK, PostOK, HoldingOK, OwnershipOK, QueuedOK
<1>6. MainOK'
  BY DEF MainOK, HoldingOK
<1>7. EnvOK'
  BY DEF EnvOK, amzn_trace_env, HoldingOK, OwnershipOK, QueuedOK
<1>8. NoSilentDrop'
  BY DEF NoSilentDrop, HoldingOK, OwnershipOK, QueuedOK
<1> QED
  BY <1>1, <1>2, <1>3, <1>4, <1>5, <1>6, <1>7, <1>8 DEF IInv

\* RAPID.
LEMMA RapidHandlesStep ==
  ASSUME IInv, NEW p \in net, RapidHandles(p)
  PROVE  IInv'
<1> USE DEF IInv, TypeOK, vars, mainVars, rapidVars, history
<1>1. /\ net' = net \ {p}
      /\ UNCHANGED <<pc, held, resp, result, traceEnv, main, mainVars, history>>
  BY DEF RapidHandles
<1>2. p \in Posts /\ p.worker \in Workers /\ PostOK(p)
  BY DEF Posts, PostsOK
<1>3. reply' \in [Workers -> {"none", "success", "rejected"}]
  <2>1. \/ reply' = reply
        \/ reply' = [reply EXCEPT ![p.worker] = "success"]
        \/ reply' = [reply EXCEPT ![p.worker] = "rejected"]
    BY DEF RapidHandles
  <2> QED
    BY <1>2, <2>1
<1>4. \/ UNCHANGED rapidVars
      \/ \E a \in Attempts : /\ ReqOf[a] = p.req /\ p.inv \in {a, NoId}
                             /\ rapid[a] = "outstanding"
                             /\ rapid' = [rapid EXCEPT ![a] = "answered"]
                             /\ answers' = answers \cup {[to |-> a, post |-> p]}
  BY DEF RapidHandles, Matches
<1>5. /\ rapid' \in [Attempts -> {"queued", "outstanding", "answered", "timedout"}]
      /\ \A a \in Attempts : rapid'[a] = "queued" <=> rapid[a] = "queued"
  BY <1>4
<1>6. answers' \subseteq [to : Attempts, post : Posts]
  BY <1>2, <1>4
<1>7. TypeOK'
  BY <1>1, <1>3, <1>5, <1>6
<1>8. HoldingOK' /\ OwnershipOK' /\ QueuedOK' /\ NoSilentDrop'
  BY <1>1, <1>5 DEF HoldingOK, OwnershipOK, QueuedOK, NoSilentDrop
<1>9. PostsOK'
  <2>1. \A q \in Posts : PostOK(q) => PostOK(q)'
    BY <1>1, <1>5 DEF PostOK, Posts
  <2>2. \A q \in net' : PostOK(q)'
    BY <2>1, <1>1 DEF PostsOK
  <2>3. \A x \in answers' : /\ PostOK(x.post)
                             /\ ReqOf[x.to] = x.post.req
                             /\ x.post.inv \in {x.to, NoId}
    BY <1>2, <1>4 DEF PostsOK
  <2>4. \A x \in answers' : x.post \in Posts
    BY <1>6
  <2>5. QED BY <2>1, <2>2, <2>3, <2>4 DEF PostsOK
<1>10. MainOK' /\ EnvOK'
  BY <1>1 DEF MainOK, EnvOK, amzn_trace_env
<1> QED
  BY <1>7, <1>8, <1>9, <1>10 DEF IInv

LEMMA RapidTimeoutStep ==
  ASSUME IInv, NEW a \in Attempts, RapidTimeout(a)
  PROVE  IInv'
<1> USE DEF IInv, TypeOK, vars, mainVars, rapidVars, history, RapidTimeout
<1>1. TypeOK'
  BY DEF TypeOK, AllShapes, Posts, PCs
<1>2. HoldingOK'
  BY DEF HoldingOK
<1>3. OwnershipOK'
  BY DEF OwnershipOK, HoldingOK
<1>4. QueuedOK'
  BY DEF QueuedOK, HoldingOK, OwnershipOK
<1>5. PostsOK'
  BY DEF PostsOK, PostOK, HoldingOK, OwnershipOK, QueuedOK
<1>6. MainOK'
  BY DEF MainOK, HoldingOK
<1>7. EnvOK'
  BY DEF EnvOK, amzn_trace_env, HoldingOK, OwnershipOK, QueuedOK
<1>8. NoSilentDrop'
  BY DEF NoSilentDrop, HoldingOK, OwnershipOK, QueuedOK
<1> QED
  BY <1>1, <1>2, <1>3, <1>4, <1>5, <1>6, <1>7, <1>8 DEF IInv

-----------------------------------------------------------------------------
\* The runtime starts in the invariant.
LEMMA InitIInv == Init => IInv
<1> SUFFICES ASSUME Init PROVE IInv
  OBVIOUS
<1> USE RuntimeAssumption DEF Init
<1>1. concurrency_limit \in Nat
  BY DEF concurrency_limit, max_concurrency_from_env
<1>2. TypeOK
  BY <1>1, ShapesOK DEF TypeOK, PCs
<1>3. HoldingOK /\ OwnershipOK /\ QueuedOK /\ PostsOK
  BY DEF HoldingOK, OwnershipOK, QueuedOK, PostsOK
<1>4. MainOK /\ EnvOK /\ NoSilentDrop
  BY DEF MainOK, EnvOK, NoSilentDrop
<1> QED
  BY <1>2, <1>3, <1>4 DEF IInv

\* Every step preserves it: one case per action.
LEMMA NextIInv == IInv /\ [Next]_vars => IInv'
<1> SUFFICES ASSUME IInv, [Next]_vars PROVE IInv'
  OBVIOUS
<1>1. ASSUME NEW w \in Workers, Poll(w) PROVE IInv'
  BY <1>1, NextEventStep, NextBareStep, NextErrorStep DEF Poll
<1>2. ASSUME NEW w \in Workers, Proceed(w) PROVE IInv'
  BY <1>2, IgnoreNoContentStep, IntakeStep, IntakeFailsStep, ReadyFailsStep,
     CallFailsStep, DeserializeFailsStep, CallHandlerStep, HandlerReturnsStep,
     ReportFailsStep, BuildFailsStep, PostReplyStep, PostFailsStep DEF Proceed
<1>3. ASSUME NEW w \in Workers, JoinNext(w) PROVE IInv'
  BY <1>3, JoinNextStep
<1>4. CASE MainReturns
  BY <1>4, MainReturnsStep
<1>5. CASE Rapid
  BY <1>5, RapidHandlesStep, RapidTimeoutStep DEF Rapid
<1>6. CASE UNCHANGED vars
  BY <1>6 DEF vars, rapidVars, mainVars, history, IInv, TypeOK, HoldingOK,
     OwnershipOK, QueuedOK, PostsOK, PostOK, MainOK, EnvOK, amzn_trace_env,
     NoSilentDrop
<1> QED
  BY <1>1, <1>2, <1>3, <1>4, <1>5, <1>6 DEF Next, Finished

LEMMA Invariance == Safety => []IInv
  BY InitIInv, NextIInv, PTL DEF Safety

\* Every variable keeps its type.
THEOREM TypeCorrect == Safety => []TypeOK
<1>1. IInv => TypeOK
  BY DEF IInv
<1> QED
  BY <1>1, Invariance, PTL

\* Cross-wiring protection: RAPID never takes an answer for another request
\* than the one it was made for, nor, if the attempt came with a readable
\* invocation id, for another attempt of that request (api_response.rs:131-150).
THEOREM CrossWiring == Safety => []NoCrossWiring
<1>1. IInv => NoCrossWiring
  <2> SUFFICES ASSUME IInv, NEW x \in answers
               PROVE  /\ ReqOf[x.to] = ReqOf[x.post.from]
                      /\ x.post.from \in tagged => x.to = x.post.from
    BY DEF NoCrossWiring
  <2>1. x.post.from \in Attempts
    BY DEF IInv, TypeOK, Posts
  <2> QED
    BY <2>1, RuntimeAssumption DEF IInv, PostsOK, PostOK
<1> QED
  BY <1>1, Invariance, PTL

\* At most one answer is posted for an attempt, and only for one that a
\* worker took: no failure makes the runtime repeat a post.
THEOREM AtMostOnePost == Safety => []PostedOnce
<1>1. IInv => PostedOnce
  BY DEF IInv, QueuedOK, PostedOnce
<1> QED
  BY <1>1, Invariance, PTL

\* A worker that lives on has answered everything it took but the attempt it
\* still holds.
THEOREM NothingDropped == Safety => []NoSilentDrop
<1>1. IInv => NoSilentDrop
  BY DEF IInv
<1> QED
  BY <1>1, Invariance, PTL

\* A sequential handler sees the trace id of its own invocation in the
\* environment, and concurrent workers leave the environment alone.
THEOREM TraceEnvCorrect == Safety => []TraceEnvMatches
<1>1. IInv => TraceEnvMatches
  BY DEF IInv, EnvOK, TraceEnvMatches, amzn_trace_env
<1> QED
  BY <1>1, Invariance, PTL

-----------------------------------------------------------------------------
(* What the main task is told.                                             *)

\* A worker's step leaves alone how others ended and, if workers run
\* concurrently, the main task.
LEMMA WorkerSteps ==
  ASSUME IInv, NEW w \in Workers, Poll(w) \/ Proceed(w)
  PROVE  /\ UNCHANGED mainVars
         /\ Concurrent => main' = main
         /\ pc[w] # "exited"
         /\ \A v \in Workers : pc[v] = "exited" => result'[v] = result[v]
<1> USE DEF Exit, Drop, Goto, Send, mainVars, history, rapidVars
<1>1. result \in [Workers -> {"none", "err", "panic"}]
  BY DEF IInv, TypeOK
<1>2. CASE Poll(w)
  <2>1. ASSUME NEW a \in Attempts, NextEvent(w, a)
        PROVE  UNCHANGED <<mainVars, main, result>> /\ pc[w] = "polling"
    BY <2>1 DEF NextEvent
  <2>2. CASE NextBare(w)
    BY <2>2 DEF NextBare
  <2>3. CASE NextError(w)
    BY <1>1, <2>3 DEF NextError
  <2> QED  BY <1>2, <2>1, <2>2, <2>3 DEF Poll
<1>3. CASE IgnoreNoContent(w) \/ Intake(w) \/ CallHandler(w) \/ PostReply(w)
             \/ DeserializeFails(w) \/ HandlerReturns(w)
  BY <1>3 DEF IgnoreNoContent, Intake, CallHandler, PostReply, DeserializeFails,
              HandlerReturns
<1>4. CASE IntakeFails(w) \/ ReadyFails(w) \/ CallFails(w)
  BY <1>1, <1>4 DEF IntakeFails, ReadyFails, CallFails
<1>5. CASE ReportFails(w) \/ BuildFails(w) \/ PostFails(w)
  BY <1>1, <1>5 DEF ReportFails, BuildFails, PostFails
<1> QED  BY <1>2, <1>3, <1>4, <1>5 DEF Proceed

\* Every step keeps the main task's books.
LEMMA JoinsKept == IInv /\ JoinsOK /\ [Next]_vars => JoinsOK'
<1> SUFFICES ASSUME IInv, JoinsOK, [Next]_vars, Concurrent  PROVE JoinsOK'
  BY DEF JoinsOK, Concurrent
<1>1. /\ result \in [Workers -> {"none", "err", "panic"}]
      /\ joined \subseteq Workers /\ remaining \in Nat
      /\ errors \in Seq([worker : Workers, how : {"err", "panic"}])
      /\ \A v \in joined : pc[v] = "exited"
      /\ \A v \in Workers : pc[v] = "exited" => result[v] \in {"err", "panic"}
  BY DEF IInv, TypeOK, MainOK, HoldingOK
<1>2. IsFiniteSet(Workers) /\ Cardinality(Workers) \in Nat /\ Cardinality(Workers) > 1
  <2>1. concurrency_limit \in Nat /\ concurrency_limit > 1 /\ Workers = 1..concurrency_limit
    BY RuntimeAssumption DEF Concurrent, concurrency_limit, max_concurrency_from_env, Workers
  <2>2. /\ IsFiniteSet(1..concurrency_limit)
        /\ Cardinality(1..concurrency_limit) = concurrency_limit
    BY <2>1, FS_Interval, SMT
  <2> QED  BY <2>1, <2>2
<1>3. IsFiniteSet(joined) /\ Cardinality(joined) \in Nat
  BY <1>1, <1>2, FS_Subset, FS_CardinalityType
<1>4. CASE UNCHANGED <<mainVars, main>> /\ \A v \in joined : result'[v] = result[v]
  BY <1>4 DEF JoinsOK, mainVars
<1>5. ASSUME NEW w \in Workers, Poll(w) \/ Proceed(w)  PROVE JoinsOK'
  BY <1>1, <1>4, <1>5, WorkerSteps
<1>6. ASSUME NEW w \in Workers, JoinNext(w)  PROVE JoinsOK'
  <2>1. /\ pc[w] = "exited" /\ w \notin joined /\ joined' = joined \cup {w}
        /\ remaining' = (IF remaining = 0 THEN 0 ELSE remaining - 1)
        /\ errors' = Append(errors, [worker |-> w, how |-> result[w]])
        /\ result' = result /\ main' = main
    BY <1>6 DEF JoinNext
  <2>2. Cardinality(joined') = Cardinality(joined) + 1
    BY <1>3, <2>1, FS_AddElement
  <2>3. Cardinality(joined') <= Cardinality(Workers)
    BY <1>1, <1>2, <2>1, FS_Subset
  <2>4. remaining' + Cardinality(joined') = Cardinality(Workers)
    BY <1>1, <1>2, <1>3, <2>1, <2>2, <2>3, SMT DEF JoinsOK
  <2>5. [worker |-> w, how |-> result[w]] \in [worker : Workers, how : {"err", "panic"}]
    BY <1>1, <2>1
  <2>6. /\ Len(errors') = Len(errors) + 1
        /\ errors'[Len(errors) + 1] = [worker |-> w, how |-> result[w]]
        /\ \A i \in 1..Len(errors) : errors'[i] = errors[i]
        /\ Len(errors) \in Nat
    BY <1>1, <2>1, <2>5, AppendProperties, LenProperties
  <2>7. Len(errors') = Cardinality(joined')
    BY <2>2, <2>6 DEF JoinsOK
  <2>8. ASSUME NEW v \in joined'
        PROVE  \E i \in 1..Len(errors') : errors'[i] = [worker |-> v, how |-> result'[v]]
    <3>1. CASE v = w
      BY <2>1, <2>6, <3>1
    <3>2. CASE v \in joined
      <4>1. PICK i \in 1..Len(errors) : errors[i] = [worker |-> v, how |-> result[v]]
        BY <3>2 DEF JoinsOK
      <4> QED  BY <2>1, <2>6, <4>1
    <3> QED  BY <2>1, <3>1, <3>2
  <2> QED  BY <2>1, <2>4, <2>7, <2>8 DEF JoinsOK
<1>7. CASE MainReturns
  <2>1. joined = Workers /\ main' = (IF errors = <<>> THEN "ok" ELSE "err")
        /\ UNCHANGED <<mainVars, result>>
    BY <1>7 DEF MainReturns
  <2>2. errors # <<>>
    BY <1>1, <1>2, <2>1, EmptySeq DEF JoinsOK
  <2> QED  BY <2>1, <2>2 DEF JoinsOK, mainVars
<1>8. CASE Rapid
  BY <1>4, <1>8 DEF Rapid, RapidHandles, RapidTimeout
<1>9. CASE UNCHANGED vars
  BY <1>4, <1>9 DEF vars
<1> QED  BY <1>5, <1>6, <1>7, <1>8, <1>9 DEF Next, Finished

\* The main task's books are in order when no worker has ended.
LEMMA InitJoins == Init => JoinsOK
<1>1. ASSUME Concurrent
      PROVE  concurrency_limit \in Nat /\ Cardinality(Workers) = concurrency_limit
  <2>1. concurrency_limit \in Nat /\ Workers = 1..concurrency_limit
    BY <1>1, RuntimeAssumption DEF Concurrent, concurrency_limit, max_concurrency_from_env,
                                   Workers
  <2> QED  BY <2>1, FS_Interval, SMT
<1>2. Cardinality({}) = 0 /\ Len(<<>>) = 0
  BY FS_EmptySet, EmptySeq
<1> QED  BY <1>1, <1>2, SMT DEF Init, JoinsOK

\* run_concurrent returns after all its workers, with an error that lists each
\* of them once, with the way it ended.
THEOREM ReturnsLast == Safety => []ReturnsAfterAllWorkers
<1>1. Init => JoinsOK
  BY InitJoins
<1>2. IInv /\ JoinsOK => ReturnsAfterAllWorkers
  <2> SUFFICES ASSUME IInv, JoinsOK, Concurrent, main # "running"
               PROVE  /\ \A w \in Workers : pc[w] = "exited"
                      /\ main = "err" /\ remaining = 0 /\ Len(errors) = Cardinality(Workers)
                      /\ \A w \in Workers : \E i \in 1..Len(errors) :
                           errors[i] = [worker |-> w, how |-> result[w]]
    BY DEF ReturnsAfterAllWorkers
  <2>1. joined = Workers /\ \A w \in Workers : pc[w] = "exited"
    BY DEF IInv, MainOK
  <2>2. Len(errors) \in Nat /\ remaining \in Nat
    BY LenProperties DEF IInv, TypeOK
  <2> QED  BY <2>1, <2>2 DEF JoinsOK
<1> QED  BY <1>1, <1>2, JoinsKept, Invariance, PTL DEF Safety

-----------------------------------------------------------------------------
(* What RAPID makes of the posts.                                          *)

\* RAPID waits for one attempt of a request at a time, an accepted post is the
\* only one of its attempt, and a post under way names its attempt or none.
AnswerOK ==
  /\ \A a, b \in Attempts :
       rapid[a] = "outstanding" /\ rapid[b] = "outstanding" /\ ReqOf[a] = ReqOf[b]
         => a = b
  /\ \A x \in answers : rapid[x.to] = "answered"
  /\ \A x, y \in answers : x.to = y.to => x = y
  /\ \A p \in net : p.inv \in {p.from, NoId}

\* A post that is under way or was accepted is what the runtime posted for its
\* attempt, and is at one place.
OnePlaceOK ==
  /\ \A p \in net : posts[p.from] = <<p.kind>>
  /\ \A x \in answers : posts[x.post.from] = <<x.post.kind>>
  /\ \A p \in net, x \in answers : p.from # x.post.from
  /\ \A p, q \in net : p.from = q.from => p = q
  /\ \A x, y \in answers : x.post.from = y.post.from => x = y

\* Every step keeps what RAPID made of the posts.
LEMMA AnswerKept == IInv /\ AnswerOK /\ [Next]_vars => AnswerOK'
<1> SUFFICES ASSUME IInv, AnswerOK, [Next]_vars  PROVE AnswerOK'
  OBVIOUS
<1>1. /\ rapid \in [Attempts -> {"queued", "outstanding", "answered", "timedout"}]
      /\ \A x \in answers : x.to \in Attempts
  BY DEF IInv, TypeOK
<1>2. ASSUME NEW a \in Attempts, MayDeliver(a),
             rapid' = [rapid EXCEPT ![a] = "outstanding"], UNCHANGED <<answers, net>>
      PROVE  AnswerOK'
  <2>1. \A b, c \in Attempts :
          rapid'[b] = "outstanding" /\ rapid'[c] = "outstanding" /\ ReqOf[b] = ReqOf[c]
            => b = c
    BY <1>1, <1>2 DEF AnswerOK, MayDeliver
  <2>2. \A x \in answers : rapid'[x.to] = "answered"
    BY <1>1, <1>2 DEF AnswerOK, MayDeliver
  <2> QED  BY <1>2, <2>1, <2>2 DEF AnswerOK
<1>3. CASE UNCHANGED rapidVars /\ net' \subseteq net
  BY <1>3 DEF AnswerOK, rapidVars
<1>4. ASSUME NEW w \in Workers, Poll(w)  PROVE AnswerOK'
  <2>1. ASSUME NEW a \in Attempts, NextEvent(w, a)  PROVE AnswerOK'
    BY <1>2, <2>1 DEF NextEvent
  <2>2. CASE NextBare(w)
    BY <1>3, <2>2 DEF NextBare
  <2>3. CASE NextError(w)
    BY <1>2, <1>3, <2>3 DEF NextError, rapidVars
  <2> QED  BY <1>4, <2>1, <2>2, <2>3 DEF Poll
<1>5. ASSUME NEW w \in Workers,
             IgnoreNoContent(w) \/ Intake(w) \/ IntakeFails(w) \/ ReadyFails(w)
               \/ CallFails(w) \/ CallHandler(w) \/ ReportFails(w) \/ BuildFails(w) \/ PostReply(w)
      PROVE  AnswerOK'
  BY <1>3, <1>5 DEF IgnoreNoContent, Intake, IntakeFails, ReadyFails, CallFails,
                    CallHandler, ReportFails, BuildFails, PostReply
<1>6. ASSUME NEW w \in Workers, PostFails(w)  PROVE AnswerOK'
  BY <1>3, <1>6 DEF PostFails
<1>7. ASSUME NEW w \in Workers, DeserializeFails(w) \/ HandlerReturns(w)
      PROVE  AnswerOK'
  <2>1. \E post \in {EventCompletionRequest(w), EventErrorRequest(w)} :
          net' = net \cup {post}
    BY <1>7 DEF DeserializeFails, HandlerReturns, Send
  <2>2. \A post \in {EventCompletionRequest(w), EventErrorRequest(w)} :
          post.inv \in {post.from, NoId}
    BY DEF EventCompletionRequest, EventErrorRequest, InvocationId
  <2>3. \A p \in net' : p.inv \in {p.from, NoId}
    BY <2>1, <2>2 DEF AnswerOK
  <2>4. UNCHANGED rapidVars
    BY <1>7 DEF DeserializeFails, HandlerReturns
  <2> QED  BY <2>3, <2>4 DEF AnswerOK, rapidVars
<1>8. ASSUME NEW p \in net, RapidHandles(p)  PROVE AnswerOK'
  <2>1. net' \subseteq net
    BY <1>8 DEF RapidHandles
  <2>2. CASE UNCHANGED rapidVars
    BY <1>3, <2>1, <2>2
  <2>3. ASSUME NEW a \in Attempts, rapid[a] = "outstanding",
               rapid' = [rapid EXCEPT ![a] = "answered"],
               answers' = answers \cup {[to |-> a, post |-> p]}
        PROVE  AnswerOK'
    <3>1. \A x \in answers : x.to # a
      BY <2>3 DEF AnswerOK
    <3>2. \A x, y \in answers' : x.to = y.to => x = y
      BY <2>3, <3>1 DEF AnswerOK
    <3>3. \A x \in answers' : rapid'[x.to] = "answered"
      BY <1>1, <2>3, <3>1 DEF AnswerOK
    <3>4. \A b \in Attempts : rapid'[b] = "outstanding" => rapid[b] = "outstanding"
      BY <1>1, <2>3
    <3> QED  BY <2>1, <3>2, <3>3, <3>4 DEF AnswerOK
  <2> QED  BY <1>8, <2>2, <2>3 DEF RapidHandles, Matches
<1>9. ASSUME NEW a \in Attempts, RapidTimeout(a)  PROVE AnswerOK'
  <2>1. /\ rapid[a] = "outstanding" /\ rapid' = [rapid EXCEPT ![a] = "timedout"]
        /\ UNCHANGED <<answers, net>>
    BY <1>9 DEF RapidTimeout
  <2>2. \A x \in answers : rapid'[x.to] = "answered"
    BY <1>1, <2>1 DEF AnswerOK
  <2>3. \A b \in Attempts : rapid'[b] = "outstanding" => rapid[b] = "outstanding"
    BY <1>1, <2>1
  <2> QED  BY <2>1, <2>2, <2>3 DEF AnswerOK
<1>10. ASSUME NEW w \in Workers, JoinNext(w)  PROVE AnswerOK'
  BY <1>3, <1>10 DEF JoinNext
<1>11. CASE MainReturns \/ UNCHANGED vars
  BY <1>3, <1>11 DEF MainReturns, vars
<1> QED
  BY <1>4, <1>5, <1>6, <1>7, <1>8, <1>9, <1>10, <1>11 DEF Next, Proceed, Rapid, Finished

\* Every step keeps a post at its one place.
LEMMA OnePlaceKept == IInv /\ OnePlaceOK /\ [Next]_vars => OnePlaceOK'
<1> SUFFICES ASSUME IInv, OnePlaceOK, [Next]_vars  PROVE OnePlaceOK'
  OBVIOUS
<1>1. CASE UNCHANGED <<answers, posts>> /\ net' \subseteq net
  BY <1>1 DEF OnePlaceOK
<1>2. ASSUME NEW w \in Workers, Poll(w)  PROVE OnePlaceOK'
  <2>1. UNCHANGED <<answers, posts, net>>
    BY <1>2 DEF Poll, NextEvent, NextBare, NextError, rapidVars, history
  <2> QED  BY <1>1, <2>1
<1>3. ASSUME NEW w \in Workers,
             IgnoreNoContent(w) \/ Intake(w) \/ IntakeFails(w) \/ ReadyFails(w)
               \/ CallFails(w) \/ CallHandler(w) \/ ReportFails(w) \/ BuildFails(w) \/ PostReply(w)
               \/ PostFails(w)
      PROVE  OnePlaceOK'
  BY <1>1, <1>3 DEF IgnoreNoContent, Intake, IntakeFails, ReadyFails, CallFails, CallHandler,
                    ReportFails, BuildFails, PostReply, PostFails, rapidVars, history
<1>4. ASSUME NEW w \in Workers, DeserializeFails(w) \/ HandlerReturns(w)
      PROVE  OnePlaceOK'
  <2>1. pc[w] \in {"waiting", "handling"} /\ answers' = answers
    BY <1>4 DEF DeserializeFails, HandlerReturns, rapidVars
  <2>2. PICK post \in {EventCompletionRequest(w), EventErrorRequest(w)} : Send(w, post)
    BY <1>4 DEF DeserializeFails, HandlerReturns
  <2>3. TypeOK /\ held[w] \in Attempts /\ posts[held[w]] = <<>>
    BY <2>1 DEF IInv, HoldingOK, OwnershipOK
  <2>4. /\ post.from = held[w] /\ net' = net \cup {post}
        /\ \A a \in Attempts : a # held[w] => posts'[a] = posts[a]
        /\ posts'[held[w]] = Append(posts[held[w]], post.kind)
    BY <2>2, <2>3, SendOK
  <2>5. posts'[post.from] = <<post.kind>>
    <3>1. Append(<<>>, post.kind) = <<post.kind>>
      BY SMT
    <3> QED  BY <2>3, <2>4, <3>1
  <2>6. \A kind : <<kind>> # <<>>
    BY SMT
  <2>7. /\ \A p \in net : p.from \in Attempts
        /\ \A x \in answers : x.post.from \in Attempts
    BY <2>3 DEF TypeOK, Posts
  <2>8. /\ \A p \in net : p.from # held[w]
        /\ \A x \in answers : x.post.from # held[w]
    BY <2>3, <2>6 DEF OnePlaceOK
  <2>9. /\ \A p \in net' : posts'[p.from] = <<p.kind>>
        /\ \A x \in answers' : posts'[x.post.from] = <<x.post.kind>>
    BY <2>1, <2>4, <2>5, <2>7, <2>8 DEF OnePlaceOK
  <2>10. /\ \A p \in net', x \in answers' : p.from # x.post.from
         /\ \A p, q \in net' : p.from = q.from => p = q
    BY <2>1, <2>4, <2>8 DEF OnePlaceOK
  <2>11. \A x, y \in answers' : x.post.from = y.post.from => x = y
    BY <2>1 DEF OnePlaceOK
  <2> QED  BY <2>9, <2>10, <2>11 DEF OnePlaceOK
<1>5. ASSUME NEW p \in net, RapidHandles(p)  PROVE OnePlaceOK'
  <2>1. net' = net \ {p} /\ posts' = posts
    BY <1>5 DEF RapidHandles, history
  <2>2. CASE answers' = answers
    BY <1>1, <2>1, <2>2
  <2>3. ASSUME NEW a \in Attempts, answers' = answers \cup {[to |-> a, post |-> p]}
        PROVE  OnePlaceOK'
    <3>1. \A x \in answers' : x \in answers \/ x.post = p
      BY <2>3
    <3>2. \A x \in answers' : x \notin answers => x = [to |-> a, post |-> p]
      BY <2>3
    <3> QED  BY <2>1, <3>1, <3>2 DEF OnePlaceOK
  <2> QED  BY <1>5, <2>2, <2>3 DEF RapidHandles, rapidVars
<1>6. ASSUME NEW a \in Attempts, RapidTimeout(a)  PROVE OnePlaceOK'
  BY <1>1, <1>6 DEF RapidTimeout, history
<1>7. ASSUME NEW w \in Workers, JoinNext(w)  PROVE OnePlaceOK'
  BY <1>1, <1>7 DEF JoinNext, rapidVars, history
<1>8. CASE MainReturns \/ UNCHANGED vars
  BY <1>1, <1>8 DEF MainReturns, vars, rapidVars, history
<1> QED
  BY <1>2, <1>3, <1>4, <1>5, <1>6, <1>7, <1>8 DEF Next, Proceed, Rapid, Finished

\* In every state RAPID's books are in order.
LEMMA AnswersInOrder == Safety => []AnswerOK
<1>1. Init => AnswerOK
  BY DEF Init, AnswerOK
<1> QED  BY <1>1, AnswerKept, Invariance, PTL DEF Safety

\* In every state a post is at its one place.
LEMMA PostsAtOnePlace == Safety => []OnePlaceOK
<1>1. Init => OnePlaceOK
  BY DEF Init, OnePlaceOK
<1> QED  BY <1>1, OnePlaceKept, Invariance, PTL DEF Safety

\* RAPID's answers and the runtime's posts are paired one to one: an attempt has one
\* answer, a post answers one attempt, and what RAPID has accepted is the one post
\* that the runtime made, an error as an error (api_client.rs:76-140;
\* api_response.rs:152-221).
AnswersPaired ==
  /\ \A x, y \in answers : x.to = y.to \/ x.post.from = y.post.from => x = y
  /\ \A x \in answers : posts[x.post.from] = <<x.post.kind>>

\* Nothing that is lost, late, retried or repeated has RAPID count an answer twice,
\* or take an error for a response.
THEOREM AnsweredOnce == Safety => []AnswersPaired
<1>1. AnswerOK /\ OnePlaceOK => AnswersPaired
  BY DEF AnswerOK, OnePlaceOK, AnswersPaired
<1> QED  BY <1>1, AnswersInOrder, PostsAtOnePlace, PTL

\* A post that RAPID handles while it still waits for the attempt it was made for
\* is accepted, and for that attempt: the ids the runtime echoes never have a timely
\* answer rejected, or given to a retry (api_response.rs:131-150).
THEOREM OnTimeAnswersCount ==
  Safety => [][\A p \in net :
                 RapidHandles(p) /\ rapid[p.from] = "outstanding"
                   => [to |-> p.from, post |-> p] \in answers']_vars
<1>1. ASSUME IInv, AnswerOK, NEW p \in net, RapidHandles(p), rapid[p.from] = "outstanding"
      PROVE  [to |-> p.from, post |-> p] \in answers'
  <2>1. p.from \in Attempts /\ p.req = ReqOf[p.from] /\ p.inv \in {p.from, NoId}
    BY <1>1 DEF IInv, TypeOK, Posts, PostsOK, PostOK, AnswerOK
  <2>2. Matches(p, p.from)
    BY <1>1, <2>1 DEF Matches
  <2>3. \A a \in Attempts : Matches(p, a) => a = p.from
    BY <1>1, <2>1 DEF Matches, AnswerOK
  <2>4. PICK a \in Attempts : /\ Matches(p, a)
                              /\ answers' = answers \cup {[to |-> a, post |-> p]}
    BY <1>1, <2>1, <2>2 DEF RapidHandles
  <2> QED  BY <2>3, <2>4
<1>2. IInv /\ AnswerOK /\ [Next]_vars
        => [\A p \in net : RapidHandles(p) /\ rapid[p.from] = "outstanding"
              => [to |-> p.from, post |-> p] \in answers']_vars
  BY <1>1
<1> QED  BY <1>2, Invariance, AnswersInOrder, PTL DEF Safety

-----------------------------------------------------------------------------
(* Runtime implements Invocations.                                         *)

\* The workers that are not gone.
Living == {w \in Workers : pc[w] # "exited"}

LEMMA LivingFinite ==
  IsFiniteSet(Workers) /\ IsFiniteSet(Living) /\ Cardinality(Living) \in Nat
<1>1. concurrency_limit \in Nat
  BY RuntimeAssumption DEF concurrency_limit, max_concurrency_from_env
<1>2. IsFiniteSet(1..concurrency_limit) /\ IsFiniteSet(1..1)
  <2>1. 1 \in Int /\ concurrency_limit \in Int
    BY <1>1, SMT
  <2> QED  BY <2>1, FS_Interval
<1>3. 1..1 = {1}
  OBVIOUS
<1>4. IsFiniteSet(Workers)
  BY <1>2, <1>3 DEF Workers
<1> QED  BY <1>4, FS_Subset, FS_CardinalityType DEF Living

\* The two modules count alike.
LEMMA SameCardinality ==
  ASSUME NEW S
  PROVE  Promise!Cardinality(S) = Cardinality(S)
BY DEF Promise!Cardinality, Cardinality

\* The worker that runs an attempt is alive and holds it, so no two attempts have
\* the same one.
LEMMA RunningAreHeld ==
  ASSUME IInv
  PROVE  /\ \A a \in Promise!Running : taker[a] \in Living /\ held[taker[a]] = a
         /\ [a \in Promise!Running |-> taker[a]] \in Injection(Promise!Running, Living)
<1> DEFINE R == Promise!Running
           f == [a \in R |-> taker[a]]
<1>1. ASSUME NEW a \in R
      PROVE  taker[a] \in Living /\ held[taker[a]] = a
  <2>1. a \in Attempts /\ statusBar[a] = "running"
    BY <1>1 DEF Promise!Running
  <2>2. taker[a] \in Workers /\ held[taker[a]] = a
    BY <2>1 DEF statusBar, IInv, TypeOK
  <2>3. pc[taker[a]] # "exited"
    BY <2>1, <2>2, RuntimeAssumption DEF IInv, HoldingOK
  <2> QED  BY <2>2, <2>3 DEF Living
<1>2. f \in [R -> Living]
  BY <1>1
<1>3. \A a, b \in R : f[a] = f[b] => a = b
  BY <1>1
<1> HIDE DEF R, f
<1>4. f \in Injection(R, Living)
  BY <1>2, <1>3 DEF Injection, IsInjective
<1> QED  BY <1>1, <1>4 DEF R, f

\* A worker that holds no attempt it has to answer is a free slot.
LEMMA SlotIsFree ==
  ASSUME IInv, NEW w \in Living,
         held[w] \in Attempts => posts[held[w]] # <<>>
  PROVE  Cardinality(Promise!Running) < Cardinality(Living)
<1> DEFINE R == Promise!Running
           f == [a \in R |-> taker[a]]
<1>1. /\ \A a \in R : taker[a] \in Living /\ held[taker[a]] = a
      /\ f \in Injection(R, Living)
  BY RunningAreHeld
<1>2. ASSUME NEW a \in R  PROVE a \in Attempts /\ posts[a] = <<>>
  <2>1. a \in Attempts /\ statusBar[a] = "running"
    BY <1>2 DEF Promise!Running
  <2> QED  BY <2>1 DEF statusBar
<1>3. \A a \in R : f[a] \in Living \ {w}
  BY <1>1, <1>2
<1> HIDE DEF R, f
<1>4. f \in Injection(R, Living \ {w})
  BY <1>1, <1>3 DEF Injection, IsInjective
<1>5. IsFiniteSet(Living \ {w}) /\ Cardinality(Living \ {w}) = Cardinality(Living) - 1
  BY LivingFinite, FS_RemoveElement
<1>6. IsFiniteSet(R) /\ Cardinality(R) <= Cardinality(Living \ {w})
  BY <1>4, <1>5, FS_Injection
<1>7. Cardinality(R) \in Nat
  BY <1>6, FS_CardinalityType
<1>8. Cardinality(R) < Cardinality(Living)
  BY <1>5, <1>6, <1>7, LivingFinite, SMT
<1> QED  BY <1>8 DEF R

\* The status of an attempt that no step of its worker or of RAPID touches.
LEMMA StatusStays ==
  ASSUME NEW a \in Attempts, posts'[a] = posts[a], taker'[a] = taker[a],
         rapid'[a] = "queued" <=> rapid[a] = "queued",
         posts[a] = <<>> /\ taker[a] # NoWorker =>
           (held'[taker[a]] = a <=> held[taker[a]] = a)
  PROVE  statusBar'[a] = statusBar[a]
BY DEF statusBar

\* A step that changes no attempt's status and no worker's life is a stutter.
LEMMA Stutters ==
  ASSUME \A a \in Attempts : statusBar'[a] = statusBar[a],
         \A w \in Workers : pc'[w] = "exited" <=> pc[w] = "exited"
  PROVE  UNCHANGED Promise!vars
<1>1. statusBar' = statusBar
  BY DEF statusBar
<1>2. {w \in Workers : pc'[w] # "exited"} = {w \in Workers : pc[w] # "exited"}
  OBVIOUS
<1> QED  BY <1>1, <1>2 DEF Promise!vars

\* The mapped status is a function on the attempts.
LEMMA StatusFunction ==
  /\ statusBar = [a \in Attempts |-> statusBar[a]]
  /\ statusBar' = [a \in Attempts |-> statusBar'[a]]
BY DEF statusBar

\* A worker that is gone takes one slot with it.
LEMMA SlotCloses ==
  ASSUME IInv, NEW w \in Living, pc' = [pc EXCEPT ![w] = "exited"]
  PROVE  Cardinality(Living') = Cardinality(Living) - 1
<1>1. Living' = Living \ {w}
  BY DEF Living, IInv, TypeOK
<1> QED  BY <1>1, LivingFinite, FS_RemoveElement

\* A worker's end closes a free slot or loses the attempt at hand.
LEMMA ExitMaps ==
  ASSUME IInv, NEW w \in Workers, pc[w] # "exited",
         pc' = [pc EXCEPT ![w] = "exited"], held' = [held EXCEPT ![w] = NoAttempt],
         posts' = posts, taker' = taker, rapid' = rapid
  PROVE  Promise!Next
<1>1. w \in Living /\ Living = {v \in Workers : pc[v] # "exited"}
      /\ Living' = {v \in Workers : pc'[v] # "exited"}
  BY DEF Living
<1>2. Cardinality(Living') = Cardinality(Living) - 1
  BY <1>1, SlotCloses
<1>3. held \in [Workers -> Attempts \cup {NoAttempt}]
      /\ taker \in [Attempts -> Workers \cup {NoWorker}] /\ NoAttempt \notin Attempts
  BY RuntimeAssumption DEF IInv, TypeOK
<1>4. CASE held[w] \in Attempts /\ posts[held[w]] = <<>>
  <2> DEFINE a == held[w]
  <2>1. taker[a] = w /\ w # NoWorker
    <3>1. w \in Nat
      BY RuntimeAssumption DEF Workers, Concurrent, concurrency_limit, max_concurrency_from_env
    <3> QED  BY <1>4, <3>1, RuntimeAssumption DEF IInv, OwnershipOK
  <2>2. statusBar[a] = "running"
    BY <1>4, <2>1 DEF statusBar
  <2>3. statusBar'[a] = "lost"
    BY <1>3, <1>4, <2>1 DEF statusBar
  <2>4. \A b \in Attempts \ {a} : statusBar'[b] = statusBar[b]
    BY <1>3, StatusStays
  <2>5. statusBar' = [statusBar EXCEPT ![a] = "lost"]
    BY <1>4, <2>3, <2>4, StatusFunction
  <2> QED
    BY <1>1, <1>2, <1>4, <2>2, <2>5 DEF Promise!Next, Promise!Lose, Promise!Move
<1>5. CASE ~ (held[w] \in Attempts /\ posts[held[w]] = <<>>)
  <2>1. Cardinality(Promise!Running) < Cardinality(Living)
    BY <1>1, <1>5, SlotIsFree
  <2>2. \A b \in Attempts : statusBar'[b] = statusBar[b]
    BY <1>3, <1>5, StatusStays
  <2>3. statusBar' = statusBar
    BY <2>2, StatusFunction
  <2>4. Promise!CloseSlot
    BY <1>1, <1>2, <2>1, <2>3, SameCardinality DEF Promise!CloseSlot
  <2> QED  BY <2>4 DEF Promise!Next
<1> QED  BY <1>4, <1>5

\* Handing the answer of the attempt at hand to the client answers it.
LEMMA SendMaps ==
  ASSUME IInv, NEW w \in Workers, pc[w] \in {"waiting", "handling"},
         NEW kind \in {"response", "error"},
         posts' = [posts EXCEPT ![held[w]] = Append(@, kind)],
         pc' = [pc EXCEPT ![w] = "posting"],
         held' = held, taker' = taker, rapid' = rapid
  PROVE  Promise!Next
<1> DEFINE a == held[w]
<1>1. /\ a \in Attempts /\ taker[a] = w /\ posts[a] = <<>>
      /\ posts \in [Attempts -> Seq({"response", "error"})]
  BY DEF IInv, HoldingOK, OwnershipOK, TypeOK
<1>2. w # NoWorker
  <2>1. w \in Nat
    BY RuntimeAssumption DEF Workers, Concurrent, concurrency_limit, max_concurrency_from_env
  <2> QED  BY <2>1, RuntimeAssumption
<1>3. posts'[a] # <<>>
  <2>1. Append(<<>>, kind) # <<>>
    BY SMT
  <2> QED  BY <1>1, <2>1
<1>4. statusBar[a] = "running"
  BY <1>1, <1>2 DEF statusBar
<1>5. statusBar'[a] = "answered"
  BY <1>1, <1>3 DEF statusBar
<1>6. \A b \in Attempts \ {a} : statusBar'[b] = statusBar[b]
  BY <1>1, StatusStays
<1>7. statusBar' = [statusBar EXCEPT ![a] = "answered"]
  BY <1>1, <1>5, <1>6, StatusFunction
<1>8. {v \in Workers : pc'[v] # "exited"} = {v \in Workers : pc[v] # "exited"}
  BY DEF IInv, TypeOK
<1> QED
  BY <1>1, <1>4, <1>7, <1>8 DEF Promise!Next, Promise!Answer, Promise!Move

\* Asking for the next attempt takes one, loses one on the wire, or does nothing.
LEMMA PollMaps ==
  ASSUME IInv, NEW w \in Workers, Poll(w)
  PROVE  [Promise!Next]_(Promise!vars)
<1> USE DEF Goto
<1>1. /\ held \in [Workers -> Attempts \cup {NoAttempt}]
      /\ taker \in [Attempts -> Workers \cup {NoWorker}] /\ NoAttempt \notin Attempts
      /\ pc \in [Workers -> PCs]
      /\ rapid \in [Attempts -> {"queued", "outstanding", "answered", "timedout"}]
  BY RuntimeAssumption DEF IInv, TypeOK
<1>2. /\ pc[w] = "polling" /\ held[w] = NoAttempt
      /\ w \in Living /\ Living = {v \in Workers : pc[v] # "exited"}
      /\ Living' = {v \in Workers : pc'[v] # "exited"}
  BY DEF Poll, NextEvent, NextBare, NextError, IInv, HoldingOK, Living
<1>3. Cardinality(Promise!Running) < Cardinality(Living)
  BY <1>1, <1>2, SlotIsFree
<1>4. ASSUME NEW a \in Attempts, rapid[a] = "queued"
      PROVE  taker[a] = NoWorker /\ posts[a] = <<>> /\ statusBar[a] = "queued"
  BY <1>4 DEF IInv, QueuedOK, statusBar
<1>5. w # NoWorker
  <2>1. w \in Nat
    BY RuntimeAssumption DEF Workers, Concurrent, concurrency_limit, max_concurrency_from_env
  <2> QED  BY <2>1, RuntimeAssumption
<1>6. ASSUME NEW a \in Attempts, NextEvent(w, a)  PROVE Promise!Next
  <2>1. /\ rapid[a] = "queued" /\ rapid' = [rapid EXCEPT ![a] = "outstanding"]
        /\ held' = [held EXCEPT ![w] = a] /\ taker' = [taker EXCEPT ![a] = w]
        /\ pc' = [pc EXCEPT ![w] = "received"] /\ posts' = posts
    BY <1>6 DEF NextEvent, MayDeliver
  <2>2. statusBar[a] = "queued" /\ posts[a] = <<>>
    BY <1>4, <2>1
  <2>3. statusBar'[a] = "running"
    BY <1>1, <1>5, <2>1, <2>2 DEF statusBar
  <2>4. ASSUME NEW b \in Attempts \ {a}  PROVE statusBar'[b] = statusBar[b]
    <3>1. taker[b] \in Workers => (held'[taker[b]] = b <=> held[taker[b]] = b)
      BY <1>1, <1>2, <2>1
    <3>2. taker[b] # NoWorker => taker[b] \in Workers
      BY <1>1
    <3> QED  BY <1>1, <1>2, <2>1, <3>1, <3>2, StatusStays
  <2>5. statusBar' = [statusBar EXCEPT ![a] = "running"]
    BY <2>3, <2>4, StatusFunction
  <2>6. {v \in Workers : pc'[v] # "exited"} = {v \in Workers : pc[v] # "exited"}
    BY <1>1, <1>2, <2>1
  <2>7. Promise!Take(a)
    BY <1>2, <1>3, <2>2, <2>5, <2>6, SameCardinality DEF Promise!Take, Promise!Move
  <2> QED  BY <2>7 DEF Promise!Next
<1>7. CASE NextBare(w)
  <2>1. /\ pc' = [pc EXCEPT ![w] = "received"]
        /\ UNCHANGED <<rapid, held, posts, taker>>
    BY <1>7 DEF NextBare, rapidVars, history
  <2>2. \A a \in Attempts : statusBar'[a] = statusBar[a]
    BY <2>1, StatusStays
  <2>3. \A v \in Workers : pc'[v] = "exited" <=> pc[v] = "exited"
    BY <1>1, <1>2, <2>1
  <2> QED  BY <2>2, <2>3, Stutters
<1>8. CASE NextError(w)
  <2>1. /\ posts' = posts /\ taker' = taker
        /\ held' = held
        /\ pc' = pc \/ pc' = [pc EXCEPT ![w] = "exited"]
    BY <1>1, <1>2, <1>8 DEF NextError, Exit, Drop, history
  <2>2. \/ Cardinality(Living') = Cardinality(Living) /\ Living' = Living
           /\ pc' = pc
        \/ Cardinality(Living') = Cardinality(Living) - 1
    BY <1>2, <2>1, SlotCloses DEF Living
  <2>3. CASE rapid' = rapid
    <3>1. \A a \in Attempts : statusBar'[a] = statusBar[a]
      BY <2>1, <2>3, StatusStays
    <3>2. statusBar' = statusBar
      BY <3>1, StatusFunction
    <3>3. CASE pc' = pc
      BY <3>1, <3>3, Stutters
    <3>4. CASE Cardinality(Living') = Cardinality(Living) - 1
      <4>1. Promise!CloseSlot
        BY <1>2, <1>3, <3>2, <3>4, SameCardinality DEF Promise!CloseSlot
      <4> QED  BY <4>1 DEF Promise!Next
    <3> QED  BY <2>2, <3>3, <3>4
  <2>4. ASSUME NEW a \in Attempts, rapid[a] = "queued",
               rapid' = [rapid EXCEPT ![a] = "outstanding"]
        PROVE  Promise!Next
    <3>1. statusBar[a] = "queued" /\ taker[a] = NoWorker /\ posts[a] = <<>>
      BY <1>4, <2>4
    <3>2. statusBar'[a] = "undelivered"
      BY <1>1, <2>1, <2>4, <3>1 DEF statusBar
    <3>3. \A b \in Attempts \ {a} : statusBar'[b] = statusBar[b]
      BY <1>1, <2>1, <2>4, StatusStays
    <3>4. statusBar' = [statusBar EXCEPT ![a] = "undelivered"]
      BY <3>2, <3>3, StatusFunction
    <3>5. Promise!Undeliver(a)
      BY <1>2, <1>3, <2>2, <3>1, <3>4, SameCardinality DEF Promise!Undeliver, Promise!Move
    <3> QED  BY <3>5 DEF Promise!Next
  <2> QED  BY <1>8, <2>3, <2>4 DEF NextError, MayDeliver
<1> QED  BY <1>6, <1>7, <1>8 DEF Poll

\* A step between the poll and the answer.
LEMMA ProceedMaps ==
  ASSUME IInv, NEW w \in Workers, Proceed(w)
  PROVE  [Promise!Next]_(Promise!vars)
<1> USE DEF Goto, rapidVars, history
<1>1. /\ held \in [Workers -> Attempts \cup {NoAttempt}]
      /\ taker \in [Attempts -> Workers \cup {NoWorker}] /\ NoAttempt \notin Attempts
      /\ pc \in [Workers -> PCs]
  BY RuntimeAssumption DEF IInv, TypeOK
<1>2. ASSUME NEW to \in PCs \ {"exited"}, pc[w] # "exited", pc' = [pc EXCEPT ![w] = to],
             UNCHANGED <<rapid, posts, taker>>,
             held' = held
               \/ (held' = [held EXCEPT ![w] = NoAttempt]
                     /\ (held[w] \in Attempts => posts[held[w]] # <<>>))
      PROVE  UNCHANGED Promise!vars
  <2>1. ASSUME NEW a \in Attempts  PROVE statusBar'[a] = statusBar[a]
    <3>1. taker[a] # NoWorker => taker[a] \in Workers
      BY <1>1
    <3>2. posts[a] = <<>> /\ taker[a] # NoWorker =>
            (held'[taker[a]] = a <=> held[taker[a]] = a)
      BY <1>1, <1>2, <3>1
    <3> QED  BY <1>2, <3>2, StatusStays
  <2>2. \A v \in Workers : pc'[v] = "exited" <=> pc[v] = "exited"
    BY <1>1, <1>2
  <2> QED  BY <2>1, <2>2, Stutters
<1>3. CASE IgnoreNoContent(w)
  <2>1. held[w] \notin Attempts
    BY <1>3 DEF IgnoreNoContent, Ignorable, IInv, OwnershipOK
  <2> QED  BY <1>2, <1>3, <2>1 DEF IgnoreNoContent, Drop, PCs
<1>4. CASE Intake(w) \/ CallHandler(w)
  BY <1>2, <1>4 DEF Intake, CallHandler, PCs
<1>5. CASE PostReply(w)
  <2>1. held[w] \in Attempts => posts[held[w]] # <<>>
    BY <1>5 DEF PostReply, IInv, OwnershipOK
  <2> QED  BY <1>2, <1>5, <2>1 DEF PostReply, Drop, PCs
<1>6. CASE IntakeFails(w) \/ ReadyFails(w) \/ CallFails(w) \/ ReportFails(w) \/ BuildFails(w)
             \/ PostFails(w)
  <2>1. /\ pc[w] # "exited" /\ pc' = [pc EXCEPT ![w] = "exited"]
        /\ held' = [held EXCEPT ![w] = NoAttempt]
        /\ posts' = posts /\ taker' = taker /\ rapid' = rapid
    BY <1>6 DEF IntakeFails, ReadyFails, CallFails, ReportFails, BuildFails, PostFails,
                Exit, Drop
  <2> QED  BY <2>1, ExitMaps
<1>7. CASE DeserializeFails(w) \/ HandlerReturns(w)
  <2>1. /\ pc[w] \in {"waiting", "handling"} /\ pc' = [pc EXCEPT ![w] = "posting"]
        /\ held' = held /\ taker' = taker /\ rapid' = rapid
        /\ \E kind \in {"response", "error"} :
             posts' = [posts EXCEPT ![held[w]] = Append(@, kind)]
    BY <1>7 DEF DeserializeFails, HandlerReturns, Send, EventErrorRequest,
                EventCompletionRequest
  <2> QED  BY <2>1, SendMaps
<1> QED  BY <1>3, <1>4, <1>5, <1>6, <1>7 DEF Proceed

\* Every step of the workers is a step of the promise or a stutter: whatever
\* fails, no attempt is dropped by a worker that lives on, none is answered twice,
\* and no more attempts run than there are living workers (runtime.rs:669-705).
THEOREM ImplementsPromise == Safety => Promise!Safety
<1>1. Init => Promise!Init
  <2> SUFFICES ASSUME Init  PROVE Promise!Init
    OBVIOUS
  <2>1. \A a \in Attempts : statusBar[a] = "queued"
    BY DEF Init, statusBar
  <2>2. statusBar = [a \in Attempts |-> "queued"]
    BY <2>1, StatusFunction
  <2>3. {w \in Workers : pc[w] # "exited"} = Workers
    BY DEF Init
  <2> QED  BY <2>2, <2>3 DEF Promise!Init
<1>2. IInv /\ [Next]_vars => [Promise!Next]_(Promise!vars)
  <2> SUFFICES ASSUME IInv, [Next]_vars  PROVE [Promise!Next]_(Promise!vars)
    OBVIOUS
  <2>1. CASE /\ UNCHANGED <<pc, held, taker, posts>>
             /\ \A a \in Attempts : rapid'[a] = "queued" <=> rapid[a] = "queued"
    <3>1. \A a \in Attempts : statusBar'[a] = statusBar[a]
      BY <2>1, StatusStays
    <3> QED  BY <2>1, <3>1, Stutters
  <2>2. ASSUME NEW w \in Workers, JoinNext(w)  PROVE [Promise!Next]_(Promise!vars)
    BY <2>1, <2>2 DEF JoinNext, rapidVars, history
  <2>3. CASE MainReturns \/ UNCHANGED vars
    BY <2>1, <2>3 DEF MainReturns, rapidVars, history, vars
  <2>4. CASE Rapid
    <3>1. rapid \in [Attempts -> {"queued", "outstanding", "answered", "timedout"}]
      BY DEF IInv, TypeOK
    <3>2. UNCHANGED <<pc, held, taker, posts>>
      BY <2>4 DEF Rapid, RapidHandles, RapidTimeout, history
    <3>3. \/ rapid' = rapid
          \/ \E a \in Attempts, to \in {"answered", "timedout"} :
               rapid[a] = "outstanding" /\ rapid' = [rapid EXCEPT ![a] = to]
      BY <2>4 DEF Rapid, RapidHandles, RapidTimeout, Matches, rapidVars
    <3> QED  BY <2>1, <3>1, <3>2, <3>3
  <2> QED  BY <2>2, <2>3, <2>4, PollMaps, ProceedMaps DEF Next, Finished
<1> QED  BY <1>1, <1>2, Invariance, PTL DEF Safety, Promise!Safety

\* There are never more attempts to be answered than workers alive, each of which
\* has one of its own (runtime.rs:269-280, 436-448, 669-705).
THEOREM WithinCapacity ==
  Safety => [](Cardinality(Promise!Running) <= Cardinality(Living))
<1>1. IInv => Cardinality(Promise!Running) <= Cardinality(Living)
  BY RunningAreHeld, LivingFinite, FS_Injection
<1> QED  BY <1>1, Invariance, PTL

\* What became of an attempt is never revised: one that was answered, was lost with
\* its worker or did not reach one stays so, whatever comes later.  It follows from
\* the promise.
THEOREM EndsAreFinal ==
  Safety => [][\A a \in Attempts :
                 statusBar[a] \in {"answered", "lost", "undelivered"}
                   => statusBar'[a] = statusBar[a]]_(Promise!vars)
<1> DEFINE Final == \A a \in Attempts :
                      statusBar[a] \in {"answered", "lost", "undelivered"}
                        => statusBar'[a] = statusBar[a]
<1>1. Promise!Next => Final
  <2> SUFFICES ASSUME Promise!Next, NEW a \in Attempts,
                      statusBar[a] \in {"answered", "lost", "undelivered"}
               PROVE  statusBar'[a] = statusBar[a]
    OBVIOUS
  <2>1. CASE Promise!CloseSlot
    BY <2>1 DEF Promise!CloseSlot
  <2>2. ASSUME NEW b \in Attempts, NEW from \in {"queued", "running"}, NEW to,
               Promise!Move(b, from, to)
        PROVE  statusBar'[a] = statusBar[a]
    <3>1. a # b
      BY <2>2 DEF Promise!Move
    <3> QED  BY <2>2, <3>1, StatusFunction DEF Promise!Move
  <2>3. CASE \E b \in Attempts : \/ Promise!Take(b) \/ Promise!Answer(b)
                                 \/ Promise!Lose(b) \/ Promise!Undeliver(b)
    BY <2>2, <2>3 DEF Promise!Take, Promise!Answer, Promise!Lose, Promise!Undeliver
  <2> QED  BY <2>1, <2>3 DEF Promise!Next
<1> HIDE DEF Final
<1>2. Promise!Safety => [][Final]_(Promise!vars)
  BY <1>1, PTL DEF Promise!Safety
<1> QED  BY <1>2, ImplementsPromise DEF Final

-----------------------------------------------------------------------------
(* How the end of the workers reaches the caller.                          *)

\* A sequential loop that ended is `run` itself, which has returned.
SequentialEndOK ==
  ~Concurrent => \A w \in Workers : pc[w] = "exited" => main # "running"

\* Every step keeps it.
LEMMA SequentialEndKept == IInv /\ SequentialEndOK /\ [Next]_vars => SequentialEndOK'
<1> SUFFICES ASSUME IInv, SequentialEndOK, [Next]_vars, ~Concurrent
             PROVE  SequentialEndOK'
  BY DEF SequentialEndOK, Concurrent
<1>1. /\ Workers = {1} /\ pc \in [Workers -> PCs]
      /\ \A w \in Workers : resp[w].intake \in {"ok", "err", "panic"}
  BY SequentialWorker DEF IInv, TypeOK, AllShapes
<1>2. CASE UNCHANGED <<pc, main>>
  BY <1>2 DEF SequentialEndOK
<1>3. ASSUME NEW w \in Workers, NEW how \in {"err", "panic"}, Exit(w, how)
      PROVE  SequentialEndOK'
  BY <1>3 DEF Exit, SequentialEndOK
<1>4. ASSUME NEW w \in Workers, NEW to \in PCs \ {"exited"}, Goto(w, to)
      PROVE  SequentialEndOK'
  BY <1>1, <1>4 DEF Goto, SequentialEndOK
<1>5. ASSUME NEW w \in Workers, Poll(w)  PROVE SequentialEndOK'
  <2>1. ASSUME NEW a \in Attempts, NextEvent(w, a)  PROVE SequentialEndOK'
    BY <1>4, <2>1 DEF NextEvent, PCs
  <2>2. CASE NextBare(w)
    BY <1>4, <2>2 DEF NextBare, PCs
  <2>3. CASE NextError(w)
    BY <1>3, <2>3 DEF NextError
  <2> QED  BY <1>5, <2>1, <2>2, <2>3 DEF Poll
<1>6. ASSUME NEW w \in Workers, Proceed(w)  PROVE SequentialEndOK'
  <2>1. CASE IgnoreNoContent(w) \/ Intake(w) \/ CallHandler(w) \/ PostReply(w)
    BY <1>4, <2>1 DEF IgnoreNoContent, Intake, CallHandler, PostReply, PCs
  <2>2. CASE DeserializeFails(w) \/ HandlerReturns(w)
    BY <1>4, <2>2 DEF DeserializeFails, HandlerReturns, Send, PCs
  <2>3. CASE IntakeFails(w)
    BY <1>1, <1>3, <2>3 DEF IntakeFails
  <2>4. CASE ReadyFails(w) \/ CallFails(w) \/ ReportFails(w) \/ BuildFails(w)
             \/ PostFails(w)
    BY <1>3, <2>4 DEF ReadyFails, CallFails, ReportFails, BuildFails, PostFails
  <2> QED  BY <1>6, <2>1, <2>2, <2>3, <2>4 DEF Proceed
<1>7. CASE Rapid
  BY <1>2, <1>7 DEF Rapid, RapidHandles, RapidTimeout
<1>8. ASSUME NEW w \in Workers, JoinNext(w)  PROVE SequentialEndOK'
  BY <1>8 DEF JoinNext
<1>9. CASE MainReturns
  BY <1>9 DEF MainReturns
<1>10. CASE UNCHANGED vars
  BY <1>2, <1>10 DEF vars
<1> QED
  BY <1>5, <1>6, <1>7, <1>8, <1>9, <1>10 DEF Next, Finished

\* The `remaining_workers` that main logs and counts down is the number of workers
\* whose end it has not seen, so no living worker is missing from it; and when all
\* are gone and `run` has not returned, there is an end to see, or all were seen
\* and it returns (runtime.rs:292-332).
EndsAreCounted ==
  /\ Concurrent => /\ remaining = Cardinality(Workers \ joined)
                   /\ Cardinality({w \in Workers : pc[w] # "exited"}) <= remaining
  /\ (\A w \in Workers : pc[w] = "exited") /\ main = "running" =>
       /\ Concurrent
       /\ IF remaining = 0 THEN joined = Workers
          ELSE \E w \in Workers : pc[w] = "exited" /\ w \notin joined

\* The counter never saturates or runs ahead of the workers, and their end is never
\* the last thing that happens: a step to the return of `run` is left.
THEOREM CountIsTrue == Safety => []EndsAreCounted
<1>1. Init => JoinsOK
  BY InitJoins
<1>2. Init => SequentialEndOK
  BY DEF Init, SequentialEndOK
<1>3. ASSUME IInv, JoinsOK, SequentialEndOK
      PROVE  EndsAreCounted
  <2>1. joined \subseteq Workers /\ remaining \in Nat /\ \A w \in joined : pc[w] = "exited"
    BY <1>3 DEF IInv, TypeOK, MainOK
  <2>2. IsFiniteSet(Workers) /\ Cardinality(Workers) \in Nat
    BY LivingFinite, FS_CardinalityType
  <2>3. /\ IsFiniteSet(joined) /\ IsFiniteSet(Workers \ joined)
        /\ Cardinality(Workers \ joined) = Cardinality(Workers) - Cardinality(joined)
        /\ Cardinality(joined) \in Nat /\ Cardinality(Workers \ joined) \in Nat
    <3>1. IsFiniteSet(joined) /\ IsFiniteSet(Workers \ joined)
      BY <2>1, <2>2, FS_Subset
    <3>2. Workers \cap joined = joined
      BY <2>1
    <3>3. Cardinality(Workers \ joined) = Cardinality(Workers) - Cardinality(joined)
      BY <2>2, <3>2, FS_Difference
    <3> QED  BY <3>1, <3>3, FS_CardinalityType
  <2>4. ASSUME Concurrent  PROVE remaining = Cardinality(Workers \ joined)
    BY <1>3, <2>1, <2>2, <2>3, <2>4, SMT DEF JoinsOK
  <2>5. Cardinality({w \in Workers : pc[w] # "exited"}) <= Cardinality(Workers \ joined)
    <3>1. {w \in Workers : pc[w] # "exited"} \subseteq Workers \ joined
      BY <2>1
    <3> QED  BY <2>3, <3>1, FS_Subset
  <2>6. ASSUME \A w \in Workers : pc[w] = "exited", main = "running"
        PROVE  Concurrent
    <3>1. ~Concurrent => 1 \in Workers
      BY SequentialWorker
    <3> QED  BY <1>3, <2>6, <3>1 DEF SequentialEndOK
  <2>7. ASSUME Concurrent, remaining = 0  PROVE joined = Workers
    <3>1. Workers \ joined = {}
      BY <2>3, <2>4, <2>7, FS_EmptySet
    <3> QED  BY <2>1, <3>1
  <2>8. ASSUME Concurrent, remaining # 0  PROVE \E w \in Workers : w \notin joined
    <3>1. Workers \ joined # {}
      BY <2>4, <2>8, FS_EmptySet
    <3> QED  BY <3>1
  <2> QED  BY <2>4, <2>5, <2>6, <2>7, <2>8 DEF EndsAreCounted
<1> QED
  BY <1>1, <1>2, <1>3, JoinsKept, SequentialEndKept, Invariance, PTL DEF Safety

=============================================================================
