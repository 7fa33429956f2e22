----------------------------- MODULE RuntimeInv -----------------------------
(***************************************************************************)
(* The inductive invariant of Runtime: what has to be true of the workers, *)
(* of RAPID's view and of the posts under way for the safety properties of *)
(* Runtime to be preserved by every step.                                  *)
(***************************************************************************)
EXTENDS Runtime

\* What a worker holds at each point of its loop: an attempt from the moment
\* the response turned out readable until it is back at the top or gone.
HoldingOK ==
  \A w \in Workers :
    /\ pc[w] \in {"waiting", "handling", "posting"} => held[w] \in Attempts
    /\ pc[w] = "received" /\ resp[w].intake = "ok" => held[w] \in Attempts
    /\ pc[w] \in {"polling", "exited"} => held[w] = NoAttempt
    /\ pc[w] = "exited" <=> result[w] \in {"err", "panic"}

\* An attempt in a worker's hands is that worker's alone, has left RAPID's
\* queue, is posted for exactly when the worker waits for the reply, and is
\* tagged exactly when its response shows a readable invocation id.
OwnershipOK ==
  \A w \in Workers : held[w] \in Attempts =>
    /\ taker[held[w]] = w
    /\ rapid[held[w]] # "queued"
    /\ pc[w] # "posting" => posts[held[w]] = <<>>
    /\ pc[w] = "posting" => posts[held[w]] # <<>>
    /\ resp[w].status # "noContent"
    /\ held[w] \in tagged <=> resp[w].invId = "ok"

\* Nothing has happened to an attempt that is still queued, and nothing is
\* posted for one that reached no worker.
QueuedOK ==
  \A a \in Attempts :
    /\ rapid[a] = "queued" => taker[a] = NoWorker /\ a \notin tagged
    /\ taker[a] = NoWorker => posts[a] = <<>>
    /\ Len(posts[a]) <= 1

\* A post names the request, and if it can the attempt, it was made for.
PostOK(p) ==
  /\ p.req = ReqOf[p.from]
  /\ p.from \in tagged => p.inv = p.from
  /\ rapid[p.from] # "queued"

PostsOK ==
  /\ \A p \in net : PostOK(p)
  /\ \A x \in answers : /\ PostOK(x.post)
                        /\ ReqOf[x.to] = x.post.req
                        /\ x.post.inv \in {x.to, NoId}

\* The main task has seen the end of exited workers only, and a sequential
\* main task runs while its worker does.
MainOK ==
  /\ \A w \in joined : pc[w] = "exited"
  /\ Concurrent /\ main # "running" => joined = Workers
  /\ ~Concurrent /\ main # "running" => \A w \in Workers : pc[w] = "exited"

\* From the end of intake to the end of the handler the sequential process
\* environment is that of the invocation at hand.
EnvOK ==
  IF Concurrent THEN traceEnv = NoAttempt
  ELSE \A w \in Workers :
         pc[w] \in {"waiting", "handling"} => traceEnv = amzn_trace_env(w)

\* The main task of run_concurrent has an entry for each worker it has joined, and
\* counts down to the last.
JoinsOK ==
  Concurrent =>
    /\ Len(errors) = Cardinality(joined)
    /\ remaining + Cardinality(joined) = Cardinality(Workers)
    /\ \A w \in joined : \E i \in 1..Len(errors) :
         errors[i] = [worker |-> w, how |-> result[w]]
    /\ main # "running" => main = "err"

IInv == /\ TypeOK /\ HoldingOK /\ OwnershipOK /\ QueuedOK /\ PostsOK
        /\ MainOK /\ EnvOK /\ NoSilentDrop

=============================================================================
