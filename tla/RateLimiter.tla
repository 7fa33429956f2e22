---------------------------- MODULE RateLimiter ----------------------------
(***************************************************************************)
(* rate_limited! (lambda-runtime/src/rate_limiter.rs): one static          *)
(* AtomicU64 per call site says from which second on the next call may be  *)
(* evaluated.  Threads read the clock, load the atomic and claim the call  *)
(* with a compare-exchange, each a step of its own.                        *)
(*                                                                         *)
(* All accesses are Relaxed: a load may return any value of the atomic's   *)
(* modification order that is not older than what the thread saw before;   *)
(* only the compare-exchange is sure to act on the last one.               *)
(*                                                                         *)
(* A Duration is whole seconds and a fraction of Frac parts (nanoseconds   *)
(* in the code).                                                           *)
(***************************************************************************)
EXTENDS Naturals, Sequences

CONSTANTS
  Threads,
  Frac,        (* the parts of a second                                    *)
  Interval,    (* the interval given to the macro                          *)
  DurationMax, (* Duration::MAX                                            *)
  MaxSecs      (* bound: the clock stops at this second                    *)

Duration == [s : Nat, f : 0..(Frac - 1)]

Less(d, e) == d.s < e.s \/ (d.s = e.s /\ d.f < e.f)

Plus(d, e) ==
  IF d.f + e.f >= Frac THEN [s |-> d.s + e.s + 1, f |-> d.f + e.f - Frac]
                       ELSE [s |-> d.s + e.s, f |-> d.f + e.f]

ASSUME RateLimiterAssumption ==
  /\ Frac \in Nat \ {0}
  /\ Interval \in Duration
  /\ Interval.s > 0
  /\ DurationMax \in Duration
  /\ MaxSecs \in Nat
  /\ MaxSecs < DurationMax.s

VARIABLES
  now,   (* the monotonic clock                                            *)
  order, (* the modification order of NEXT_CALL; its last value is current *)
  pc,    (* where each thread is in the macro                              *)
  time,  (* each thread's `time`                                           *)
  seen,  (* the place in `order` each thread has read last                 *)
  calls  (* history: the evaluated calls, with `time` and the real time    *)

vars == <<now, order, pc, time, seen, calls>>

Zero == [s |-> 0, f |-> 0]

TypeOK ==
  /\ now \in Duration
  /\ order \in Seq(Nat) /\ order # <<>>
  /\ pc \in [Threads -> {"idle", "timed", "loaded"}]
  /\ time \in [Threads -> Duration]
  /\ seen \in [Threads -> Nat]
  /\ \A t \in Threads : seen[t] \in 1..Len(order)
  /\ calls \in Seq([stamp : Duration, at : Duration])

Init ==
  /\ now = Zero
  /\ order = <<0>>
  /\ pc = [t \in Threads |-> "idle"]
  /\ time = [t \in Threads |-> Zero]
  /\ seen = [t \in Threads |-> 1]
  /\ calls = <<>>

-----------------------------------------------------------------------------
Tick ==
  /\ now.s < MaxSecs
  /\ now' = IF now.f + 1 = Frac THEN [s |-> now.s + 1, f |-> 0]
                                ELSE [s |-> now.s, f |-> now.f + 1]
  /\ UNCHANGED <<order, pc, time, seen, calls>>

time_since_epoch(t) ==
  /\ pc[t] = "idle"
  /\ time' = [time EXCEPT ![t] = now]
  /\ pc' = [pc EXCEPT ![t] = "timed"]
  /\ UNCHANGED <<now, order, seen, calls>>

Load(t) ==
  /\ pc[t] = "timed"
  /\ \E i \in seen[t]..Len(order) : seen' = [seen EXCEPT ![t] = i]
  /\ pc' = [pc EXCEPT ![t] = "loaded"]
  /\ UNCHANGED <<now, order, time, calls>>

\* `next` as the thread loaded it.
next(t) == order[seen[t]]

\* Faulty variant: the second in which the interval ends does not count.
DueLate(t) == next(t) < time[t].s

Due(t) == next(t) <= time[t].s

Skip(t) ==
  /\ pc[t] = "loaded"
  /\ ~Due(t)
  /\ pc' = [pc EXCEPT ![t] = "idle"]
  /\ UNCHANGED <<now, order, time, seen, calls>>

\* The first second of the next call: the fraction of the sum is cut off.
new_next(t) ==
  LET sum == Plus(time[t], Interval)
  IN  IF Less(DurationMax, sum) THEN DurationMax.s ELSE sum.s

\* Faulty variant: a plain store instead of the compare-exchange.
StoreAndCall(t) ==
  /\ pc[t] = "loaded"
  /\ Due(t)
  /\ order' = Append(order, new_next(t))
  /\ seen' = [seen EXCEPT ![t] = Len(order) + 1]
  /\ calls' = Append(calls, [stamp |-> time[t], at |-> now])
  /\ pc' = [pc EXCEPT ![t] = "idle"]
  /\ UNCHANGED <<now, time>>

\* The compare-exchange succeeds and the call is evaluated.
ExchangeAndCall(t) ==
  /\ pc[t] = "loaded"
  /\ Due(t)
  /\ order[Len(order)] = next(t)
  /\ order' = Append(order, new_next(t))
  /\ seen' = [seen EXCEPT ![t] = Len(order) + 1]
  /\ calls' = Append(calls, [stamp |-> time[t], at |-> now])
  /\ pc' = [pc EXCEPT ![t] = "idle"]
  /\ UNCHANGED <<now, time>>

\* Another thread was faster.
ExchangeFails(t) ==
  /\ pc[t] = "loaded"
  /\ Due(t)
  /\ order[Len(order)] # next(t)
  /\ seen' = [seen EXCEPT ![t] = Len(order)]
  /\ pc' = [pc EXCEPT ![t] = "idle"]
  /\ UNCHANGED <<now, order, time, calls>>

Next ==
  \/ Tick
  \/ \E t \in Threads : \/ time_since_epoch(t) \/ Load(t) \/ Skip(t)
                        \/ ExchangeAndCall(t) \/ ExchangeFails(t)

Spec == Init /\ [][Next]_vars

-----------------------------------------------------------------------------
\* Of the threads that race for a call one wins, and what it writes into NEXT_CALL
\* binds all later ones, however old the values that they load: no clock reading of
\* a call is before the second that any earlier call claimed
\* (rate_limiter.rs:26-37; allows_only_one_concurrent_call, 67-87).
ClaimsAreHonoured ==
  \A i, j \in 1..Len(calls) : i < j => order[i + 1] <= calls[j].stamp.s

\* "Evaluates a call at most once per interval" (rate_limiter.rs:15): between the
\* clock readings of two calls there is an interval.
OncePerInterval ==
  \A i, j \in 1..Len(calls) :
    i < j => ~Less(calls[j].stamp, Plus(calls[i].stamp, Interval))

\* A thread that has seen the latest claim is turned away only if a call was
\* evaluated less than an interval ago: a call site that has been quiet for an
\* interval is silenced by nothing but a stale load (rate_limiter.rs:27-38).
SuppressedNearACall ==
  [][\A t \in Threads :
       (pc[t] = "loaded" /\ pc'[t] = "idle" /\ calls' = calls
          /\ seen[t] = Len(order)) =>
         \E i \in 1..Len(calls) : Less(time[t], Plus(calls[i].at, Interval))]_vars

=============================================================================
