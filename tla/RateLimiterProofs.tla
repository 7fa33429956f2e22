------------------------- MODULE RateLimiterProofs -------------------------
(***************************************************************************)
(* Proofs about RateLimiter, for any threads, interval and clock that does *)
(* not reach Duration::MAX.                                                *)
(*                                                                         *)
(* The modification order of NEXT_CALL mirrors the evaluated calls: after  *)
(* the initial 0 it holds the end of the interval of each call, cut down   *)
(* to whole seconds.  The compare-exchange acts on the last of them.       *)
(***************************************************************************)
EXTENDS RateLimiter, TLAPS

\* The value that a call claimed at `d` leaves in NEXT_CALL.
End(d) == IF Less(DurationMax, Plus(d, Interval)) THEN DurationMax.s
                                                  ELSE Plus(d, Interval).s

OrderMirrorsCalls ==
  /\ Len(order) = Len(calls) + 1
  /\ order[1] = 0
  /\ \A i \in 1..Len(calls) : order[i + 1] = End(calls[i].stamp)

\* A call's clock reading is not before the second in which the interval ends that
\* began with that of an earlier call.
SpacedToTheSecond ==
  \A i, j \in 1..Len(calls) :
    i < j => calls[j].stamp.s >= Plus(calls[i].stamp, Interval).s

\* Clock readings are of the past.
ClockOK ==
  /\ now.s <= MaxSecs
  /\ \A t \in Threads : ~Less(now, time[t])
  /\ \A i \in 1..Len(calls) : /\ ~Less(calls[i].at, calls[i].stamp)
                              /\ ~Less(now, calls[i].at)

IInv == TypeOK /\ OrderMirrorsCalls /\ ClockOK /\ SpacedToTheSecond

-----------------------------------------------------------------------------
(* Durations.                                                              *)

LEMMA PlusFacts ==
  ASSUME NEW d \in Duration
  PROVE  /\ Plus(d, Interval) \in Duration
         /\ d.s <= Plus(d, Interval).s
         /\ End(d) \in Nat
         /\ End(d) <= Plus(d, Interval).s
         /\ End(d) < DurationMax.s => End(d) = Plus(d, Interval).s
  BY RateLimiterAssumption DEF Duration, Plus, Less, End

LEMMA PlusMonotone ==
  ASSUME NEW d \in Duration, NEW e \in Duration, NEW c \in Duration,
         ~Less(e, d), Less(c, Plus(d, Interval))
  PROVE  Less(c, Plus(e, Interval))
  BY RateLimiterAssumption DEF Duration, Plus, Less

LEMMA LessTransitive ==
  ASSUME NEW d \in Duration, NEW e \in Duration, NEW c \in Duration,
         ~Less(e, d), ~Less(c, e)
  PROVE  ~Less(c, d)
  BY RateLimiterAssumption DEF Duration, Less

-----------------------------------------------------------------------------
(* What the type invariant says of each value.                             *)

LEMMA Typing ==
  ASSUME TypeOK
  PROVE  /\ now \in Duration
         /\ \A t \in Threads : time[t] \in Duration /\ seen[t] \in 1..Len(order)
         /\ Len(calls) \in Nat /\ Len(order) \in Nat
         /\ \A i \in 1..Len(calls) : /\ calls[i] \in [stamp : Duration, at : Duration]
                                     /\ calls[i].stamp \in Duration
                                     /\ calls[i].at \in Duration
         /\ \A i \in 1..Len(order) : order[i] \in Nat
<1> DEFINE Calls == [stamp : Duration, at : Duration]
<1>1. \A i \in 1..Len(calls) : calls[i] \in Calls
  <2>1. calls \in Seq(Calls)
    BY DEF TypeOK
  <2> HIDE DEF Calls
  <2> QED
    BY <2>1
<1> QED
  BY <1>1 DEF TypeOK

LEMMA InitIInv == Init => IInv
<1> SUFFICES ASSUME Init PROVE IInv
  OBVIOUS
<1>1. TypeOK
  BY RateLimiterAssumption DEF Init, TypeOK, Zero, Duration
<1>2. OrderMirrorsCalls /\ SpacedToTheSecond
  BY DEF Init, OrderMirrorsCalls, SpacedToTheSecond
<1>3. ClockOK
  BY RateLimiterAssumption DEF Init, ClockOK, Zero, Less
<1> QED
  BY <1>1, <1>2, <1>3 DEF IInv

LEMMA TickStep == ASSUME IInv, Tick PROVE IInv'
<1> USE DEF Tick
<1>1. now' \in Duration /\ now \in Duration /\ ~Less(now', now)
  BY RateLimiterAssumption DEF IInv, TypeOK, Duration, Less
<1>2. TypeOK'
  BY <1>1 DEF IInv, TypeOK
<1>3. OrderMirrorsCalls' /\ SpacedToTheSecond'
  BY DEF IInv, OrderMirrorsCalls, SpacedToTheSecond
<1>4. ClockOK'
  <2>1. now'.s <= MaxSecs
    BY RateLimiterAssumption DEF IInv, TypeOK, Duration, ClockOK
  <2>2. \A t \in Threads : ~Less(now', time[t])
    BY <1>1, LessTransitive, Typing DEF IInv, ClockOK
  <2>3. \A i \in 1..Len(calls) : ~Less(now', calls[i].at)
    BY <1>1, LessTransitive, Typing DEF IInv, ClockOK
  <2> QED
    BY <2>1, <2>2, <2>3 DEF IInv, ClockOK
<1> QED
  BY <1>2, <1>3, <1>4 DEF IInv

LEMMA ReadClockStep ==
  ASSUME IInv, NEW t \in Threads, time_since_epoch(t) PROVE IInv'
<1> USE DEF time_since_epoch
<1>1. TypeOK'
  BY DEF IInv, TypeOK
<1>2. OrderMirrorsCalls' /\ SpacedToTheSecond'
  BY DEF IInv, OrderMirrorsCalls, SpacedToTheSecond
<1>3. ~Less(now, now)
  BY RateLimiterAssumption DEF IInv, TypeOK, Duration, Less
<1>4. ClockOK'
  BY <1>3 DEF IInv, TypeOK, ClockOK
<1> QED
  BY <1>1, <1>2, <1>4 DEF IInv

\* The steps that touch neither the clock readings nor the calls.
LEMMA QuietStep ==
  ASSUME IInv, NEW t \in Threads, Load(t) \/ Skip(t) \/ ExchangeFails(t)
  PROVE  IInv'
<1> USE DEF Load, Skip, ExchangeFails
<1>0. /\ Len(order) \in 1..Len(order)
      /\ \A i \in seen[t]..Len(order) : i \in 1..Len(order) /\ i \in Nat
  BY Typing DEF IInv
<1>1. TypeOK'
  <2>1. CASE Load(t)
    BY <2>1, <1>0 DEF IInv, TypeOK
  <2>2. CASE Skip(t)
    BY <2>2 DEF IInv, TypeOK
  <2>3. CASE ExchangeFails(t)
    BY <2>3, <1>0 DEF IInv, TypeOK
  <2> QED
    BY <2>1, <2>2, <2>3
<1>2. OrderMirrorsCalls' /\ SpacedToTheSecond' /\ ClockOK'
  BY DEF IInv, OrderMirrorsCalls, SpacedToTheSecond, ClockOK
<1> QED
  BY <1>1, <1>2 DEF IInv

LEMMA ExchangeAndCallStep ==
  ASSUME IInv, NEW t \in Threads, ExchangeAndCall(t) PROVE IInv'
<1> USE DEF ExchangeAndCall
<1> DEFINE new == [stamp |-> time[t], at |-> now]
           n == Len(calls)
<1>1. /\ time[t] \in Duration /\ now \in Duration /\ n \in Nat
      /\ \A i \in 1..n : calls[i].stamp \in Duration /\ calls[i].at \in Duration
      /\ order \in Seq(Nat) /\ Len(order) = n + 1
  <2>1. order \in Seq(Nat) /\ Len(order) = n + 1
    BY DEF IInv, TypeOK, OrderMirrorsCalls
  <2> QED
    BY <2>1, Typing DEF IInv
<1>2. new_next(t) = End(time[t]) /\ new_next(t) \in Nat
  BY <1>1, PlusFacts DEF new_next, End
<1>3. /\ Len(calls') = n + 1 /\ calls'[n + 1] = new
      /\ \A i \in 1..n : calls'[i] = calls[i]
      /\ Len(order') = n + 2 /\ order'[n + 2] = new_next(t)
      /\ \A i \in 1..(n + 1) : order'[i] = order[i]
  BY <1>1, <1>2 DEF IInv, TypeOK
<1>4. \A i \in 1..Len(calls') : i \in 1..n \/ i = n + 1
  BY <1>1, <1>3
<1>5. TypeOK'
  BY <1>1, <1>2, <1>3 DEF IInv, TypeOK
<1>6. OrderMirrorsCalls'
  <2>1. order'[1] = 0
    BY <1>1, <1>3 DEF IInv, OrderMirrorsCalls
  <2>2. \A i \in 1..n : order'[i + 1] = End(calls'[i].stamp)
    BY <1>1, <1>3 DEF IInv, OrderMirrorsCalls
  <2>3. order'[(n + 1) + 1] = End(calls'[n + 1].stamp)
    BY <1>1, <1>2, <1>3
  <2>4. Len(order') = Len(calls') + 1
    BY <1>1, <1>3
  <2> QED
    BY <1>4, <2>1, <2>2, <2>3, <2>4 DEF OrderMirrorsCalls
<1>7. ClockOK'
  <2>1. now' = now /\ time' = time /\ ~Less(now, time[t])
    BY DEF IInv, ClockOK
  <2>2. ~Less(now, now)
    BY <1>1, RateLimiterAssumption DEF Duration, Less
  <2>3. /\ ~Less(calls'[n + 1].at, calls'[n + 1].stamp)
        /\ ~Less(now', calls'[n + 1].at)
    BY <1>3, <2>1, <2>2
  <2>4. \A i \in 1..n : /\ ~Less(calls'[i].at, calls'[i].stamp)
                        /\ ~Less(now', calls'[i].at)
    BY <1>3, <2>1 DEF IInv, ClockOK
  <2> QED
    BY <1>4, <2>1, <2>3, <2>4 DEF IInv, ClockOK
<1>8. \A i \in 1..n : time[t].s >= Plus(calls[i].stamp, Interval).s
  <2> SUFFICES ASSUME NEW i \in 1..n
               PROVE  time[t].s >= Plus(calls[i].stamp, Interval).s
    OBVIOUS
  <2> DEFINE last == calls[n].stamp
  <2>1. n \in 1..n /\ last \in Duration /\ i \in 1..n /\ calls[i].stamp \in Duration
    BY <1>1
  <2>2. End(last) <= time[t].s
    BY <1>1, <2>1 DEF Due, next, IInv, OrderMirrorsCalls
  <2>3. time[t].s <= MaxSecs
    <3>1. ~Less(now, time[t]) /\ now.s <= MaxSecs
      BY DEF IInv, ClockOK
    <3>2. now.s \in Nat /\ time[t].s \in Nat /\ MaxSecs \in Nat
      BY <1>1, RateLimiterAssumption DEF Duration
    <3>3. ~(now.s < time[t].s)
      BY <3>1 DEF Less
    <3> QED
      BY <3>1, <3>2, <3>3
  <2>4. Plus(last, Interval).s <= time[t].s
    <3>1. /\ End(last) \in Nat
          /\ End(last) < DurationMax.s => End(last) = Plus(last, Interval).s
      BY <2>1, PlusFacts
    <3>2. time[t].s \in Nat /\ DurationMax.s \in Nat /\ MaxSecs \in Nat
          /\ MaxSecs < DurationMax.s
      BY <1>1, RateLimiterAssumption DEF Duration
    <3>3. End(last) < DurationMax.s
      BY <2>2, <2>3, <3>1, <3>2
    <3> QED
      BY <2>2, <3>1, <3>3
  <2>5. CASE i = n
    BY <2>4, <2>5
  <2>6. CASE i < n
    <3>1. last.s >= Plus(calls[i].stamp, Interval).s
      BY <2>1, <2>6 DEF IInv, SpacedToTheSecond
    <3> QED
      <4>1. /\ Plus(last, Interval) \in Duration
            /\ Plus(calls[i].stamp, Interval) \in Duration
            /\ last.s <= Plus(last, Interval).s
        BY <2>1, PlusFacts
      <4>2. /\ last.s \in Nat /\ time[t].s \in Nat
            /\ Plus(last, Interval).s \in Nat
            /\ Plus(calls[i].stamp, Interval).s \in Nat
        BY <1>1, <2>1, <4>1 DEF Duration
      <4> QED
        BY <3>1, <2>4, <4>1, <4>2
  <2> QED
    BY <2>5, <2>6, <1>1
<1>9. SpacedToTheSecond'
  <2> SUFFICES ASSUME NEW i \in 1..Len(calls'), NEW j \in 1..Len(calls'), i < j
               PROVE  calls'[j].stamp.s >= Plus(calls'[i].stamp, Interval).s
    BY DEF SpacedToTheSecond
  <2>1. i \in 1..n
    BY <1>1, <1>3
  <2>2. CASE j \in 1..n
    BY <1>3, <2>1, <2>2 DEF IInv, SpacedToTheSecond
  <2>3. CASE j = n + 1
    BY <1>3, <1>8, <2>1, <2>3
  <2> QED
    BY <1>4, <2>2, <2>3
<1> QED
  BY <1>5, <1>6, <1>7, <1>9 DEF IInv

LEMMA NextIInv == IInv /\ [Next]_vars => IInv'
<1> SUFFICES ASSUME IInv, [Next]_vars PROVE IInv'
  OBVIOUS
<1>1. CASE Next
  BY <1>1, TickStep, ReadClockStep, QuietStep, ExchangeAndCallStep DEF Next
<1>2. CASE UNCHANGED vars
  BY <1>2 DEF vars, IInv, TypeOK, OrderMirrorsCalls, ClockOK, SpacedToTheSecond
<1> QED
  BY <1>1, <1>2

LEMMA Invariance == Spec => []IInv
  BY InitIInv, NextIInv, PTL DEF Spec

\* Two evaluated calls may be closer than the interval, by what was cut off when
\* the first one claimed its successor's second: by less than a second, however the
\* threads race (rate_limiter.rs:26-37).
THEOREM CloserByLessThanASecond ==
  Spec => [](\A i, j \in 1..Len(calls) :
               i < j => Less(Plus(calls[i].stamp, Interval),
                             [calls[j].stamp EXCEPT !.s = @ + 1]))
<1> DEFINE Close == \A i, j \in 1..Len(calls) :
                      i < j => Less(Plus(calls[i].stamp, Interval),
                                    [calls[j].stamp EXCEPT !.s = @ + 1])
<1>1. IInv => Close
  <2> SUFFICES ASSUME IInv, NEW i \in 1..Len(calls), NEW j \in 1..Len(calls), i < j
               PROVE  Less(Plus(calls[i].stamp, Interval), [calls[j].stamp EXCEPT !.s = @ + 1])
    OBVIOUS
  <2> DEFINE x == calls[i].stamp  y == calls[j].stamp
  <2>1. x \in Duration /\ y \in Duration
    BY Typing DEF IInv
  <2>2. y.s >= Plus(x, Interval).s
    BY DEF IInv, SpacedToTheSecond
  <2>3. Plus(x, Interval).s \in Nat /\ y.s \in Nat
    BY <2>1, PlusFacts DEF Duration
  <2>4. [y EXCEPT !.s = @ + 1].s = y.s + 1
    BY <2>1 DEF Duration
  <2> QED
    BY <2>2, <2>3, <2>4 DEF Less
<1> HIDE DEF Close
<1>2. Spec => []Close
  BY <1>1, Invariance, PTL
<1> QED
  BY <1>2 DEF Close

\* No call is evaluated before the second that an earlier one has claimed for its
\* successor, for any number of threads and however stale the values they load
\* (rate_limiter.rs:26-37).
THEOREM NoClaimIsJumped == Spec => []ClaimsAreHonoured
<1>1. IInv => ClaimsAreHonoured
  <2> SUFFICES ASSUME IInv, NEW i \in 1..Len(calls), NEW j \in 1..Len(calls), i < j
               PROVE  order[i + 1] <= calls[j].stamp.s
    BY DEF ClaimsAreHonoured
  <2> DEFINE x == calls[i].stamp  y == calls[j].stamp
  <2>1. x \in Duration /\ y \in Duration
    BY Typing DEF IInv
  <2>2. y.s >= Plus(x, Interval).s
    BY DEF IInv, SpacedToTheSecond
  <2>3. Plus(x, Interval).s \in Nat /\ y.s \in Nat /\ End(x) \in Nat
        /\ End(x) <= Plus(x, Interval).s
    BY <2>1, PlusFacts DEF Duration
  <2>4. order[i + 1] = End(x)
    BY DEF IInv, OrderMirrorsCalls
  <2> QED
    BY <2>2, <2>3, <2>4
<1> QED
  BY <1>1, Invariance, PTL

\* The clock stops short of what a Duration can hold, and so does every stamp.
LEMMA StampsArePast ==
  ASSUME IInv, NEW i \in 1..Len(calls)
  PROVE  /\ calls[i].stamp \in Duration
         /\ calls[i].stamp.s <= MaxSecs
<1>1. calls[i].stamp \in Duration /\ calls[i].at \in Duration /\ now \in Duration
  BY Typing DEF IInv
<1>2. ~Less(calls[i].at, calls[i].stamp) /\ ~Less(now, calls[i].at) /\ now.s <= MaxSecs
  BY DEF IInv, ClockOK
<1>3. calls[i].stamp.s <= calls[i].at.s /\ calls[i].at.s <= now.s
  BY <1>1, <1>2 DEF Less, Duration
<1> QED
  BY <1>1, <1>2, <1>3, RateLimiterAssumption DEF Duration

\* A claim lies after the second in which it is made.
LEMMA EndIsLater ==
  ASSUME NEW d \in Duration, d.s <= MaxSecs
  PROVE  d.s < End(d)
<1>1. /\ d.s \in Nat /\ Interval.s \in Nat \ {0}
      /\ DurationMax.s \in Nat /\ MaxSecs \in Nat /\ MaxSecs < DurationMax.s
  BY RateLimiterAssumption DEF Duration
<1>2. Plus(d, Interval).s \in {d.s + Interval.s, d.s + Interval.s + 1}
  BY DEF Plus
<1>3. End(d) \in {DurationMax.s, Plus(d, Interval).s}
  BY DEF End
<1> QED
  BY <1>1, <1>2, <1>3

\* Each claim is later than the ones before it.
ClaimsAscend == \A i, j \in 1..Len(order) : i < j => order[i] < order[j]

LEMMA SpacedClaimsAscend ==
  ASSUME IInv
  PROVE  ClaimsAscend
<1> SUFFICES ASSUME NEW i \in 1..Len(order), NEW j \in 1..Len(order), i < j
             PROVE  order[i] < order[j]
  BY DEF ClaimsAscend
<1> DEFINE y == calls[j - 1].stamp
<1>1. /\ Len(calls) \in Nat /\ Len(order) = Len(calls) + 1 /\ order[1] = 0
      /\ \A k \in 1..Len(calls) : order[k + 1] = End(calls[k].stamp)
  BY Typing DEF IInv, OrderMirrorsCalls
<1>2. j - 1 \in 1..Len(calls) /\ (j - 1) + 1 = j
  BY <1>1
<1>3. y \in Duration /\ y.s < End(y) /\ y.s \in Nat /\ End(y) \in Nat
  BY <1>2, StampsArePast, EndIsLater, PlusFacts DEF Duration
<1>4. order[j] = End(y)
  BY <1>1, <1>2
<1>5. CASE i = 1
  BY <1>1, <1>3, <1>4, <1>5
<1>6. CASE i # 1
  <2> DEFINE x == calls[i - 1].stamp
  <2>1. i - 1 \in 1..Len(calls) /\ (i - 1) + 1 = i /\ i - 1 < j - 1
    BY <1>1, <1>6
  <2>2. order[i] = End(x) /\ x \in Duration
    BY <1>1, <2>1, StampsArePast
  <2>3. y.s >= Plus(x, Interval).s
    BY <1>2, <2>1 DEF IInv, SpacedToTheSecond
  <2>4. /\ End(x) \in Nat /\ End(x) <= Plus(x, Interval).s
        /\ Plus(x, Interval).s \in Nat
    BY <2>2, PlusFacts DEF Duration
  <2> QED
    BY <1>3, <1>4, <2>2, <2>3, <2>4
<1> QED
  BY <1>5, <1>6

\* No value of NEXT_CALL comes back, so that a thread whose compare-exchange succeeds,
\* which compares values only, has seen the newest claim (rate_limiter.rs:31-37).
THEOREM NoClaimComesBack ==
  Spec => /\ []ClaimsAscend
          /\ [][\A t \in Threads : ExchangeAndCall(t) => seen[t] = Len(order)]_vars
<1> DEFINE Newest == \A t \in Threads : ExchangeAndCall(t) => seen[t] = Len(order)
<1>1. IInv => ClaimsAscend
  BY SpacedClaimsAscend
<1>2. IInv => Newest
  <2> SUFFICES ASSUME IInv, NEW t \in Threads, ExchangeAndCall(t)
               PROVE  seen[t] = Len(order)
    OBVIOUS
  <2>1. /\ Len(order) \in 1..Len(order) /\ seen[t] \in 1..Len(order)
        /\ order[seen[t]] \in Nat
    BY Typing DEF IInv
  <2>2. order[Len(order)] = order[seen[t]]
    BY DEF ExchangeAndCall, next
  <2>3. ~(order[seen[t]] < order[Len(order)])
    BY <2>1, <2>2
  <2>4. ~(seen[t] < Len(order))
    BY <2>1, <2>3, SpacedClaimsAscend DEF ClaimsAscend
  <2> QED
    BY <2>1, <2>4
<1> HIDE DEF Newest
<1>3. Spec => []ClaimsAscend /\ [][Newest]_vars
  BY <1>1, <1>2, Invariance, PTL
<1> QED
  BY <1>3 DEF Newest

\* Who finds that the next call is not due yet has seen a claim whose interval is
\* not over.
LEMMA SkipIsNearACall ==
  ASSUME IInv, NEW t \in Threads, Skip(t)
  PROVE  \E i \in 1..Len(calls) : Less(time[t], Plus(calls[i].at, Interval))
<1> DEFINE n == seen[t] - 1
<1>1. /\ Len(calls) \in Nat /\ Len(order) = Len(calls) + 1
      /\ time[t] \in Duration /\ seen[t] \in 1..Len(order)
  BY Typing DEF IInv, OrderMirrorsCalls
<1>2. ~(order[seen[t]] <= time[t].s)
  BY DEF Skip, Due, next
<1>3. time[t].s \in Nat
  BY <1>1 DEF Duration
<1>4. seen[t] # 1
  <2>1. order[1] = 0
    BY DEF IInv, OrderMirrorsCalls
  <2> QED
    BY <1>2, <1>3, <2>1
<1>5. n \in 1..Len(calls) /\ n + 1 = seen[t]
  BY <1>1, <1>4
<1> HIDE DEF n
<1>6. /\ calls[n].stamp \in Duration /\ calls[n].at \in Duration
      /\ ~Less(calls[n].at, calls[n].stamp)
  BY <1>5, Typing DEF IInv, ClockOK
<1>7. time[t].s < Plus(calls[n].stamp, Interval).s
  <2>1. order[seen[t]] = End(calls[n].stamp)
    BY <1>5 DEF IInv, OrderMirrorsCalls
  <2>2. /\ End(calls[n].stamp) \in Nat
        /\ End(calls[n].stamp) <= Plus(calls[n].stamp, Interval).s
        /\ Plus(calls[n].stamp, Interval).s \in Nat
    BY <1>6, PlusFacts DEF Duration
  <2> QED
    BY <1>2, <1>3, <2>1, <2>2
<1>8. Less(time[t], Plus(calls[n].stamp, Interval))
  BY <1>7 DEF Less
<1>9. Less(time[t], Plus(calls[n].at, Interval))
  BY <1>1, <1>6, <1>8, PlusMonotone
<1> QED
  BY <1>5, <1>9

\* However old its view, a thread that is turned away by the value it loaded is
\* turned away less than an interval after an evaluated call: a relaxed load can
\* lose it a race, and nothing else (rate_limiter.rs:27-30).
THEOREM StaleViewsSilenceNothing ==
  Spec => [][\A t \in Threads :
               Skip(t) => \E i \in 1..Len(calls) :
                            Less(time[t], Plus(calls[i].at, Interval))]_vars
<1> DEFINE Justified == \A t \in Threads :
                          Skip(t) => \E i \in 1..Len(calls) :
                                       Less(time[t], Plus(calls[i].at, Interval))
<1>1. IInv => Justified
  BY SkipIsNearACall
<1> HIDE DEF Justified
<1>2. Spec => [][Justified]_vars
  BY <1>1, Invariance, PTL
<1> QED
  BY <1>2 DEF Justified

\* A thread with a current view is turned away only less than an interval
\* after an evaluated call (rate_limiter.rs:27-38).
THEOREM SilenceIsJustified == Spec => SuppressedNearACall
<1> DEFINE Turned(t) == /\ pc[t] = "loaded" /\ pc'[t] = "idle"
                        /\ calls' = calls /\ seen[t] = Len(order)
           Near(t) == \E i \in 1..Len(calls) :
                        Less(time[t], Plus(calls[i].at, Interval))
<1>1. IInv /\ [Next]_vars => \A t \in Threads : Turned(t) => Near(t)
  <2> SUFFICES ASSUME IInv, [Next]_vars, NEW t \in Threads, Turned(t)
               PROVE  Near(t)
    OBVIOUS
  <2>1. Skip(t)
    <3>1. PICK u \in Threads : Skip(u) \/ ExchangeFails(u)
                                \/ ExchangeAndCall(u) \/ Load(u)
                                \/ time_since_epoch(u)
      BY DEF Next, vars, Tick
    <3>2. u = t
      BY <3>1 DEF time_since_epoch, Load, Skip, ExchangeAndCall,
         ExchangeFails, IInv, TypeOK
    <3>3. Len(calls') = Len(calls)
      OBVIOUS
    <3>4. ~ExchangeAndCall(t)
      BY <3>3 DEF ExchangeAndCall, IInv, TypeOK
    <3>5. ~ExchangeFails(t)
      BY DEF ExchangeFails, next
    <3>6. ~Load(t) /\ ~time_since_epoch(t)
      BY DEF Load, time_since_epoch
    <3> QED
      BY <3>1, <3>2, <3>4, <3>5, <3>6
  <2> QED
    BY <2>1, SkipIsNearACall
<1>2. IInv /\ [Next]_vars =>
        [\A t \in Threads :
           (pc[t] = "loaded" /\ pc'[t] = "idle" /\ calls' = calls
              /\ seen[t] = Len(order)) =>
             \E i \in 1..Len(calls) : Less(time[t], Plus(calls[i].at, Interval))]_vars
  BY <1>1
<1> QED
  BY <1>2, Invariance, PTL DEF Spec, SuppressedNearACall

=============================================================================
