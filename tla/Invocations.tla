---------------------------- MODULE Invocations ----------------------------
(***************************************************************************)
(* What the Lambda runtime promises about the invocations it is handed,    *)
(* with no workers, HTTP calls or layers in sight.                         *)
(*                                                                         *)
(* The runtime owns a number of slots (one per worker, a single one when   *)
(* it polls sequentially).  An invocation attempt is taken into a free     *)
(* slot, and from then on there are two ends for it only: an answer is     *)
(* posted for it, or the slot dies with it.  No attempt is dropped by a    *)
(* slot that lives on, none is answered twice, and there are never more    *)
(* running attempts than living slots.                                     *)
(***************************************************************************)
EXTENDS Naturals, FiniteSets

CONSTANTS
  Attempts,   (* the attempts Lambda makes to run the function             *)
  Limit       (* the number of slots the runtime starts with               *)

VARIABLES
  status,     (* where each attempt stands                                 *)
  slots       (* the slots still alive                                     *)

vars == <<status, slots>>

Statuses == {"queued", "undelivered", "running", "answered", "lost"}

TypeOK ==
  /\ status \in [Attempts -> Statuses]
  /\ slots \in 0..Limit

Running == {a \in Attempts : status[a] = "running"}

Move(a, from, to) ==
  /\ status[a] = from
  /\ status' = [status EXCEPT ![a] = to]

-----------------------------------------------------------------------------

Init ==
  /\ status = [a \in Attempts |-> "queued"]
  /\ slots = Limit

\* A free slot takes a queued attempt.
Take(a) ==
  /\ Cardinality(Running) < slots
  /\ Move(a, "queued", "running")
  /\ UNCHANGED slots

\* The answer of a running attempt is handed to the Runtime API.
Answer(a) ==
  /\ Move(a, "running", "answered")
  /\ UNCHANGED slots

\* An attempt is lost only together with the slot that ran it.
Lose(a) ==
  /\ Move(a, "running", "lost")
  /\ slots' = slots - 1

\* The attempt never reached the runtime; the slot that asked for it may
\* or may not survive that.
Undeliver(a) ==
  /\ Cardinality(Running) < slots
  /\ Move(a, "queued", "undelivered")
  /\ slots' \in {slots, slots - 1}

\* A slot that runs no attempt dies.
CloseSlot ==
  /\ Cardinality(Running) < slots
  /\ slots' = slots - 1
  /\ UNCHANGED status

Next ==
  \/ \E a \in Attempts : Take(a) \/ Answer(a) \/ Lose(a) \/ Undeliver(a)
  \/ CloseSlot

\* A running attempt comes to one of its two ends.
Fairness == \A a \in Attempts : WF_vars(Answer(a) \/ Lose(a))

Safety == Init /\ [][Next]_vars
Spec == Safety /\ Fairness

=============================================================================
