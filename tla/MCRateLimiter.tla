--------------------------- MODULE MCRateLimiter ---------------------------
(***************************************************************************)
(* RateLimiter with half seconds, an interval that is not a whole number   *)
(* of seconds, or one that is, and a clock that runs long enough for three *)
(* calls.                                                                  *)
(***************************************************************************)
EXTENDS RateLimiter, TLC

MCInterval == [s |-> 1, f |-> 1]
MCWholeInterval == [s |-> 1, f |-> 0]
MCDurationMax == [s |-> 20, f |-> 1]
Symmetry == Permutations(Threads)

=============================================================================
