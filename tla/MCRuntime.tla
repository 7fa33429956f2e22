----------------------------- MODULE MCRuntime -----------------------------
(***************************************************************************)
(* Small instances of Runtime for TLC.  Attempts a1 and a2 are two         *)
(* deliveries of one request, so that answers can meet the retry; a3 is    *)
(* another request.                                                        *)
(***************************************************************************)
EXTENDS RuntimeInv

CONSTANTS a1, a2, a3, r1, r2

MCReqOf == [a \in Attempts |-> IF a = a3 THEN r2 ELSE r1]

Good == [status |-> "ok", intake |-> "ok", payload |-> "ok",
         invId |-> "ok", trace |-> TRUE]

\* Every way a response can differ from a good one, one at a time.
OneFlaw == {s \in AllShapes :
              /\ s.status # "noContent"
              /\ Cardinality({f \in DOMAIN Good : s[f] # Good[f]}) <= 1}

\* The flaws that change what RAPID, the environment or the loop gets to see.
Essential == {Good,
              [Good EXCEPT !.payload = "bad"],
              [Good EXCEPT !.invId = "malformed", !.trace = FALSE]}

\* The same, and a response that cannot be read.
EssentialOrUnreadable == Essential \cup {[Good EXCEPT !.intake = "err"]}

=============================================================================
