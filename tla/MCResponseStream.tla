-------------------------- MODULE MCResponseStream --------------------------
(***************************************************************************)
(* ResponseStream with two chunks besides the framing.                     *)
(***************************************************************************)
EXTENDS ResponseStream

CONSTANTS c1, c2 (* chunks                                                 *)

MCItems == {Prelude, Delimiter, ErrorText, c1, c2}

=============================================================================
