------------------------- MODULE MCGracefulShutdown -------------------------
(***************************************************************************)
(* GracefulShutdown; the extension has no listener, so the constants of    *)
(* module Listener are as small as they can be.                            *)
(***************************************************************************)
EXTENDS GracefulShutdown

MCProcessors == <<>>
MCApiOf == <<>>
MCTo == <<>>

Spec == ShutdownSpec /\ ShutdownFairness

=============================================================================
