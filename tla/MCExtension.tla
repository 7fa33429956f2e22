---------------------------- MODULE MCExtension ----------------------------
(***************************************************************************)
(* Extension with a log and a telemetry processor.  The platform's traffic *)
(* is that of the Logs API, whose second batch is malformed.               *)
(***************************************************************************)
EXTENDS Extension

CONSTANTS logs, telemetry, b1, b2

MCApiOf == [b \in Batches |-> logs]
MCTo == [c \in Conns |-> logs]
MCMalformed == {b2}
MCProcessors == <<logs, telemetry>>

Spec == ExtensionSpec /\ ListenerFairness

=============================================================================
