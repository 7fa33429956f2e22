-------------------------- MODULE GracefulShutdown --------------------------
(***************************************************************************)
(* spawn_graceful_shutdown_handler (lambda-runtime/src/lib.rs:267-321):    *)
(* the program registers an extension without events or processors, and a  *)
(* task of its own listens for the signals, runs the hook on the first one *)
(* and exits; the same task runs the extension, whose request for the next *)
(* event, never answered, lets the platform end the init phase.            *)
(*                                                                         *)
(* The platform sends SIGTERM once the init phase is over; SIGINT comes    *)
(* from elsewhere, at any time.                                            *)
(***************************************************************************)
EXTENDS Extension

ASSUME NoOpExtension == Processors = <<>>

VARIABLES
  main,    (* the function that spawns the handler, then serves            *)
  helper,  (* the spawned task; "deaf" when a listener panicked it         *)
  handled, (* the signals whose default action is replaced, for good       *)
  pending, (* the signals that came and that nobody has received           *)
  sent,    (* history: the signals that were sent, each one once           *)
  hook,
  process

taskVars == <<main, helper>>
signalVars == <<handled, pending, sent>>
shutdownVars == <<extensionVars, taskVars, signalVars, hook, process>>

Signals == {"SIGINT", "SIGTERM"}

ShutdownTypeOK ==
  /\ main \in {"registering", "serving", "returned", "failed"}
  /\ helper \in {"none", "spawned", "interruptible", "listening", "hooked", "exiting",
                 "deaf", "dead"}
  /\ handled \subseteq Signals
  /\ pending \subseteq handled
  /\ sent \subseteq Signals
  /\ hook \in {"none", "running", "completed", "panicked"}
  /\ process \in {"alive", "exit0", "failed", "killed"}

InitShutdown ==
  /\ InitExtension
  /\ main = "registering"
  /\ helper = "none"
  /\ handled = {}
  /\ pending = {}
  /\ sent = {}
  /\ hook = "none"
  /\ process = "alive"

-----------------------------------------------------------------------------
(* The function.                                                           *)

Registers ==
  /\ process = "alive"
  /\ register \/ Registered
  /\ UNCHANGED <<taskVars, signalVars, hook, process>>

\* `expect` on the registration.
RegistrationPanics ==
  /\ process = "alive"
  /\ RegisterFails
  /\ main' = "failed"
  /\ process' = "failed"
  /\ UNCHANGED <<helper, signalVars, hook>>

spawn ==
  /\ process = "alive"
  /\ main = "registering"
  /\ pc = "registered"
  /\ main' = "serving"
  /\ helper' = "spawned"
  /\ UNCHANGED <<extensionVars, signalVars, hook, process>>

\* The program's main returns Ok, or fails, and with it everything ends, a hook
\* that is running included.
MainEnds ==
  /\ process = "alive"
  /\ main = "serving"
  /\ \/ main' = "returned" /\ process' = "exit0"
     \/ main' = "failed" /\ process' = "failed"
  /\ UNCHANGED <<extensionVars, helper, signalVars, hook>>

-----------------------------------------------------------------------------
(* The task: its first poll installs both listeners, then polls `run`.     *)

signal ==
  /\ process = "alive"
  /\ \/ helper = "spawned" /\ helper' = "interruptible" /\ handled' = {"SIGINT"}
     \/ helper = "interruptible" /\ helper' = "listening" /\ handled' = Signals
  /\ UNCHANGED <<extensionVars, main, pending, sent, hook, process>>

\* A listener that cannot be installed panics the task, and nobody joins it.
signalPanics ==
  /\ process = "alive"
  /\ helper \in {"spawned", "interruptible"}
  /\ helper' = "deaf"
  /\ UNCHANGED <<extensionVars, main, signalVars, hook, process>>

recv(s) ==
  /\ process = "alive"
  /\ helper = "listening"
  /\ s \in pending
  /\ helper' = "hooked"
  /\ hook' = "running"
  /\ pending' = pending \ {s}
  /\ UNCHANGED <<extensionVars, main, handled, sent, process>>

HookReturns ==
  /\ process = "alive"
  /\ helper = "hooked"
  /\ helper' = "exiting"
  /\ hook' = "completed"
  /\ UNCHANGED <<extensionVars, main, signalVars, process>>

\* Faulty variant: the hook is started and not awaited.
exitAtOnce ==
  /\ process = "alive"
  /\ helper \in {"hooked", "exiting"}
  /\ process' = "exit0"
  /\ UNCHANGED <<extensionVars, taskVars, signalVars, hook>>

\* The poll that saw the hook return goes on to the exit, and does not come to
\* the extension again; other threads run on until then.
exit ==
  /\ process = "alive"
  /\ helper = "exiting"
  /\ process' = "exit0"
  /\ UNCHANGED <<extensionVars, taskVars, signalVars, hook>>

\* The task ends, and drops the extension with it.
HookPanics ==
  /\ process = "alive"
  /\ helper = "hooked"
  /\ helper' = "dead"
  /\ hook' = "panicked"
  /\ UNCHANGED <<extensionVars, main, signalVars, process>>

\* Faulty variants: the extension is polled before the listeners; and only
\* after the future that waits for the signals.
polledFirst == helper \in {"spawned", "interruptible", "listening", "hooked"}
polledLast == helper = "dead"

polled == helper \in {"listening", "hooked"}

ExtensionRuns ==
  /\ process = "alive"
  /\ polled
  /\ run
  /\ UNCHANGED <<taskVars, signalVars, hook, process>>

\* Faulty variant: an error of the extension ends the task.
ExtensionEndsTask ==
  /\ process = "alive"
  /\ polled
  /\ NextFails
  /\ helper' = "dead"
  /\ UNCHANGED <<main, signalVars, hook, process>>

\* The error of the extension is dropped.
ExtensionFails ==
  /\ process = "alive"
  /\ polled
  /\ NextFails
  /\ UNCHANGED <<taskVars, signalVars, hook, process>>

-----------------------------------------------------------------------------
(* The signals.                                                            *)

InitOver == pc = "polling" \/ cause = "next"

Signal(s) ==
  /\ process = "alive"
  /\ s \notin sent
  /\ s = "SIGTERM" => InitOver
  /\ sent' = sent \cup {s}
  /\ IF s \in handled
     THEN pending' = pending \cup {s} /\ UNCHANGED process
     ELSE process' = "killed" /\ UNCHANGED pending
  /\ UNCHANGED <<extensionVars, taskVars, handled, hook>>

-----------------------------------------------------------------------------
ShutdownNext ==
  \/ Registers \/ RegistrationPanics \/ spawn \/ MainEnds
  \/ signal \/ signalPanics
  \/ HookReturns \/ HookPanics \/ exit
  \/ ExtensionRuns \/ ExtensionFails
  \/ \E s \in Signals : recv(s) \/ Signal(s)

ShutdownSpec == InitShutdown /\ [][ShutdownNext]_shutdownVars

\* Tokio polls the task again and again, and the hook returns or panics.
ShutdownFairness ==
  /\ WF_shutdownVars(signal \/ signalPanics)
  /\ WF_shutdownVars(\E s \in Signals : recv(s))
  /\ WF_shutdownVars(HookReturns \/ HookPanics)
  /\ WF_shutdownVars(exit)
  /\ WF_shutdownVars(ExtensionRuns)

-----------------------------------------------------------------------------
(* Properties.                                                             *)

\* Both listeners are in place before the request that lets the platform end
\* the init phase: SIGTERM never meets its default action (lib.rs:291-318).
TerminationHeard == process = "killed" => "SIGTERM" \notin sent

\* A hook that was started runs out: neither a second signal nor the task's own
\* exit(0) ends the process under it, only the end of the program's main does; and
\* a signal kills no process whose hook was started, one that panicked included
\* (lib.rs:291-318).
HookRunsOut ==
  /\ hook = "running" /\ process # "alive" => main \in {"returned", "failed"}
  /\ hook # "none" => process # "killed"

\* A signal that was caught ends the process, also after the extension failed:
\* only a panic of the task can swallow it (lib.rs:293-318).
SignalEndsProcess ==
  pending # {} ~> (process # "alive" \/ helper = "deaf" \/ hook = "panicked")

\* Once the handler is spawned the extension asks for its next event, whatever
\* the signals do in the meantime (lib.rs:311-319).
InitPhaseEnds ==
  main = "serving" ~> \/ InitOver
                      \/ process # "alive" \/ helper = "deaf" \/ hook = "panicked"

=============================================================================
