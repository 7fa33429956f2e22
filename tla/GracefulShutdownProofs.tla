----------------------- MODULE GracefulShutdownProofs -----------------------
(***************************************************************************)
(* Proofs for GracefulShutdown.  The init phase ends only when the task    *)
(* has polled the extension, which it does after both listeners are in     *)
(* place, and nothing takes a listener's handler away again: so no SIGTERM *)
(* of the platform finds the default action.                               *)
(***************************************************************************)
EXTENDS GracefulShutdown, TLAPS

\* Listeners are installed before the extension is polled.
ListeningOK ==
  /\ helper \in {"listening", "hooked", "exiting"} => handled = Signals
  /\ InitOver => handled = Signals /\ helper \notin {"none", "spawned", "interruptible"}
  /\ pc # "returned" => cause = "none"

\* The platform's signal comes when the init phase is over; a hook is started by a
\* task that listens, which waits for it.  There is one task.
SignalsOK ==
  /\ "SIGTERM" \in sent => InitOver
  /\ pending \subseteq sent
  /\ hook # "none" => handled = Signals /\ helper \in {"hooked", "exiting", "dead"}
  /\ hook = "running" => helper = "hooked"
  /\ main = "registering" => helper = "none"

IInv == ListeningOK /\ SignalsOK /\ TerminationHeard /\ HookRunsOut

-----------------------------------------------------------------------------
(* The steps.                                                              *)

\* Nothing is installed and nothing was sent yet.
LEMMA InitIInv ==
  ASSUME InitShutdown
  PROVE  IInv
BY DEF InitShutdown, InitExtension, IInv, ListeningOK, SignalsOK, TerminationHeard,
       HookRunsOut, InitOver, Signals

\* The function registers the extension and spawns the task; main may end.
LEMMA MainIInv ==
  ASSUME IInv, Registers \/ RegistrationPanics \/ spawn \/ MainEnds
  PROVE  IInv'
<1> USE DEF IInv, ListeningOK, SignalsOK, TerminationHeard, HookRunsOut, InitOver
<1>1. CASE Registers
  BY <1>1 DEF Registers, register, Registered, taskVars, signalVars
<1>2. CASE RegistrationPanics
  BY <1>2 DEF RegistrationPanics, RegisterFails, Return, signalVars
<1>3. CASE spawn
  <2>1. /\ pc = "registered" /\ pc' = pc /\ cause' = cause
        /\ helper = "none" /\ helper' = "spawned" /\ main' = "serving"
    BY <1>3 DEF spawn, extensionVars, mainVars
  <2>2. UNCHANGED <<handled, pending, sent, hook, process>>
    BY <1>3 DEF spawn, signalVars
  <2>3. ~InitOver
    BY <1>3 DEF spawn
  <2> QED
    BY <2>1, <2>2, <2>3
<1>4. CASE MainEnds
  BY <1>4 DEF MainEnds, extensionVars, mainVars, signalVars
<1> QED
  BY <1>1, <1>2, <1>3, <1>4

\* The task installs its listeners, takes a signal and runs the hook.
LEMMA TaskIInv ==
  ASSUME IInv,
         signal \/ signalPanics \/ HookReturns \/ HookPanics \/ exit \/ \E s \in Signals : recv(s)
  PROVE  IInv'
<1> USE DEF IInv, ListeningOK, SignalsOK, TerminationHeard, HookRunsOut, InitOver
<1>1. CASE signal
  BY <1>1 DEF signal, extensionVars, mainVars
<1>2. CASE signalPanics
  BY <1>2 DEF signalPanics, extensionVars, mainVars, signalVars
<1>3. CASE HookReturns
  BY <1>3 DEF HookReturns, extensionVars, mainVars, signalVars
<1>4. CASE HookPanics
  BY <1>4 DEF HookPanics, extensionVars, mainVars, signalVars
<1>5. CASE exit
  BY <1>5 DEF exit, extensionVars, mainVars, taskVars, signalVars
<1>6. CASE \E s \in Signals : recv(s)
  BY <1>6 DEF recv, extensionVars, mainVars
<1> QED
  BY <1>1, <1>2, <1>3, <1>4, <1>5, <1>6

\* The extension, which the task polls after its listeners.
LEMMA ExtensionIInv ==
  ASSUME IInv, ExtensionRuns \/ ExtensionFails
  PROVE  IInv'
<1> USE DEF IInv, ListeningOK, SignalsOK, TerminationHeard, HookRunsOut, InitOver
<1>1. CASE ExtensionRuns
  BY <1>1 DEF ExtensionRuns, polled, run, taskVars, signalVars
<1>2. CASE ExtensionFails
  BY <1>2 DEF ExtensionFails, polled, NextFails, Return, taskVars, signalVars
<1> QED
  BY <1>1, <1>2

\* A signal is caught, or takes its default action.
LEMMA SignalIInv ==
  ASSUME IInv, NEW s \in Signals, Signal(s)
  PROVE  IInv'
<1> USE DEF IInv, ListeningOK, SignalsOK, TerminationHeard, HookRunsOut, InitOver
<1>1. UNCHANGED <<pc, cause, main, helper, handled, hook>> /\ sent' = sent \cup {s}
  BY DEF Signal, extensionVars, mainVars, taskVars
<1>2. /\ s = "SIGTERM" => InitOver
      /\ process = "alive"
      /\ s \in handled => pending' = pending \cup {s} /\ process' = process
      /\ s \notin handled => pending' = pending /\ process' = "killed"
  BY DEF Signal
<1>3. CASE s \in handled
  BY <1>1, <1>2, <1>3
<1>4. CASE s \notin handled
  <2>1. ~InitOver /\ hook = "none"
    BY <1>4
  <2> QED
    BY <1>1, <1>2, <1>4, <2>1
<1> QED
  BY <1>3, <1>4

\* Every step keeps the invariant.
LEMMA NextIInv ==
  ASSUME IInv, [ShutdownNext]_shutdownVars
  PROVE  IInv'
<1>1. CASE ShutdownNext
  BY <1>1, MainIInv, TaskIInv, ExtensionIInv, SignalIInv DEF ShutdownNext
<1>2. CASE UNCHANGED shutdownVars
  BY <1>2 DEF shutdownVars, extensionVars, mainVars, taskVars, signalVars, IInv, ListeningOK,
              SignalsOK, TerminationHeard, HookRunsOut, InitOver
<1> QED
  BY <1>1, <1>2

-----------------------------------------------------------------------------
(* The theorems.                                                           *)

\* In every state of the handler the extension was not polled before both
\* listeners were in place (lib.rs:289-318).
THEOREM Invariant == ShutdownSpec => []IInv
<1>1. InitShutdown => IInv
  BY InitIInv
<1>2. IInv /\ [ShutdownNext]_shutdownVars => IInv'
  BY NextIInv
<1> QED
  BY <1>1, <1>2, PTL DEF ShutdownSpec

\* SIGTERM, which comes only when the init phase is over, never kills the
\* process: it is caught (lib.rs:291-318).
THEOREM TerminationIsHeard == ShutdownSpec => []TerminationHeard
<1>1. IInv => TerminationHeard
  BY DEF IInv
<1> QED
  BY <1>1, Invariant, PTL

\* Nothing but the end of main cuts a hook short: every handler stays installed
\* once it is, and the task exits only when the hook has returned (lib.rs:291-318).
THEOREM HookIsLetRun == ShutdownSpec => []HookRunsOut
<1>1. IInv => HookRunsOut
  BY DEF IInv
<1> QED
  BY <1>1, Invariant, PTL

-----------------------------------------------------------------------------
(* The task's way to the end of the process.                               *)

\* The task is spawned once the extension is registered, is dead only of its hook,
\* and has signals to receive only when it listens for one.
StageOK ==
  /\ process = "alive" => main \in {"registering", "serving"}
  /\ main = "registering" => /\ helper = "none"
                             /\ pc \in {"registering", "configuring", "registered"}
  /\ main = "serving" => /\ helper # "none"
                         /\ pc \in {"registered", "polling", "returned"}
                         /\ pc = "returned" => cause = "next"
  /\ helper \in {"none", "spawned", "interruptible", "listening", "hooked",
                 "exiting", "deaf", "dead"}
  /\ helper = "dead" => hook = "panicked"
  /\ helper \in {"none", "spawned"} => handled = {}
  /\ pending \subseteq handled /\ handled \subseteq Signals

\* Nothing is spawned and nothing is heard yet.
LEMMA InitStage ==
  ASSUME InitShutdown
  PROVE  StageOK
BY DEF InitShutdown, InitExtension, StageOK

\* Every step keeps the stage the task is at in line with the rest.
LEMMA StageKept ==
  ASSUME StageOK, [ShutdownNext]_shutdownVars
  PROVE  StageOK'
<1> USE DEF StageOK
<1>1. CASE Registers
  <2>1. main = "registering" /\ pc' \in {"configuring", "registered"}
    BY <1>1 DEF Registers, register, Registered
  <2>2. UNCHANGED <<main, helper, handled, pending, hook, process>>
    BY <1>1 DEF Registers, taskVars, signalVars
  <2> QED
    BY <2>1, <2>2
<1>2. CASE RegistrationPanics
  <2>1. main' = "failed" /\ process' = "failed"
    BY <1>2 DEF RegistrationPanics
  <2>2. UNCHANGED <<helper, handled, pending, hook>>
    BY <1>2 DEF RegistrationPanics, signalVars
  <2> QED
    BY <2>1, <2>2
<1>3. CASE spawn
  <2>1. /\ main' = "serving" /\ helper' = "spawned" /\ pc = "registered" /\ pc' = pc
        /\ UNCHANGED <<handled, pending, hook, process>>
    BY <1>3 DEF spawn, extensionVars, mainVars, signalVars
  <2>2. handled = {}
    BY <1>3 DEF spawn
  <2> QED
    BY <2>1, <2>2
<1>4. CASE MainEnds
  <2>1. main' \in {"returned", "failed"} /\ process' # "alive"
    BY <1>4 DEF MainEnds
  <2>2. UNCHANGED <<helper, handled, pending, hook>>
    BY <1>4 DEF MainEnds, signalVars
  <2> QED
    BY <2>1, <2>2
<1>5. CASE signal
  BY <1>5 DEF signal, extensionVars, mainVars, Signals
<1>6. CASE signalPanics
  BY <1>6 DEF signalPanics, extensionVars, mainVars, signalVars
<1>7. CASE exit \/ HookReturns
  BY <1>7 DEF exit, HookReturns, extensionVars, mainVars, taskVars, signalVars
<1>8. CASE HookPanics
  BY <1>8 DEF HookPanics, extensionVars, mainVars, signalVars
<1>9. CASE ExtensionRuns
  BY <1>9 DEF ExtensionRuns, polled, run, taskVars, signalVars
<1>10. CASE ExtensionFails
  <2>1. main = "serving" /\ pc' = "returned" /\ cause' = "next"
    BY <1>10 DEF ExtensionFails, NextFails, Return
  <2>2. UNCHANGED <<main, helper, handled, pending, hook, process>>
    BY <1>10 DEF ExtensionFails, taskVars, signalVars
  <2> QED
    BY <2>1, <2>2
<1>11. ASSUME NEW s \in Signals, recv(s)  PROVE StageOK'
  BY <1>11 DEF recv, extensionVars, mainVars
<1>12. ASSUME NEW s \in Signals, Signal(s)  PROVE StageOK'
  <2>1. UNCHANGED <<pc, cause, main, helper, handled, hook>> /\ process = "alive"
    BY <1>12 DEF Signal, extensionVars, mainVars, taskVars
  <2>2. pending' \subseteq handled'
    BY <1>12, <2>1 DEF Signal
  <2> QED
    BY <2>1, <2>2
<1>13. CASE UNCHANGED shutdownVars
  BY <1>13 DEF shutdownVars, extensionVars, mainVars, taskVars, signalVars
<1> QED
  BY <1>1, <1>2, <1>3, <1>4, <1>5, <1>6, <1>7, <1>8, <1>9, <1>10, <1>11, <1>12, <1>13
     DEF ShutdownNext

\* In every state the task's stage is in line with the rest.
LEMMA Staged == ShutdownSpec => []StageOK
<1> QED
  BY InitStage, StageKept, PTL DEF ShutdownSpec

\* The task can take its next step towards the exit: it installs a listener, has
\* a signal to receive, or a hook that is running or has returned.
TaskCanMove ==
  \/ helper \in {"spawned", "interruptible"}
  \/ helper = "listening" /\ pending # {}
  \/ helper \in {"hooked", "exiting"}

\* A signal that was caught is never left behind: the task can move, unless the
\* process is over, a listener failed or the hook panicked (lib.rs:293-318).
SignalIsAttended ==
  pending # {} => \/ TaskCanMove
                  \/ process # "alive" \/ helper = "deaf" \/ hook = "panicked"

\* Until the extension has asked for its first event, the task is on its way to
\* poll it, or its listeners are in place and it can: only a listener that failed
\* or a hook that panicked leave the init phase open (lib.rs:311-319).
ExtensionIsAttended ==
  main = "serving" /\ ~InitOver =>
    \/ pc = "registered" /\ (TaskCanMove \/ polled)
    \/ process # "alive" \/ helper = "deaf" \/ hook = "panicked"

\* Nothing the program and the signals do leaves a caught signal, or the init
\* phase, without a step that brings its end closer.
THEOREM SomebodyAttends == ShutdownSpec => [](SignalIsAttended /\ ExtensionIsAttended)
<1>1. StageOK => SignalIsAttended
  BY DEF StageOK, SignalIsAttended, TaskCanMove
<1>2. StageOK => ExtensionIsAttended
  BY DEF StageOK, ExtensionIsAttended, TaskCanMove, InitOver, polled
<1> QED
  BY <1>1, <1>2, Staged, PTL

\* How many steps the task is away from the end.
StepsLeft ==
  IF process # "alive" THEN 0
  ELSE IF helper = "none" THEN 6
  ELSE IF helper = "spawned" THEN 5
  ELSE IF helper = "interruptible" THEN 4
  ELSE IF helper = "listening" THEN 3
  ELSE IF helper = "hooked" THEN 2
  ELSE IF helper = "exiting" THEN 1
  ELSE 0

TaskSteps == \/ signal \/ signalPanics \/ HookReturns \/ HookPanics \/ exit
             \/ \E s \in Signals : recv(s)

\* The handler is spawned once and goes one way: no step of the program, the
\* platform or the extension sets the task back, and each of its own brings it
\* nearer to the exit, so a signal is handled within five of them (lib.rs:289-319).
THEOREM TaskGoesOneWay ==
  ShutdownSpec => [][/\ StepsLeft' <= StepsLeft
                     /\ TaskSteps => StepsLeft' < StepsLeft]_shutdownVars
<1>1. ASSUME StageOK, [ShutdownNext]_shutdownVars
      PROVE  [/\ StepsLeft' <= StepsLeft
              /\ TaskSteps => StepsLeft' < StepsLeft]_shutdownVars
  <2>1. StepsLeft \in 0..6
    BY SMT DEF StepsLeft
  <2>2. CASE UNCHANGED <<helper, process>> /\ ~TaskSteps
    BY <2>1, <2>2, SMT DEF StepsLeft
  <2>3. CASE process' # "alive" /\ ~TaskSteps
    BY <2>1, <2>3, SMT DEF StepsLeft
  <2>4. CASE TaskSteps
    <3>1. ASSUME signal  PROVE StepsLeft' < StepsLeft
      BY <3>1, SMT DEF signal, StepsLeft
    <3>2. ASSUME signalPanics  PROVE StepsLeft' < StepsLeft
      BY <3>2, SMT DEF signalPanics, StepsLeft
    <3>3. ASSUME exit \/ HookReturns  PROVE StepsLeft' < StepsLeft
      BY <3>3, SMT DEF exit, HookReturns, StepsLeft, taskVars
    <3>4. ASSUME HookPanics  PROVE StepsLeft' < StepsLeft
      BY <3>4, SMT DEF HookPanics, StepsLeft
    <3>5. ASSUME NEW s \in Signals, recv(s)
          PROVE  StepsLeft' < StepsLeft
      BY <3>5, SMT DEF recv, StepsLeft
    <3>6. StepsLeft' < StepsLeft
      BY <2>4, <3>1, <3>2, <3>3, <3>4, <3>5 DEF TaskSteps
    <3>7. StepsLeft' \in 0..6
      BY SMT DEF StepsLeft
    <3> QED
      BY <2>1, <3>6, <3>7, SMT
  <2>5. CASE spawn
    <3>1. helper = "none" /\ process = "alive"
      BY <1>1, <2>5 DEF spawn, StageOK
    <3>2. helper' = "spawned" /\ process' = "alive"
      BY <2>5 DEF spawn
    <3>3. StepsLeft = 6 /\ StepsLeft' = 5
      BY <3>1, <3>2, SMT DEF StepsLeft
    <3> QED
      BY <2>4, <3>3, SMT
  <2>6. CASE Registers \/ RegistrationPanics \/ MainEnds \/ ExtensionRuns \/ ExtensionFails
    BY <2>2, <2>3, <2>4, <2>6 DEF Registers, RegistrationPanics, MainEnds, ExtensionRuns,
                                  ExtensionFails, taskVars
  <2>7. ASSUME NEW s \in Signals, Signal(s)
        PROVE  UNCHANGED <<helper, process>> \/ process' # "alive"
    BY <2>7 DEF Signal, taskVars
  <2>8. CASE UNCHANGED shutdownVars
    BY <2>8
  <2> QED
    BY <1>1, <2>2, <2>3, <2>4, <2>5, <2>6, <2>7, <2>8 DEF ShutdownNext, TaskSteps
<1> QED
  BY <1>1, Staged, PTL DEF ShutdownSpec

-----------------------------------------------------------------------------
(* The extension of the handler is an extension: nothing that the function *)
(* or the task does to it, and no signal at any time, is more than what    *)
(* `register` and `run` of module Extension do.                            *)

\* Every step is one of the extension, or leaves it alone.
LEMMA ShutdownStepIsExtensionStep ==
  ASSUME [ShutdownNext]_shutdownVars
  PROVE  [ExtensionNext]_extensionVars
<1>1. CASE Registers
  BY <1>1 DEF Registers, ExtensionNext, RegisterNext
<1>2. CASE RegistrationPanics
  BY <1>2 DEF RegistrationPanics, ExtensionNext, RegisterNext
<1>3. CASE spawn \/ MainEnds \/ signal \/ signalPanics \/ HookReturns \/ HookPanics \/ exit
  BY <1>3 DEF spawn, MainEnds, signal, signalPanics, HookReturns, HookPanics, exit
<1>4. CASE ExtensionRuns
  BY <1>4 DEF ExtensionRuns, ExtensionNext
<1>5. CASE ExtensionFails
  BY <1>5 DEF ExtensionFails, ExtensionNext, RunNext
<1>6. CASE \E s \in Signals : recv(s) \/ Signal(s)
  BY <1>6 DEF recv, Signal
<1>7. CASE UNCHANGED shutdownVars
  BY <1>7 DEF shutdownVars
<1> QED
  BY <1>1, <1>2, <1>3, <1>4, <1>5, <1>6, <1>7 DEF ShutdownNext

\* The handler implements an extension without events or processors: what is
\* proved of extensions holds of it (lib.rs:276-319; extension.rs:227-488).
THEOREM HandlerIsExtension == ShutdownSpec => ExtensionSpec
<1>1. InitShutdown => InitExtension
  BY DEF InitShutdown
<1>2. [ShutdownNext]_shutdownVars => [ExtensionNext]_extensionVars
  BY ShutdownStepIsExtensionStep
<1> QED
  BY <1>1, <1>2, PTL DEF ShutdownSpec, ExtensionSpec

=============================================================================
