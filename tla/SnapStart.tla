----------------------------- MODULE SnapStart -----------------------------
(***************************************************************************)
(* The SnapStart lifecycle that `run` and `run_concurrent` go through      *)
(* before the first poll (lambda-runtime/src/runtime.rs:453-581): hooks    *)
(* tear the registered resources down, /restore/next blocks until the VM   *)
(* is restored from its snapshot, the connection pool is replaced, hooks   *)
(* rebuild the resources.  Any failure is reported and ends `run`.         *)
(*                                                                         *)
(* A resource is up or down.  It may rest on others, its foundations,      *)
(* which users are told to register first.                                 *)
(***************************************************************************)
EXTENDS Naturals, Sequences

CONSTANTS
  Resources,
  Foundations   (* the resources that each resource rests on               *)

ASSUME SnapStartAssumption == Foundations \in [Resources -> SUBSET Resources]

VARIABLES
  snapStart,  (* AWS_LAMBDA_INITIALIZATION_TYPE is "snap-start"            *)
  registered, (* snapstart_resources, in registration order                *)
  pc,
  at,         (* the index of the resource whose hook is next              *)
  up,         (* the resources that are up                                 *)
  vm,         (* "initial", or "restored" once resumed from the snapshot   *)
  idle,       (* the pool: the VM state each idle connection was opened in *)
  used,       (* history: the calls, by VM state and that of the connection *)
  error,      (* the error that ends `run`                                 *)
  reports     (* history: the error reports sent                           *)

vars == <<snapStart, registered, pc, at, up, vm, idle, used, error, reports>>

VMs == {"initial", "restored"}
NoError == [phase |-> "none", at |-> 0]
Errors == [phase : {"before_snapshot", "restore_next", "after_restore"}, at : Nat]

Registered == {registered[i] : i \in 1..Len(registered)}

TypeOK ==
  /\ snapStart \in BOOLEAN
  /\ registered \in Seq(Resources)
  /\ pc \in {"building", "teardown", "restoring", "rebuilding", "failed",
             "reporting", "running", "polling", "returned", "panicked"}
  /\ at \in Nat
  /\ up \subseteq Resources
  /\ vm \in VMs
  /\ idle \subseteq VMs
  /\ used \subseteq [vm : VMs, opened : VMs]
  /\ error \in Errors \cup {NoError}
  /\ reports \in Seq([to : {"/init/error", "/restore/error"}, error : Errors])

Init ==
  /\ snapStart \in BOOLEAN
  /\ registered = <<>>
  /\ pc = "building"
  /\ at = 0
  /\ up = {}
  /\ vm = "initial"
  /\ idle = {}
  /\ used = {}
  /\ error = NoError
  /\ reports = <<>>

-----------------------------------------------------------------------------
\* The resource is created, and registered after what it rests on.
register_snapstart_resource(r) ==
  /\ pc = "building"
  /\ r \notin Registered
  /\ Foundations[r] \subseteq Registered
  /\ registered' = Append(registered, r)
  /\ up' = up \cup {r}
  /\ UNCHANGED <<snapStart, pc, at, vm, idle, used, error, reports>>

snapstart_lifecycle ==
  /\ pc = "building"
  /\ pc' = IF snapStart THEN "teardown" ELSE "running"
  /\ at' = Len(registered)
  /\ UNCHANGED <<snapStart, registered, up, vm, idle, used, error, reports>>

\* A call takes an idle connection if there is one and opens one otherwise.
Call ==
  \E c \in IF idle = {} THEN {vm} ELSE idle :
    used' = used \cup {[vm |-> vm, opened |-> c]}

Fail(phase) ==
  /\ pc' = "failed"
  /\ error' = [phase |-> phase, at |-> at]

\* A hook that fails may have done its work or not.
HookFails(phase) ==
  /\ up' \in {up \cup {registered[at]}, up \ {registered[at]}}
  /\ Fail(phase)
  /\ UNCHANGED <<snapStart, registered, at, vm, idle, used, reports>>

\* Faulty variant: the hooks run in registration order.
BeforeSnapshotFifo ==
  /\ pc = "teardown"
  /\ at > 0
  /\ up' = up \ {registered[Len(registered) + 1 - at]}
  /\ at' = at - 1
  /\ UNCHANGED <<snapStart, registered, pc, vm, idle, used, error, reports>>

before_snapshot ==
  /\ pc = "teardown"
  /\ at > 0
  /\ up' = up \ {registered[at]}
  /\ at' = at - 1
  /\ UNCHANGED <<snapStart, registered, pc, vm, idle, used, error, reports>>

BeforeSnapshotFails ==
  /\ pc = "teardown"
  /\ at > 0
  /\ HookFails("before_snapshot")

RestoreNext ==
  /\ pc = "teardown"
  /\ at = 0
  /\ Call
  /\ pc' = "restoring"
  /\ UNCHANGED <<snapStart, registered, at, up, vm, idle, error, reports>>

\* Faulty variant: the pool that has seen the snapshot is kept.
RestoredKeepsPool ==
  /\ pc = "restoring"
  /\ vm' = "restored"
  /\ idle' = idle \cup {vm}
  /\ at' = 1
  /\ pc' = "rebuilding"
  /\ UNCHANGED <<snapStart, registered, up, used, error, reports>>

\* The VM was snapshotted and restored, /restore/next answers, and reset_pool
\* gives later calls a client without connections.
Restored ==
  /\ pc = "restoring"
  /\ vm' = "restored"
  /\ idle' = {}
  /\ at' = 1
  /\ pc' = "rebuilding"
  /\ UNCHANGED <<snapStart, registered, up, used, error, reports>>

\* Faulty variant: only a transport error counts.
RestoreStatusIgnored ==
  /\ pc = "restoring"
  /\ \/ Fail("restore_next") /\ UNCHANGED at
     \/ pc' = "rebuilding" /\ at' = 1 /\ UNCHANGED error
  /\ UNCHANGED <<snapStart, registered, up, vm, idle, used, reports>>

\* The VM was not restored: a transport error, or a status that is no success.
\* Only the latter leaves a connection to use again.
RestoreFails ==
  /\ pc = "restoring"
  /\ Fail("restore_next")
  /\ idle' \in {idle, idle \cup {vm}}
  /\ UNCHANGED <<snapStart, registered, at, up, vm, used, reports>>

after_restore ==
  /\ pc = "rebuilding"
  /\ at <= Len(registered)
  /\ up' = up \cup {registered[at]}
  /\ at' = at + 1
  /\ UNCHANGED <<snapStart, registered, pc, vm, idle, used, error, reports>>

AfterRestoreFails ==
  /\ pc = "rebuilding"
  /\ at <= Len(registered)
  /\ HookFails("after_restore")

\* Nothing catches the panic of a hook: it unwinds through `run`.
HookPanics ==
  /\ \/ pc = "teardown" /\ at > 0
     \/ pc = "rebuilding" /\ at <= Len(registered)
  /\ up' \in {up \cup {registered[at]}, up \ {registered[at]}}
  /\ pc' = "panicked"
  /\ UNCHANGED <<snapStart, registered, at, vm, idle, used, error, reports>>

LifecycleEnds ==
  /\ pc = "rebuilding"
  /\ at > Len(registered)
  /\ pc' = "running"
  /\ UNCHANGED <<snapStart, registered, at, up, vm, idle, used, error, reports>>

-----------------------------------------------------------------------------
\* Faulty variant: /restore/error is for everything that has to do with it.
EndpointByName ==
  IF error.phase = "before_snapshot" THEN "/init/error" ELSE "/restore/error"

\* report_init_error or report_restore_error.
Endpoint ==
  IF error.phase = "after_restore" THEN "/restore/error" ELSE "/init/error"

report_diagnostic ==
  /\ pc = "failed"
  /\ Call
  /\ reports' = Append(reports, [to |-> Endpoint, error |-> error])
  /\ pc' = "reporting"
  /\ UNCHANGED <<snapStart, registered, at, up, vm, idle, error>>

\* Faulty variant: the report is made again until it arrives, which it may
\* never do.
ReportRetried ==
  /\ pc = "reporting"
  /\ Call
  /\ UNCHANGED <<snapStart, registered, pc, at, up, vm, idle, error, reports>>

\* Whether the report arrived or not, the original error is returned.
ReportEnds ==
  /\ pc = "reporting"
  /\ pc' = "returned"
  /\ UNCHANGED <<snapStart, registered, at, up, vm, idle, used, error, reports>>

\* The first call of the invocation loop.
PollNext ==
  /\ pc = "running"
  /\ Call
  /\ pc' = "polling"
  /\ UNCHANGED <<snapStart, registered, at, up, vm, idle, error, reports>>

Finished == pc \in {"polling", "returned", "panicked"} /\ UNCHANGED vars

Lifecycle ==
  \/ snapstart_lifecycle
  \/ before_snapshot \/ BeforeSnapshotFails
  \/ RestoreNext \/ Restored \/ RestoreFails
  \/ after_restore \/ AfterRestoreFails
  \/ HookPanics
  \/ LifecycleEnds
  \/ report_diagnostic \/ ReportEnds
  \/ PollNext

Next ==
  \/ \E r \in Resources : register_snapstart_resource(r)
  \/ Lifecycle
  \/ Finished

Safety == Init /\ [][Next]_vars

\* `run` is called and polled, hooks terminate and calls return.
Spec == Safety /\ WF_vars(Lifecycle)

-----------------------------------------------------------------------------
\* A resource is up only while its foundations are, whatever hook failed: the
\* teardown and the rebuild respect the registration order (snapstart.rs:17-36,
\* runtime.rs:492,520).
FoundationsFirst == \A r \in up : Foundations[r] \subseteq up

\* The invocation loop starts in a restored VM with every resource rebuilt,
\* or, without SnapStart, with every resource untouched (runtime.rs:476-526).
ServesWhenReady ==
  pc \in {"running", "polling"} =>
    /\ up = Registered
    /\ vm = IF snapStart THEN "restored" ELSE "initial"
    /\ error = NoError

\* `run` returns the error that stopped the lifecycle, after one report of it
\* to the endpoint of the phase it happened in (runtime.rs:463-467, 529-581).
FailureReportedOnce ==
  pc = "returned" =>
    reports = <<[to |-> IF vm = "restored" THEN "/restore/error" ELSE "/init/error",
                 error |-> error]>>

\* No call after the restore goes over a connection opened before the
\* snapshot (runtime.rs:514-515; reset_pool and call, api-client lib.rs:137-152).
NoStaleConnection == \A c \in used : c.vm = "restored" => c.opened = "restored"

\* The lifecycle ends: `run` polls, returns or panics.
LifecycleTerminates == <>(pc \in {"polling", "returned", "panicked"})

=============================================================================
