-------------------------- MODULE SnapStartProofs --------------------------
(***************************************************************************)
(* Proofs about SnapStart, for any set of resources and any foundations.   *)
(*                                                                         *)
(* The resources that are up are always a prefix of the registration       *)
(* order: the teardown shortens it, the rebuild lengthens it, a hook that  *)
(* fails leaves it one longer or one shorter.  Foundations come earlier in *)
(* that order, so a prefix that has a resource has its foundations.        *)
(***************************************************************************)
EXTENDS SnapStart, TLAPS

Prefix(s, n) == {s[i] : i \in 1..n}

\* Every resource is registered once and after its foundations.
OrderOK ==
  /\ \A i, j \in 1..Len(registered) : registered[i] = registered[j] => i = j
  /\ \A i \in 1..Len(registered) :
       Foundations[registered[i]] \subseteq Prefix(registered, i - 1)

\* The resources that are up, by the stage of the lifecycle.
UpOK ==
  /\ pc \in {"building", "running", "polling"} =>
       up = Prefix(registered, Len(registered))
  /\ pc = "teardown" => at \in 0..Len(registered) /\ up = Prefix(registered, at)
  /\ pc = "restoring" => at = 0 /\ up = Prefix(registered, 0)
  /\ pc = "rebuilding" =>
       at \in 1..(Len(registered) + 1) /\ up = Prefix(registered, at - 1)
  /\ \E n \in 0..Len(registered) : up = Prefix(registered, n)

\* The VM is restored exactly from the answer of /restore/next on.
VMOK ==
  /\ ~snapStart => pc \in {"building", "running", "polling"}
  /\ pc \in {"building", "teardown", "restoring"} => vm = "initial"
  /\ pc = "rebuilding" => vm = "restored"
  /\ pc \in {"running", "polling"} =>
       vm = IF snapStart THEN "restored" ELSE "initial"

\* The error and its report.
ReportOK ==
  /\ pc \notin {"failed", "reporting", "returned"} => error = NoError
  /\ pc \in {"failed", "reporting", "returned"} =>
       /\ error \in Errors
       /\ vm = "restored" <=> error.phase = "after_restore"
  /\ pc \notin {"reporting", "returned"} => reports = <<>>
  /\ pc \in {"reporting", "returned"} =>
       reports = <<[to |-> Endpoint, error |-> error]>>

\* Connections of the restored VM's pool were opened in the restored VM.
PoolOK ==
  /\ vm = "restored" => idle \subseteq {"restored"}
  /\ NoStaleConnection

IInv == TypeOK /\ OrderOK /\ UpOK /\ VMOK /\ ReportOK /\ PoolOK

-----------------------------------------------------------------------------
(* Prefixes.                                                               *)

\* A resource in a prefix has its foundations in that prefix.
LEMMA PrefixHoldsFoundations ==
  ASSUME TypeOK, OrderOK, NEW n \in 0..Len(registered),
         NEW r \in Prefix(registered, n)
  PROVE  Foundations[r] \subseteq Prefix(registered, n)
<1>1. PICK i \in 1..n : r = registered[i]
  BY DEF Prefix
<1>2. i \in 1..Len(registered)
  BY DEF TypeOK
<1>3. Foundations[r] \subseteq Prefix(registered, i - 1)
  BY <1>1, <1>2 DEF OrderOK
<1>4. Prefix(registered, i - 1) \subseteq Prefix(registered, n)
  BY <1>2 DEF Prefix, TypeOK
<1> QED
  BY <1>3, <1>4

\* The hook of the n-th resource moves between these two prefixes.
LEMMA PrefixStep ==
  ASSUME TypeOK, OrderOK, NEW n \in 1..Len(registered)
  PROVE  /\ registered[n] \in Resources
         /\ n - 1 \in 0..Len(registered)
         /\ Prefix(registered, n) = Prefix(registered, n - 1) \cup {registered[n]}
         /\ Prefix(registered, n - 1) = Prefix(registered, n) \ {registered[n]}
<1>1. Len(registered) \in Nat /\ registered[n] \in Resources
  BY DEF TypeOK
<1>2. 1..n = (1..(n - 1)) \cup {n}
  BY <1>1
<1>3. \A i \in 1..(n - 1) : i \in 1..Len(registered) /\ i # n
  BY <1>1
<1>4. registered[n] \notin Prefix(registered, n - 1)
  BY <1>1, <1>3 DEF OrderOK, Prefix
<1>5. Prefix(registered, n) = Prefix(registered, n - 1) \cup {registered[n]}
  BY <1>2 DEF Prefix
<1> QED
  BY <1>1, <1>4, <1>5

LEMMA PrefixTypes ==
  ASSUME TypeOK
  PROVE  /\ Len(registered) \in Nat
         /\ Prefix(registered, 0) = {}
         /\ Registered = Prefix(registered, Len(registered))
         /\ Registered \subseteq Resources
  BY DEF TypeOK, Prefix, Registered

LEMMA PrefixAppend ==
  ASSUME TypeOK, NEW r \in Resources, registered' = Append(registered, r)
  PROVE  /\ Len(registered') = Len(registered) + 1
         /\ registered'[Len(registered) + 1] = r
         /\ \A i \in 1..Len(registered) : registered'[i] = registered[i]
         /\ \A n \in 0..Len(registered) :
              Prefix(registered', n) = Prefix(registered, n)
         /\ Prefix(registered', Len(registered) + 1) =
              Prefix(registered, Len(registered)) \cup {r}
<1>1. /\ Len(registered) \in Nat
      /\ Len(registered') = Len(registered) + 1
      /\ registered'[Len(registered) + 1] = r
      /\ \A i \in 1..Len(registered) : registered'[i] = registered[i]
  BY DEF TypeOK
<1>2. \A n \in 0..Len(registered) : \A i \in 1..n : i \in 1..Len(registered)
  BY <1>1
<1>3. \A n \in 0..Len(registered) :
        Prefix(registered', n) = Prefix(registered, n)
  BY <1>1, <1>2 DEF Prefix
<1>4. 1..(Len(registered) + 1) = (1..Len(registered)) \cup {Len(registered) + 1}
  BY <1>1
<1>5. Prefix(registered', Len(registered) + 1) =
        Prefix(registered, Len(registered)) \cup {r}
  BY <1>1, <1>4 DEF Prefix
<1> QED
  BY <1>1, <1>3, <1>5

-----------------------------------------------------------------------------
(* Init and one lemma per action.                                          *)

LEMMA InitIInv == Init => IInv
<1> SUFFICES ASSUME Init PROVE IInv
  OBVIOUS
<1>1. TypeOK
  BY DEF Init, TypeOK, VMs
<1>2. OrderOK
  BY DEF Init, OrderOK
<1>3. UpOK
  <2>1. Len(registered) = 0 /\ up = Prefix(registered, 0) /\ pc = "building"
    BY DEF Init, Prefix
  <2> QED
    BY <2>1 DEF UpOK
<1>4. VMOK /\ ReportOK /\ PoolOK
  BY DEF Init, VMOK, ReportOK, PoolOK, NoStaleConnection
<1> QED
  BY <1>1, <1>2, <1>3, <1>4 DEF IInv

\* A call of a restored VM finds no connection from before the snapshot.
LEMMA CallStep ==
  ASSUME TypeOK, PoolOK, Call, vm' = vm
  PROVE  used' \subseteq [vm : VMs, opened : VMs] /\ NoStaleConnection'
<1>1. PICK c \in IF idle = {} THEN {vm} ELSE idle :
        used' = used \cup {[vm |-> vm, opened |-> c]}
  BY DEF Call
<1>2. c \in VMs /\ (vm = "restored" => c = "restored")
  BY <1>1 DEF TypeOK, PoolOK
<1> QED
  BY <1>1, <1>2 DEF TypeOK, PoolOK, NoStaleConnection

LEMMA RegisterStep ==
  ASSUME IInv, NEW r \in Resources, register_snapstart_resource(r)
  PROVE  IInv'
<1> USE DEF register_snapstart_resource
<1>1. TypeOK'
  BY DEF IInv, TypeOK
<1>2. TypeOK /\ OrderOK /\ UpOK /\ r \notin Registered
      /\ Foundations[r] \subseteq Registered
  BY DEF IInv
<1>3. Len(registered) \in Nat /\ Registered = Prefix(registered, Len(registered))
  BY <1>2, PrefixTypes
<1>4. OrderOK'
  <2>1. \A i \in 1..Len(registered) : registered[i] # r
    BY <1>2 DEF Registered
  <2>2. \A i \in 1..Len(registered') :
          i \in 1..Len(registered) \/ i = Len(registered) + 1
    BY <1>2, <1>3, PrefixAppend
  <2>3. \A i, j \in 1..Len(registered') : registered'[i] = registered'[j] => i = j
    BY <1>2, <2>1, <2>2, PrefixAppend DEF OrderOK
  <2>4. \A i \in 1..Len(registered) :
          /\ i - 1 \in 0..Len(registered)
          /\ Foundations[registered[i]] \subseteq Prefix(registered, i - 1)
    BY <1>2, <1>3 DEF OrderOK
  <2>5. \A i \in 1..Len(registered) :
          Foundations[registered'[i]] \subseteq Prefix(registered', i - 1)
    BY <1>2, <2>4, PrefixAppend
  <2>6. Foundations[r] \subseteq Prefix(registered', Len(registered))
    BY <1>2, <1>3, PrefixAppend
  <2>7. (Len(registered) + 1) - 1 = Len(registered)
    BY <1>3
  <2>8. \A i \in 1..Len(registered') :
          Foundations[registered'[i]] \subseteq Prefix(registered', i - 1)
    BY <1>2, <2>2, <2>5, <2>6, <2>7, PrefixAppend
  <2> QED
    BY <2>3, <2>8 DEF OrderOK
<1>5. UpOK'
  <2>1. up = Prefix(registered, Len(registered))
    BY <1>2 DEF UpOK
  <2>2. up' = Prefix(registered', Len(registered')) /\ Len(registered') \in Nat
    BY <1>2, <1>3, <2>1, PrefixAppend
  <2> QED
    BY <2>2 DEF UpOK
<1>6. VMOK' /\ ReportOK' /\ PoolOK'
  BY DEF IInv, VMOK, ReportOK, Endpoint, PoolOK, NoStaleConnection
<1> QED
  BY <1>1, <1>4, <1>5, <1>6 DEF IInv

LEMMA LifecycleStartStep ==
  ASSUME IInv, snapstart_lifecycle
  PROVE  IInv'
<1> USE DEF snapstart_lifecycle
<1>1. TypeOK /\ OrderOK /\ UpOK /\ VMOK /\ ReportOK /\ PoolOK
  BY DEF IInv
<1>2. Len(registered) \in Nat
  BY <1>1, PrefixTypes
<1>3. TypeOK'
  BY <1>1, <1>2 DEF TypeOK
<1>4. OrderOK'
  BY <1>1 DEF OrderOK
<1>5. UpOK'
  BY <1>1, <1>2 DEF UpOK
<1>6. VMOK'
  BY <1>1 DEF VMOK, TypeOK
<1>7. ReportOK'
  BY <1>1 DEF ReportOK, VMOK, TypeOK, Endpoint
<1>8. PoolOK'
  BY <1>1 DEF PoolOK, VMOK, TypeOK, NoStaleConnection
<1> QED
  BY <1>3, <1>4, <1>5, <1>6, <1>7, <1>8 DEF IInv

LEMMA BeforeSnapshotStep ==
  ASSUME IInv, before_snapshot
  PROVE  IInv'
<1> USE DEF before_snapshot
<1>1. TypeOK /\ OrderOK /\ UpOK /\ VMOK /\ ReportOK /\ PoolOK
  BY DEF IInv
<1>2. Len(registered) \in Nat
  BY <1>1, PrefixTypes
<1>3. at \in 1..Len(registered)
  BY <1>1, <1>2 DEF UpOK
<1>4. /\ registered[at] \in Resources
      /\ at - 1 \in 0..Len(registered)
      /\ Prefix(registered, at) = Prefix(registered, at - 1) \cup {registered[at]}
      /\ Prefix(registered, at - 1) = Prefix(registered, at) \ {registered[at]}
  BY <1>1, <1>3, PrefixStep
<1>5. TypeOK'
  BY <1>1, <1>2, <1>3, <1>4 DEF TypeOK
<1>6. OrderOK'
  BY <1>1 DEF OrderOK
<1>7. UpOK'
  BY <1>1, <1>2, <1>3, <1>4 DEF UpOK
<1>8. VMOK'
  BY <1>1 DEF VMOK, TypeOK
<1>9. ReportOK'
  BY <1>1 DEF ReportOK, VMOK, TypeOK, Endpoint
<1>10. PoolOK'
  BY <1>1 DEF PoolOK, VMOK, TypeOK, NoStaleConnection
<1> QED
  BY <1>5, <1>6, <1>7, <1>8, <1>9, <1>10 DEF IInv

LEMMA BeforeSnapshotFailsStep ==
  ASSUME IInv, BeforeSnapshotFails
  PROVE  IInv'
<1> USE DEF BeforeSnapshotFails, HookFails, Fail
<1>1. TypeOK /\ OrderOK /\ UpOK /\ VMOK /\ ReportOK /\ PoolOK
  BY DEF IInv
<1>2. Len(registered) \in Nat
  BY <1>1, PrefixTypes
<1>3. at \in 1..Len(registered)
  BY <1>1, <1>2 DEF UpOK
<1>4. /\ registered[at] \in Resources
      /\ at - 1 \in 0..Len(registered)
      /\ Prefix(registered, at) = Prefix(registered, at - 1) \cup {registered[at]}
      /\ Prefix(registered, at - 1) = Prefix(registered, at) \ {registered[at]}
  BY <1>1, <1>3, PrefixStep
<1>5. TypeOK'
  BY <1>1, <1>2, <1>3, <1>4 DEF TypeOK, Errors
<1>6. OrderOK'
  BY <1>1 DEF OrderOK
<1>7. UpOK'
  BY <1>1, <1>2, <1>3, <1>4 DEF UpOK
<1>8. VMOK'
  BY <1>1 DEF VMOK, TypeOK
<1>9. ReportOK'
  BY <1>1 DEF ReportOK, VMOK, TypeOK, Endpoint, Errors
<1>10. PoolOK'
  BY <1>1 DEF PoolOK, VMOK, TypeOK, NoStaleConnection
<1> QED
  BY <1>5, <1>6, <1>7, <1>8, <1>9, <1>10 DEF IInv

LEMMA RestoreNextStep ==
  ASSUME IInv, RestoreNext
  PROVE  IInv'
<1> USE DEF RestoreNext, Call, VMs
<1>1. TypeOK /\ OrderOK /\ UpOK /\ VMOK /\ ReportOK /\ PoolOK
  BY DEF IInv
<1>2. Len(registered) \in Nat
  BY <1>1, PrefixTypes
<1>3. TypeOK'
  BY <1>1, <1>2 DEF TypeOK
<1>4. OrderOK'
  BY <1>1 DEF OrderOK
<1>5. UpOK'
  BY <1>1, <1>2 DEF UpOK
<1>6. VMOK'
  BY <1>1 DEF VMOK, TypeOK
<1>7. ReportOK'
  BY <1>1 DEF ReportOK, VMOK, TypeOK, Endpoint
<1>8. PoolOK'
  BY <1>1, CallStep DEF PoolOK
<1> QED
  BY <1>3, <1>4, <1>5, <1>6, <1>7, <1>8 DEF IInv

LEMMA RestoredStep ==
  ASSUME IInv, Restored
  PROVE  IInv'
<1> USE DEF Restored, VMs
<1>1. TypeOK /\ OrderOK /\ UpOK /\ VMOK /\ ReportOK /\ PoolOK
  BY DEF IInv
<1>2. Len(registered) \in Nat
  BY <1>1, PrefixTypes
<1>3. TypeOK'
  BY <1>1, <1>2 DEF TypeOK
<1>4. OrderOK'
  BY <1>1 DEF OrderOK
<1>5. UpOK'
  BY <1>1, <1>2 DEF UpOK
<1>6. VMOK'
  BY <1>1 DEF VMOK, TypeOK
<1>7. ReportOK'
  BY <1>1 DEF ReportOK, VMOK, TypeOK, Endpoint
<1>8. PoolOK'
  BY <1>1 DEF PoolOK, VMOK, TypeOK, NoStaleConnection
<1> QED
  BY <1>3, <1>4, <1>5, <1>6, <1>7, <1>8 DEF IInv

LEMMA RestoreFailsStep ==
  ASSUME IInv, RestoreFails
  PROVE  IInv'
<1> USE DEF RestoreFails, Fail
<1>1. TypeOK /\ OrderOK /\ UpOK /\ VMOK /\ ReportOK /\ PoolOK
  BY DEF IInv
<1>2. Len(registered) \in Nat
  BY <1>1, PrefixTypes
<1>3. TypeOK'
  BY <1>1, <1>2 DEF TypeOK, Errors
<1>4. OrderOK'
  BY <1>1 DEF OrderOK
<1>5. UpOK'
  BY <1>1, <1>2 DEF UpOK
<1>6. VMOK'
  BY <1>1 DEF VMOK, TypeOK
<1>7. ReportOK'
  BY <1>1 DEF ReportOK, VMOK, TypeOK, Endpoint, Errors
<1>8. PoolOK'
  BY <1>1 DEF PoolOK, VMOK, TypeOK, NoStaleConnection
<1> QED
  BY <1>3, <1>4, <1>5, <1>6, <1>7, <1>8 DEF IInv

LEMMA AfterRestoreStep ==
  ASSUME IInv, after_restore
  PROVE  IInv'
<1> USE DEF after_restore
<1>1. TypeOK /\ OrderOK /\ UpOK /\ VMOK /\ ReportOK /\ PoolOK
  BY DEF IInv
<1>2. Len(registered) \in Nat
  BY <1>1, PrefixTypes
<1>3. at \in 1..Len(registered)
  BY <1>1, <1>2 DEF UpOK
<1>4. /\ registered[at] \in Resources
      /\ at - 1 \in 0..Len(registered)
      /\ Prefix(registered, at) = Prefix(registered, at - 1) \cup {registered[at]}
      /\ Prefix(registered, at - 1) = Prefix(registered, at) \ {registered[at]}
  BY <1>1, <1>3, PrefixStep
<1>5. TypeOK'
  BY <1>1, <1>2, <1>3, <1>4 DEF TypeOK
<1>6. OrderOK'
  BY <1>1 DEF OrderOK
<1>7. UpOK'
  BY <1>1, <1>2, <1>3, <1>4 DEF UpOK
<1>8. VMOK'
  BY <1>1 DEF VMOK, TypeOK
<1>9. ReportOK'
  BY <1>1 DEF ReportOK, VMOK, TypeOK, Endpoint
<1>10. PoolOK'
  BY <1>1 DEF PoolOK, VMOK, TypeOK, NoStaleConnection
<1> QED
  BY <1>5, <1>6, <1>7, <1>8, <1>9, <1>10 DEF IInv

LEMMA AfterRestoreFailsStep ==
  ASSUME IInv, AfterRestoreFails
  PROVE  IInv'
<1> USE DEF AfterRestoreFails, HookFails, Fail
<1>1. TypeOK /\ OrderOK /\ UpOK /\ VMOK /\ ReportOK /\ PoolOK
  BY DEF IInv
<1>2. Len(registered) \in Nat
  BY <1>1, PrefixTypes
<1>3. at \in 1..Len(registered)
  BY <1>1, <1>2 DEF UpOK
<1>4. /\ registered[at] \in Resources
      /\ at - 1 \in 0..Len(registered)
      /\ Prefix(registered, at) = Prefix(registered, at - 1) \cup {registered[at]}
      /\ Prefix(registered, at - 1) = Prefix(registered, at) \ {registered[at]}
  BY <1>1, <1>3, PrefixStep
<1>5. TypeOK'
  BY <1>1, <1>2, <1>3, <1>4 DEF TypeOK, Errors
<1>6. OrderOK'
  BY <1>1 DEF OrderOK
<1>7. at \in 0..Len(registered)
  BY <1>2, <1>3
<1>8. up' = Prefix(registered, at) \/ up' = Prefix(registered, at - 1)
  BY <1>1, <1>2, <1>3, <1>4 DEF UpOK
<1>9. \E n \in 0..Len(registered) : up' = Prefix(registered, n)
  BY <1>7, <1>8, <1>4
<1>10. UpOK'
  BY <1>1, <1>2, <1>3, <1>4, <1>9 DEF UpOK
<1>11. VMOK'
  BY <1>1 DEF VMOK, TypeOK
<1>12. ReportOK'
  BY <1>1 DEF ReportOK, VMOK, TypeOK, Endpoint, Errors
<1>13. PoolOK'
  BY <1>1 DEF PoolOK, VMOK, TypeOK, NoStaleConnection
<1> QED
  BY <1>5, <1>6, <1>10, <1>11, <1>12, <1>13 DEF IInv

LEMMA HookPanicsStep ==
  ASSUME IInv, HookPanics
  PROVE  IInv'
<1> USE DEF HookPanics
<1>1. TypeOK /\ OrderOK /\ UpOK /\ VMOK /\ ReportOK /\ PoolOK
  BY DEF IInv
<1>2. Len(registered) \in Nat
  BY <1>1, PrefixTypes
<1>3. at \in 1..Len(registered)
  BY <1>1, <1>2 DEF UpOK
<1>4. /\ registered[at] \in Resources
      /\ at - 1 \in 0..Len(registered)
      /\ Prefix(registered, at) = Prefix(registered, at - 1) \cup {registered[at]}
      /\ Prefix(registered, at - 1) = Prefix(registered, at) \ {registered[at]}
  BY <1>1, <1>3, PrefixStep
<1>5. TypeOK'
  BY <1>1, <1>2, <1>3, <1>4 DEF TypeOK
<1>6. OrderOK'
  BY <1>1 DEF OrderOK
<1>7. at \in 0..Len(registered)
  BY <1>2, <1>3
<1>8. up' = Prefix(registered, at) \/ up' = Prefix(registered, at - 1)
  BY <1>1, <1>2, <1>3, <1>4 DEF UpOK
<1>9. \E n \in 0..Len(registered) : up' = Prefix(registered, n)
  BY <1>7, <1>8, <1>4
<1>10. UpOK'
  BY <1>1, <1>2, <1>3, <1>4, <1>9 DEF UpOK
<1>11. VMOK'
  BY <1>1 DEF VMOK, TypeOK
<1>12. ReportOK'
  BY <1>1 DEF ReportOK, VMOK, TypeOK, Endpoint
<1>13. PoolOK'
  BY <1>1 DEF PoolOK, VMOK, TypeOK, NoStaleConnection
<1> QED
  BY <1>5, <1>6, <1>10, <1>11, <1>12, <1>13 DEF IInv

LEMMA LifecycleEndsStep ==
  ASSUME IInv, LifecycleEnds
  PROVE  IInv'
<1> USE DEF LifecycleEnds
<1>1. TypeOK /\ OrderOK /\ UpOK /\ VMOK /\ ReportOK /\ PoolOK
  BY DEF IInv
<1>2. Len(registered) \in Nat
  BY <1>1, PrefixTypes
<1>3. TypeOK'
  BY <1>1, <1>2 DEF TypeOK
<1>4. OrderOK'
  BY <1>1 DEF OrderOK
<1>5. UpOK'
  BY <1>1, <1>2 DEF UpOK
<1>6. VMOK'
  BY <1>1 DEF VMOK, TypeOK
<1>7. ReportOK'
  BY <1>1 DEF ReportOK, VMOK, TypeOK, Endpoint
<1>8. PoolOK'
  BY <1>1 DEF PoolOK, VMOK, TypeOK, NoStaleConnection
<1> QED
  BY <1>3, <1>4, <1>5, <1>6, <1>7, <1>8 DEF IInv

LEMMA ReportStep ==
  ASSUME IInv, report_diagnostic
  PROVE  IInv'
<1> USE DEF report_diagnostic, Call, VMs
<1>1. TypeOK /\ OrderOK /\ UpOK /\ VMOK /\ ReportOK /\ PoolOK
  BY DEF IInv
<1>2. Len(registered) \in Nat
  BY <1>1, PrefixTypes
<1>3. error \in Errors /\ reports = <<>>
  BY <1>1 DEF ReportOK
<1>4. [to |-> Endpoint, error |-> error] \in
        [to : {"/init/error", "/restore/error"}, error : Errors]
  BY <1>3 DEF Endpoint
<1>5. used' \subseteq [vm : VMs, opened : VMs]
  BY <1>1, CallStep
<1>6. TypeOK'
  BY <1>1, <1>3, <1>4, <1>5 DEF TypeOK
<1>7. OrderOK'
  BY <1>1 DEF OrderOK
<1>8. UpOK'
  BY <1>1, <1>2 DEF UpOK
<1>9. VMOK'
  BY <1>1 DEF VMOK, TypeOK
<1>10. ReportOK'
  BY <1>1 DEF ReportOK, VMOK, TypeOK, Endpoint
<1>11. PoolOK'
  BY <1>1, CallStep DEF PoolOK
<1> QED
  BY <1>6, <1>7, <1>8, <1>9, <1>10, <1>11 DEF IInv

LEMMA ReportEndsStep ==
  ASSUME IInv, ReportEnds
  PROVE  IInv'
<1> USE DEF ReportEnds
<1>1. TypeOK /\ OrderOK /\ UpOK /\ VMOK /\ ReportOK /\ PoolOK
  BY DEF IInv
<1>2. Len(registered) \in Nat
  BY <1>1, PrefixTypes
<1>3. TypeOK'
  BY <1>1, <1>2 DEF TypeOK
<1>4. OrderOK'
  BY <1>1 DEF OrderOK
<1>5. UpOK'
  BY <1>1, <1>2 DEF UpOK
<1>6. VMOK'
  BY <1>1 DEF VMOK, TypeOK
<1>7. ReportOK'
  BY <1>1 DEF ReportOK, VMOK, TypeOK, Endpoint
<1>8. PoolOK'
  BY <1>1 DEF PoolOK, VMOK, TypeOK, NoStaleConnection
<1> QED
  BY <1>3, <1>4, <1>5, <1>6, <1>7, <1>8 DEF IInv

LEMMA PollNextStep ==
  ASSUME IInv, PollNext
  PROVE  IInv'
<1> USE DEF PollNext, Call, VMs
<1>1. TypeOK /\ OrderOK /\ UpOK /\ VMOK /\ ReportOK /\ PoolOK
  BY DEF IInv
<1>2. Len(registered) \in Nat
  BY <1>1, PrefixTypes
<1>3. TypeOK'
  BY <1>1, <1>2 DEF TypeOK
<1>4. OrderOK'
  BY <1>1 DEF OrderOK
<1>5. UpOK'
  BY <1>1, <1>2 DEF UpOK
<1>6. VMOK'
  BY <1>1 DEF VMOK, TypeOK
<1>7. ReportOK'
  BY <1>1 DEF ReportOK, VMOK, TypeOK, Endpoint
<1>8. PoolOK'
  BY <1>1, CallStep DEF PoolOK
<1> QED
  BY <1>3, <1>4, <1>5, <1>6, <1>7, <1>8 DEF IInv

-----------------------------------------------------------------------------
LEMMA NextIInv == IInv /\ [Next]_vars => IInv'
<1> SUFFICES ASSUME IInv, [Next]_vars PROVE IInv'
  OBVIOUS
<1>1. CASE \E r \in Resources : register_snapstart_resource(r)
  BY <1>1, RegisterStep
<1>2. CASE Lifecycle
  BY <1>2, LifecycleStartStep, BeforeSnapshotStep, BeforeSnapshotFailsStep,
     RestoreNextStep, RestoredStep, RestoreFailsStep, AfterRestoreStep,
     AfterRestoreFailsStep, HookPanicsStep, LifecycleEndsStep, ReportStep,
     ReportEndsStep, PollNextStep
     DEF Lifecycle
<1>3. CASE UNCHANGED vars
  BY <1>3 DEF vars, IInv, TypeOK, OrderOK, UpOK, VMOK, ReportOK, Endpoint,
     PoolOK, NoStaleConnection
<1> QED
  BY <1>1, <1>2, <1>3 DEF Next, Finished

LEMMA Invariance == Safety => []IInv
  BY InitIInv, NextIInv, PTL DEF Safety

\* A resource is up only while its foundations are, whichever hook fails or
\* panics, for every set of resources and every dependency between them
\* (runtime.rs:492, 520).
THEOREM DependenciesRespected == Safety => []FoundationsFirst
<1>1. IInv => FoundationsFirst
  <2> SUFFICES ASSUME IInv, NEW r \in up PROVE Foundations[r] \subseteq up
    BY DEF FoundationsFirst
  <2>1. PICK n \in 0..Len(registered) : up = Prefix(registered, n)
    BY DEF IInv, UpOK
  <2> QED
    BY <2>1, PrefixHoldsFoundations DEF IInv
<1> QED
  BY <1>1, Invariance, PTL

\* The invocation loop starts in a restored VM with every resource rebuilt, or
\* with nothing touched when SnapStart is off (runtime.rs:476-526).
THEOREM NeverServesUnrestored == Safety => []ServesWhenReady
<1>1. IInv => ServesWhenReady
  BY PrefixTypes DEF IInv, UpOK, VMOK, ReportOK, ServesWhenReady
<1> QED
  BY <1>1, Invariance, PTL

\* The error that ends `run` was reported once, to the endpoint of its phase
\* (runtime.rs:529-581).
THEOREM ErrorReported == Safety => []FailureReportedOnce
<1>1. IInv => FailureReportedOnce
  BY DEF IInv, ReportOK, Endpoint, FailureReportedOnce
<1> QED
  BY <1>1, Invariance, PTL

\* After the restore no call uses a connection from before the snapshot
\* (runtime.rs:514-515).
THEOREM PoolIsFresh == Safety => []NoStaleConnection
<1>1. IInv => NoStaleConnection
  BY DEF IInv, PoolOK
<1> QED
  BY <1>1, Invariance, PTL

-----------------------------------------------------------------------------
(* Termination.                                                            *)

\* How many steps the lifecycle still can take, at most.
Remaining ==
  CASE pc = "building" -> 2 * Len(registered) + 8
    [] pc = "teardown" -> Len(registered) + at + 7
    [] pc = "restoring" -> Len(registered) + 6
    [] pc = "rebuilding" -> (Len(registered) + 1 - at) + 4
    [] pc = "failed" -> 2
    [] pc \in {"running", "reporting"} -> 1
    [] OTHER -> 0

\* The number is one in every state.
LEMMA RemainingIsNat ==
  ASSUME IInv
  PROVE  Remaining \in Nat
<1>1. Len(registered) \in Nat /\ at \in Nat
  BY PrefixTypes DEF IInv, TypeOK
<1>2. pc = "rebuilding" => at \in 1..(Len(registered) + 1)
  BY DEF IInv, UpOK
<1> QED
  BY <1>1, <1>2 DEF Remaining, IInv, TypeOK

\* Every step of the lifecycle lowers it.
LEMMA RemainingFalls ==
  ASSUME IInv, Lifecycle
  PROVE  Remaining' < Remaining
<1>1. Len(registered) \in Nat /\ at \in Nat
  BY PrefixTypes DEF IInv, TypeOK
<1>2. /\ pc = "teardown" => at \in 0..Len(registered)
      /\ pc = "rebuilding" => at \in 1..(Len(registered) + 1)
  BY DEF IInv, UpOK
<1>3. CASE snapstart_lifecycle
  BY <1>1, <1>3 DEF snapstart_lifecycle, Remaining
<1>4. CASE before_snapshot
  BY <1>1, <1>2, <1>4 DEF before_snapshot, Remaining
<1>5. CASE BeforeSnapshotFails
  BY <1>1, <1>2, <1>5 DEF BeforeSnapshotFails, HookFails, Fail, Remaining
<1>6. CASE RestoreNext
  BY <1>1, <1>6 DEF RestoreNext, Remaining
<1>7. CASE Restored
  BY <1>1, <1>7 DEF Restored, Remaining
<1>8. CASE RestoreFails
  BY <1>1, <1>8 DEF RestoreFails, Fail, Remaining
<1>9. CASE after_restore
  BY <1>1, <1>2, <1>9 DEF after_restore, Remaining
<1>10. CASE AfterRestoreFails
  BY <1>1, <1>2, <1>10 DEF AfterRestoreFails, HookFails, Fail, Remaining
<1>11. CASE HookPanics
  BY <1>1, <1>2, <1>11 DEF HookPanics, Remaining
<1>12. CASE LifecycleEnds
  BY <1>1, <1>2, <1>12 DEF LifecycleEnds, Remaining
<1>13. CASE report_diagnostic
  BY <1>13 DEF report_diagnostic, Remaining
<1>14. CASE ReportEnds
  BY <1>14 DEF ReportEnds, Remaining
<1>15. CASE PollNext
  BY <1>15 DEF PollNext, Remaining
<1> QED
  BY <1>3, <1>4, <1>5, <1>6, <1>7, <1>8, <1>9, <1>10, <1>11, <1>12, <1>13, <1>14,
     <1>15 DEF Lifecycle

\* The lifecycle cannot go on for ever, however many resources there are and
\* whichever hook or call fails: each of its steps lowers a natural number
\* (runtime.rs:476-581 has no loop but those over the hooks).
THEOREM LifecycleDescends ==
  Safety => /\ [](Remaining \in Nat)
            /\ [][Lifecycle => Remaining' < Remaining]_vars
<1>1. IInv => Remaining \in Nat
  BY RemainingIsNat
<1>2. IInv /\ Lifecycle => Remaining' < Remaining
  BY RemainingFalls
<1> QED
  BY <1>1, <1>2, Invariance, PTL

=============================================================================
