------------------------- MODULE VmLifecycleProofs --------------------------
(* Theorems about VmLifecycle, for every set of users, launches and workers, *)
(* every event set and every bound: types; the indices of the session store; *)
(* VMs, their sessions and files; overlays that no VM holds; one VM per      *)
(* user, as a refinement; and what a shutdown leaves.                        *)
EXTENDS VmLifecycle, FiniteSetTheorems, TLAPS

-----------------------------------------------------------------------------
(* Type correctness. *)

(* What a thread looks like at the points where its record is replaced. *)
LEMMA ThreadRecords ==
    /\ At("idle") \in Thread /\ At("watch") \in Thread
    /\ \A v \in Vmids, r \in {"idle", "watch", "again"} : Cleanup(v, r) \in Thread
    /\ \A r \in Thread : r.pc \in CleaningPc =>
         /\ r.vm \in Vmids
         /\ r.sess \in Launches \cup {NoSession, Ghost}
         /\ r.ret \in {"idle", "watch", "again"}
<1>1. At("idle") \in Thread /\ At("watch") \in Thread
  BY DEF Thread
<1>2. \A v \in Vmids, r \in {"idle", "watch", "again"} : Cleanup(v, r) \in Thread
  BY DEF Cleanup, Thread, CleaningPc
<1>3. At("idle").pc \notin CleaningPc /\ At("watch").pc \notin CleaningPc
  BY DEF At, CleaningPc
<1> QED BY <1>1, <1>2, <1>3 DEF Thread

(* A thread inside a cleanup keeps its type as it goes from step to step. *)
LEMMA CleaningThread ==
    ASSUME NEW r \in Thread, r.pc \in CleaningPc,
           NEW p \in CleaningPc, NEW d \in Launches \cup {NoSession, Ghost},
           NEW k \in {"idle", "watch", "again"}
    PROVE  /\ [r EXCEPT !.pc = p] \in Thread
           /\ [r EXCEPT !.pc = p, !.sess = d] \in Thread
           /\ [r EXCEPT !.pc = p, !.sess = d, !.ret = k] \in Thread
<1>1. r \in [pc : CleaningPc, vm : Vmids,
             sess : Launches \cup {NoSession, Ghost}, ret : {"idle", "watch", "again"}]
  BY DEF Thread, At, CleaningPc
<1> QED BY <1>1 DEF Thread

LEMMA ReturnType ==
    ASSUME TypeOK, NEW t \in Threads, thr[t].pc \in CleaningPc
    PROVE  Return(t) \in Thread
<1>1. thr[t] \in Thread
  BY DEF TypeOK
<1>2. thr[t].ret \in {"idle", "watch", "again"}
  BY <1>1, ThreadRecords
<1>3. CASE thr[t].ret = "again"
  <2>1. "dget" \in CleaningPc /\ NoSession \in Launches \cup {NoSession, Ghost}
    BY DEF CleaningPc
  <2>2. [thr[t] EXCEPT !.pc = "dget", !.sess = NoSession, !.ret = "idle"] \in Thread
    BY <1>1, <2>1, CleaningThread
  <2> QED BY <1>3, <2>2 DEF Return
<1>4. CASE thr[t].ret = "watch"
  BY <1>4, ThreadRecords DEF Return
<1>5. CASE thr[t].ret = "idle"
  BY <1>5, ThreadRecords DEF Return
<1> QED BY <1>2, <1>3, <1>4, <1>5

LEMMA InitTypeOK == Init => TypeOK
<1> SUFFICES ASSUME Init PROVE TypeOK
  OBVIOUS
<1>1. StoreTypeOK
  BY DEF Init, StoreInit, StoreTypeOK
<1>2. thr \in [Threads -> Thread]
  BY ThreadRecords DEF Init
<1> QED BY <1>1, <1>2, LifecycleAssumption DEF Init, TypeOK, Stage, Busy, Line

(* The three operations of the store keep the types of its keys. *)
LEMMA StoreOpsType ==
    ASSUME StoreTypeOK
    PROVE  /\ UNCHANGED store => StoreTypeOK'
           /\ \A v \in Vmids, l \in Launches : StoreSet(v, l) => StoreTypeOK'
           /\ \A v \in Vmids : StoreUpdate(v) => StoreTypeOK'
           /\ \A v \in Vmids : \A d : StoreDelete(v, d) => StoreTypeOK'
<1>1. UNCHANGED store => StoreTypeOK'
  BY DEF StoreTypeOK, store
<1>2. ASSUME NEW v \in Vmids, NEW l \in Launches, StoreSet(v, l) PROVE StoreTypeOK'
  <2>1. Owner[l] \in Users /\ Os[l] \in OsTypes
    BY StoreAssumption
  <2>2. userVms[Owner[l]] \in [Vmids -> Nat] /\ clock + 1 \in Nat
    BY <2>1 DEF StoreTypeOK
  <2>3. userVms' \in [Users -> [Vmids -> Nat]] /\ clock' \in Nat
    BY <1>2, <2>1, <2>2 DEF StoreTypeOK, StoreSet
  <2>4. vm' \in [Vmids -> Launches \cup {NoSession, Ghost}] /\ active' \subseteq Vmids
    BY <1>2 DEF StoreTypeOK, StoreSet
  <2>5. byOs' \in [OsTypes -> SUBSET Vmids] /\ byPid' \in [Launches -> Vmids \cup {NoVmid}]
    BY <1>2, <2>1 DEF StoreTypeOK, StoreSet
  <2> QED BY <2>3, <2>4, <2>5 DEF StoreTypeOK
<1>3. ASSUME NEW v \in Vmids, StoreUpdate(v) PROVE StoreTypeOK'
  BY <1>3 DEF StoreTypeOK, StoreUpdate
<1>4. ASSUME NEW v \in Vmids, NEW d, StoreDelete(v, d) PROVE StoreTypeOK'
  <2>1. CASE d \in Launches
    <3>1. Owner[d] \in Users /\ Os[d] \in OsTypes
      BY <2>1, StoreAssumption
    <3>2. userVms' \in [Users -> [Vmids -> Nat]]
      <4>1. userVms[Owner[d]] \in [Vmids -> Nat]
        BY <3>1 DEF StoreTypeOK
      <4>2. userVms' = [userVms EXCEPT ![Owner[d]] = [@ EXCEPT ![v] = 0]]
        BY <1>4, <2>1 DEF StoreDelete
      <4>3. [userVms[Owner[d]] EXCEPT ![v] = 0] \in [Vmids -> Nat]
        BY <4>1
      <4> QED BY <3>1, <4>2, <4>3 DEF StoreTypeOK
    <3>3. byOs' \in [OsTypes -> SUBSET Vmids] /\ byPid' \in [Launches -> Vmids \cup {NoVmid}]
      BY <1>4, <2>1, <3>1, SMTT(20) DEF StoreTypeOK, StoreDelete
    <3> QED BY <1>4, <3>2, <3>3 DEF StoreTypeOK, StoreDelete
  <2>2. CASE d \notin Launches
    BY <1>4, <2>2 DEF StoreTypeOK, StoreDelete
  <2> QED BY <2>1, <2>2
<1> QED BY <1>1, <1>2, <1>3, <1>4

(* A handler that advances is in a launch, and only its own worker and      *)
(* launch change place.                                                     *)
LEMMA AdvanceType ==
    ASSUME TypeOK, NEW w \in Workers, NEW s, NEW next \in Stage, Advance(w, s, next)
    PROVE  /\ job[w] \in Launches /\ stage[job[w]] = s
           /\ stage' \in [Launches -> Stage]
           /\ job' \in [Workers -> Launches \cup {NoLaunch}]
           /\ UNCHANGED <<mode, host, todo>>
BY DEF TypeOK, Advance

LEMMA LaunchTypeOK ==
    ASSUME TypeOK, NEW w \in Workers, LaunchStep(w)
    PROVE  TypeOK'
<1> DEFINE l == job[w]
<1> USE DEF TypeOK, Stage, Busy
<1>1. UNCHANGED store => StoreTypeOK'
  BY StoreOpsType
<1>2. CASE CreateOverlay(w)
  <2>1. Advance(w, "image", "boot")
    BY <1>2 DEF CreateOverlay
  <2>2. VmidOf[l] \in Vmids
    BY <2>1, AdvanceType, LifecycleAssumption
  <2> QED BY <1>1, <1>2, <2>1, <2>2, AdvanceType DEF CreateOverlay, clients
<1>3. CASE CreateOverlayFails(w)
  BY <1>1, <1>3, AdvanceType DEF CreateOverlayFails, clients, files
<1>4. CASE Boot(w)
  <2>1. PICK next \in {"bridge", "failed"} : Advance(w, "boot", next)
    BY <1>4 DEF Boot
  <2>2. l \in Launches /\ VmidOf[l] \in Vmids
    BY <2>1, AdvanceType, LifecycleAssumption
  <2> QED BY <1>1, <1>4, <2>1, <2>2, AdvanceType DEF Boot, clients
<1>5. CASE BootFails(w)
  <2>1. Advance(w, "boot", "failed")
    BY <1>5 DEF BootFails
  <2>2. sock' \subseteq Vmids
    BY <1>5 DEF BootFails
  <2> QED BY <1>1, <1>5, <2>1, <2>2, AdvanceType DEF BootFails, clients
<1>6. CASE StartBridge(w)
  <2>1. PICK next \in {"listen", "set"} : Advance(w, "bridge", next)
    BY <1>6 DEF StartBridge
  <2>2. l \in Launches /\ l \in Threads
    BY <2>1, AdvanceType DEF Threads
  <2>3. thr' \in [Threads -> Thread] /\ bridge' \in [Launches -> {"off", "up", "closing", "dead"}]
    BY <1>6, <2>2, ThreadRecords DEF StartBridge
  <2> QED BY <1>1, <1>6, <2>1, <2>3, AdvanceType DEF StartBridge, clients, files
<1>7. CASE StartBridgeFails(w)
  BY <1>1, <1>7, AdvanceType DEF StartBridgeFails, clients, files
<1>8. CASE WaitListen(w)
  <2>1. PICK next \in {"set", "failed"} : Advance(w, "listen", next)
    BY <1>8 DEF WaitListen
  <2> QED BY <1>1, <1>8, <2>1, AdvanceType DEF WaitListen, clients, files
<1>9. CASE SetSession(w)
  <2>1. Advance(w, "set", "ok") /\ StoreSet(VmidOf[l], l)
    BY <1>9 DEF SetSession
  <2>2. l \in Launches /\ VmidOf[l] \in Vmids
    BY <2>1, AdvanceType, LifecycleAssumption
  <2>3. StoreTypeOK'
    BY <2>1, <2>2, StoreOpsType
  <2> QED BY <1>9, <2>1, <2>3, AdvanceType DEF SetSession, clients, files
<1>10. CASE SetSessionFails(w)
  BY <1>1, <1>10, AdvanceType DEF SetSessionFails, clients, files
<1> QED
  BY <1>2, <1>3, <1>4, <1>5, <1>6, <1>7, <1>8, <1>9, <1>10 DEF LaunchStep

LEMMA CleanupTypeOK ==
    ASSUME TypeOK, NEW t \in Threads, CleanupStep(t)
    PROVE  TypeOK'
<1> DEFINE r == thr[t]
<1>1. UNCHANGED store => StoreTypeOK'
  BY StoreOpsType DEF TypeOK
<1>2. r \in Thread /\ r.pc \in CleaningPc
  BY DEF TypeOK, CleanupStep, CleanGet, CleanKill, CleanFiles, DeleteRead, DeletePipe, CleaningPc
<1>3. /\ r.vm \in Vmids
      /\ r.sess \in Launches \cup {NoSession, Ghost}
      /\ vm[r.vm] \in Launches \cup {NoSession, Ghost}
  BY <1>2, ThreadRecords DEF TypeOK, StoreTypeOK
<1>4. Return(t) \in Thread
  BY <1>2, ReturnType
<1>5. ASSUME NEW q \in Thread, thr' = [thr EXCEPT ![t] = q] PROVE thr' \in [Threads -> Thread]
  BY <1>5 DEF TypeOK
<1>6. CASE CleanGet(t)
  <2>1. [r EXCEPT !.pc = "kill", !.sess = vm[r.vm]] \in Thread
    BY <1>2, <1>3, CleaningThread DEF CleaningPc
  <2>2. thr' \in [Threads -> Thread]
    BY <1>4, <1>5, <1>6, <2>1 DEF CleanGet
  <2> QED BY <1>1, <1>6, <2>2 DEF CleanGet, TypeOK, files, clients
<1>7. CASE CleanKill(t)
  <2>1. thr' = [thr EXCEPT ![t] = [r EXCEPT !.pc = "files"]]
    BY <1>7 DEF CleanKill
  <2>2. thr' \in [Threads -> Thread]
    BY <1>2, <1>5, <2>1, CleaningThread DEF CleaningPc
  <2>3. qemu' \in [Launches -> {"off", "up", "term", "gone"}]
    BY <1>7 DEF CleanKill, TypeOK
  <2>4. bridge' \in [Launches -> {"off", "up", "closing", "dead"}]
    BY <1>7 DEF CleanKill, TypeOK
  <2>5. open' \in [Launches -> Nat]
    BY <1>7, LifecycleAssumption DEF CleanKill, TypeOK
  <2> QED BY <1>1, <1>7, <2>2, <2>3, <2>4, <2>5 DEF CleanKill, TypeOK, files
<1>8. CASE CleanFiles(t)
  <2>1. thr' = [thr EXCEPT ![t] = [r EXCEPT !.pc = "dget"]]
    BY <1>8 DEF CleanFiles
  <2>2. thr' \in [Threads -> Thread]
    BY <1>2, <1>5, <2>1, CleaningThread DEF CleaningPc
  <2> QED BY <1>1, <1>8, <2>2 DEF CleanFiles, TypeOK, clients
<1>9. CASE DeleteRead(t)
  <2>1. thr' = [thr EXCEPT ![t] = [r EXCEPT !.pc = "dpipe", !.sess = vm[r.vm]]]
    BY <1>9 DEF DeleteRead
  <2>2. thr' \in [Threads -> Thread]
    BY <1>2, <1>3, <1>5, <2>1, CleaningThread DEF CleaningPc
  <2> QED BY <1>1, <1>9, <2>2 DEF DeleteRead, TypeOK, files, clients
<1>10. CASE DeletePipe(t)
  <2>1. StoreDelete(r.vm, r.sess) /\ thr' = [thr EXCEPT ![t] = Return(t)]
    BY <1>10 DEF DeletePipe
  <2>2. StoreTypeOK'
    BY <1>3, <2>1, StoreOpsType DEF TypeOK
  <2>3. thr' \in [Threads -> Thread]
    BY <1>4, <1>5, <2>1
  <2> QED BY <1>10, <2>2, <2>3 DEF DeletePipe, TypeOK, files, clients
<1> QED BY <1>6, <1>7, <1>8, <1>9, <1>10 DEF CleanupStep

LEMMA MonitorTypeOK ==
    ASSUME TypeOK, NEW l \in Launches, MonitorLine(l) \/ MonitorEof(l)
    PROVE  TypeOK'
<1>1. VmidOf[l] \in Vmids /\ l \in Threads
  BY LifecycleAssumption DEF Threads
<1>2. /\ Cleanup(VmidOf[l], "watch") \in Thread
      /\ Cleanup(VmidOf[l], "idle") \in Thread
      /\ At("idle") \in Thread
  BY <1>1, ThreadRecords
<1>3. CASE MonitorLine(l)
  <2>1. StoreTypeOK'
    BY <1>1, <1>3, StoreOpsType DEF MonitorLine, TypeOK
  <2>2. thr' \in [Threads -> Thread]
    BY <1>1, <1>2, <1>3 DEF MonitorLine, TypeOK
  <2>3. Tail(lines[l]) \in Seq(Line)
    BY <1>3 DEF MonitorLine, TypeOK
  <2>4. lines' \in [Launches -> Seq(Line)]
    BY <1>3, <2>3 DEF MonitorLine, TypeOK
  <2> QED BY <1>3, <2>1, <2>2, <2>4 DEF MonitorLine, TypeOK, files
<1>4. CASE MonitorEof(l)
  <2>1. thr' \in [Threads -> Thread]
    BY <1>1, <1>2, <1>4 DEF MonitorEof, TypeOK
  <2>2. StoreTypeOK'
    BY <1>4, StoreOpsType DEF MonitorEof, TypeOK
  <2> QED BY <1>4, <2>1, <2>2 DEF MonitorEof, TypeOK, files, clients
<1> QED BY <1>3, <1>4

LEMMA OutsideTypeOK ==
    ASSUME TypeOK, NEW l \in Launches,
           \/ Connect(l) \/ Disconnect(l) \/ TargetCloses(l)
           \/ BridgeExits(l) \/ BridgeReaped(l) \/ QemuExits(l)
    PROVE  TypeOK'
<1> USE LifecycleAssumption DEF TypeOK, files, clients
<1>1. UNCHANGED store => StoreTypeOK'
  BY StoreOpsType
<1>2. "open" \in Line /\ "closed" \in Line
  BY DEF Line
<1>3. CASE Connect(l)
  <2>1. Append(lines[l], "open") \in Seq(Line)
    BY <1>2
  <2>2. lines' \in [Launches -> Seq(Line)]
    BY <1>3, <2>1 DEF Connect
  <2>3. conns' \in [Launches -> 0..MaxConns] 
    BY <1>3 DEF Connect
  <2>4. open' \in [Launches -> Nat]
    BY <1>3 DEF Connect
  <2> QED BY <1>1, <1>3, <2>2, <2>3, <2>4 DEF Connect
<1>4. CASE Disconnect(l)
  <2>1. Append(lines[l], "closed") \in Seq(Line)
    BY <1>2
  <2>2. lines' \in [Launches -> Seq(Line)]
    BY <1>4, <2>1 DEF Disconnect
  <2>3. open' \in [Launches -> Nat]
    BY <1>4 DEF Disconnect
  <2> QED BY <1>1, <1>4, <2>2, <2>3 DEF Disconnect
<1>5. CASE TargetCloses(l)
  BY <1>1, <1>5 DEF TargetCloses
<1>6. CASE BridgeExits(l)
  BY <1>1, <1>6 DEF BridgeExits
<1>7. CASE BridgeReaped(l)
  BY <1>1, <1>7 DEF BridgeReaped
<1>8. CASE QemuExits(l)
  BY <1>1, <1>8 DEF QemuExits
<1> QED BY <1>3, <1>4, <1>5, <1>6, <1>7, <1>8

LEMMA WorkerTypeOK ==
    ASSUME TypeOK, NEW w \in Workers,
           \/ Shutdown(w) \/ ShutdownNext(w) \/ ShutdownDone(w)
           \/ Crash(w) \/ Restart(w)
    PROVE  TypeOK'
<1> USE LifecycleAssumption DEF TypeOK, files, clients
<1>1. UNCHANGED store => StoreTypeOK'
  BY StoreOpsType
<1>2. w \in Threads /\ At("idle") \in Thread
  BY ThreadRecords DEF Threads
<1>3. CASE Shutdown(w)
  <2>1. Items \subseteq Vmids
    BY DEF Items, StoreTypeOK
  <2> QED BY <1>1, <1>3, <2>1 DEF Shutdown
<1>4. CASE ShutdownNext(w)
  <2>1. PICK v \in todo[w] : /\ todo' = [todo EXCEPT ![w] = @ \ {v}]
                             /\ thr' = [thr EXCEPT ![w] = Cleanup(v, "again")]
    BY <1>4 DEF ShutdownNext
  <2>2. v \in Vmids
    OBVIOUS
  <2>3. thr' \in [Threads -> Thread]
    BY <1>2, <2>1, <2>2, ThreadRecords
  <2>4. todo' \in [Workers -> SUBSET Vmids]
    BY <2>1
  <2> QED BY <1>1, <1>4, <2>3, <2>4 DEF ShutdownNext
<1>5. ASSUME Stop(w)
      PROVE  /\ StoreTypeOK' /\ mode' \in [Workers -> {"serving", "draining", "down"}]
             /\ thr' \in [Threads -> Thread] /\ todo' \in [Workers -> SUBSET Vmids]
  BY <1>1, <1>2, <1>5 DEF Stop
<1>6. CASE ShutdownDone(w)
  BY <1>5, <1>6 DEF ShutdownDone, Stop
<1>7. CASE Crash(w)
  <2>1. stage' \in [Launches -> Stage]
    BY <1>7 DEF Crash, Stage
  <2> QED BY <1>5, <1>7, <2>1 DEF Crash, Stop
<1>8. CASE Restart(w)
  BY <1>1, <1>8 DEF Restart
<1> QED BY <1>3, <1>4, <1>6, <1>7, <1>8

LEMMA RequestTypeOK ==
    ASSUME TypeOK, NEW w \in Workers,
           \/ \E l \in Launches : Request(w, l)
           \/ \E u \in Users : Logout(u, w)
    PROVE  TypeOK'
<1> USE LifecycleAssumption DEF TypeOK, files, clients
<1>1. UNCHANGED store => StoreTypeOK'
  BY StoreOpsType
<1>2. ASSUME NEW l \in Launches, Request(w, l) PROVE TypeOK'
  <2>1. stage' \in [Launches -> Stage] /\ host' \in [Threads -> Workers \cup {NoWorker}]
    BY <1>2 DEF Request, Stage, Busy, Threads
  <2> QED BY <1>1, <1>2, <2>1 DEF Request
<1>3. ASSUME NEW u \in Users, Logout(u, w) PROVE TypeOK'
  <2>1. PICK v \in Running(u) : thr' = [thr EXCEPT ![u] = Cleanup(v, "again")]
    BY <1>3 DEF Logout
  <2>2. v \in Vmids
    BY DEF Running, Newest
  <2>3. thr' \in [Threads -> Thread]
    BY <2>1, <2>2, ThreadRecords DEF Threads
  <2>4. host' \in [Threads -> Workers \cup {NoWorker}]
    BY <1>3 DEF Logout, Threads
  <2> QED BY <1>1, <1>3, <2>3, <2>4 DEF Logout
<1> QED BY <1>2, <1>3

LEMMA StepTypeOK ==
    ASSUME TypeOK, [Next]_vars
    PROVE  TypeOK'
<1>1. CASE \E w \in Workers, l \in Launches : Request(w, l)
  BY <1>1, RequestTypeOK
<1>2. CASE \E w \in Workers : LaunchStep(w)
  BY <1>2, LaunchTypeOK
<1>3. CASE \E u \in Users, w \in Workers : Logout(u, w)
  BY <1>3, RequestTypeOK
<1>4. CASE \E t \in Threads : CleanupStep(t)
  BY <1>4, CleanupTypeOK
<1>5. CASE \E l \in Launches : MonitorLine(l) \/ MonitorEof(l)
  BY <1>5, MonitorTypeOK
<1>6. CASE \E l \in Launches : \/ Connect(l) \/ Disconnect(l) \/ TargetCloses(l)
                               \/ BridgeExits(l) \/ BridgeReaped(l) \/ QemuExits(l)
  BY <1>6, OutsideTypeOK
<1>7. CASE \E w \in Workers : \/ Shutdown(w) \/ ShutdownNext(w) \/ ShutdownDone(w)
                              \/ Crash(w) \/ Restart(w)
  BY <1>7, WorkerTypeOK
<1>8. CASE \E u \in Users : UploadIso(u)
  BY <1>8, StoreOpsType DEF UploadIso, TypeOK, clients
<1>9. CASE UNCHANGED vars
  BY <1>9, StoreOpsType DEF vars, TypeOK, files, clients
<1> QED BY <1>1, <1>2, <1>3, <1>4, <1>5, <1>6, <1>7, <1>8, <1>9 DEF Next, Environment

(* Every step keeps every variable in its type, whoever takes it and        *)
(* whatever failed before: the handlers of vm.py and auth.py, the monitor   *)
(* threads, cleanup_vm, shutdown, crash and restart.                        *)
THEOREM TypeCorrect == Spec => []TypeOK
BY InitTypeOK, StepTypeOK, PTL DEF Spec

(***************************************************************************)
(* The indices of the session store agree with its hashes in every state of  *)
(* VmLifecycle, whatever the vmids, the failures and the number of workers.  *)
(***************************************************************************)

-----------------------------------------------------------------------------
(* What a step can do to the store and to a thread. *)

LEMMA StoreFrame ==
    ASSUME [Next]_vars
    PROVE  \/ UNCHANGED store
           \/ \E w \in Workers : SetSession(w)
           \/ \E l \in Launches : MonitorLine(l)
           \/ \E t \in Threads : DeletePipe(t)
<1>1. ASSUME NEW w \in Workers, LaunchStep(w) PROVE UNCHANGED store \/ SetSession(w)
  BY <1>1 DEF LaunchStep, CreateOverlay, CreateOverlayFails, Boot, BootFails, StartBridge,
     StartBridgeFails, WaitListen, SetSessionFails
<1>2. ASSUME NEW t \in Threads, CleanupStep(t) PROVE UNCHANGED store \/ DeletePipe(t)
  BY <1>2 DEF CleanupStep, CleanGet, CleanKill, CleanFiles, DeleteRead
<1>3. ASSUME NEW l \in Launches,
             \/ MonitorEof(l) \/ TargetCloses(l) \/ BridgeReaped(l) \/ QemuExits(l)
             \/ Connect(l) \/ Disconnect(l) \/ BridgeExits(l)
      PROVE  UNCHANGED store
  BY <1>3 DEF MonitorEof, TargetCloses, BridgeReaped, QemuExits, Connect, Disconnect, BridgeExits
<1>4. ASSUME NEW w \in Workers,
             \/ \E l \in Launches : Request(w, l)
             \/ \E u \in Users : Logout(u, w)
             \/ Shutdown(w) \/ ShutdownNext(w) \/ ShutdownDone(w) \/ Crash(w) \/ Restart(w)
      PROVE  UNCHANGED store
  BY <1>4 DEF Request, Logout, Shutdown, ShutdownNext, ShutdownDone, Crash, Restart, Stop
<1>5. ASSUME NEW u \in Users, UploadIso(u) PROVE UNCHANGED store
  BY <1>5 DEF UploadIso
<1>6. CASE UNCHANGED vars
  BY <1>6 DEF vars
<1> QED BY <1>1, <1>2, <1>3, <1>4, <1>5, <1>6 DEF Next, Environment

(* The ways a thread comes to be where it is after the step. *)
StartsCleanup(t) ==
    \/ /\ t \in Launches /\ MonitorLine(t)
       /\ thr'[t] = Cleanup(VmidOf[t], "watch")
    \/ /\ t \in Launches /\ MonitorEof(t)
       /\ thr'[t] = Cleanup(VmidOf[t], "idle")
    \/ \E v \in Vmids : vm[v] # NoSession /\ thr'[t] = Cleanup(v, "again")
    \/ \E v \in todo[t] : t \in Workers /\ thr'[t] = Cleanup(v, "again")

LEMMA ThreadFrame ==
    ASSUME TypeOK, [Next]_vars, NEW t \in Threads
    PROVE  \/ thr'[t] = thr[t]
           \/ thr'[t] \in {At("idle"), At("watch")}
           \/ StartsCleanup(t)
           \/ CleanupStep(t)
<1> DEFINE Goal == \/ thr'[t] = thr[t]
                   \/ thr'[t] \in {At("idle"), At("watch")}
                   \/ StartsCleanup(t)
                   \/ CleanupStep(t)
<1>0. thr \in [Threads -> Thread]
  BY DEF TypeOK
<1>1. ASSUME NEW w \in Workers, LaunchStep(w) PROVE Goal
  <2>1. CASE StartBridge(w)
    BY <1>0, <2>1 DEF StartBridge
  <2>2. CASE ~StartBridge(w)
    BY <1>1, <2>2 DEF LaunchStep, CreateOverlay, CreateOverlayFails, Boot, BootFails,
       StartBridgeFails, WaitListen, SetSession, SetSessionFails
  <2> QED BY <2>1, <2>2
<1>2. ASSUME NEW s \in Threads, CleanupStep(s) PROVE Goal
  <2>1. CASE s = t
    BY <1>2, <2>1
  <2>2. CASE s # t
    BY <1>0, <1>2, <2>2 DEF CleanupStep, CleanGet, CleanKill, CleanFiles, DeleteRead, DeletePipe
  <2> QED BY <2>1, <2>2
<1>3. ASSUME NEW l \in Launches, MonitorLine(l) \/ MonitorEof(l) PROVE Goal
  <2>1. CASE MonitorLine(l)
    BY <1>0, <2>1 DEF MonitorLine, StartsCleanup
  <2>2. CASE MonitorEof(l)
    BY <1>0, <2>2 DEF MonitorEof, StartsCleanup
  <2> QED BY <1>3, <2>1, <2>2
<1>4. ASSUME NEW w \in Workers, NEW u \in Users, Logout(u, w) PROVE Goal
  <2>1. PICK v \in Running(u) : thr' = [thr EXCEPT ![u] = Cleanup(v, "again")]
    BY <1>4 DEF Logout
  <2>2. v \in Vmids /\ vm[v] # NoSession
    BY DEF Running, Newest
  <2> QED BY <1>0, <2>1, <2>2 DEF StartsCleanup
<1>5. ASSUME NEW w \in Workers, ShutdownNext(w) PROVE Goal
  <2>1. PICK v \in todo[w] : thr' = [thr EXCEPT ![w] = Cleanup(v, "again")]
    BY <1>5 DEF ShutdownNext
  <2> QED BY <1>0, <2>1 DEF StartsCleanup
<1>6. ASSUME NEW w \in Workers, ShutdownDone(w) \/ Crash(w) PROVE Goal
  BY <1>6 DEF ShutdownDone, Crash, Stop
<1>7. ASSUME NEW w \in Workers,
             (\E l \in Launches : Request(w, l)) \/ Shutdown(w) \/ Restart(w)
      PROVE  Goal
  BY <1>7 DEF Request, Shutdown, Restart
<1>8. ASSUME NEW l \in Launches,
             \/ TargetCloses(l) \/ BridgeReaped(l) \/ QemuExits(l)
             \/ Connect(l) \/ Disconnect(l) \/ BridgeExits(l)
      PROVE  Goal
  BY <1>8 DEF TargetCloses, BridgeReaped, QemuExits, Connect, Disconnect, BridgeExits
<1>9. ASSUME NEW u \in Users, UploadIso(u) PROVE Goal
  BY <1>9 DEF UploadIso
<1>10. CASE UNCHANGED vars
  BY <1>10 DEF vars
<1> QED
  BY <1>1, <1>2, <1>3, <1>4, <1>5, <1>6, <1>7, <1>8, <1>9, <1>10 DEF Next, Environment

(* The fields of a thread that moves on inside a cleanup. *)
LEMMA CleaningFields ==
    ASSUME NEW r \in Thread, r.pc \in CleaningPc, NEW p, NEW d, NEW k
    PROVE  /\ LET q == [r EXCEPT !.pc = p]
              IN  q.pc = p /\ q.vm = r.vm /\ q.sess = r.sess /\ q.ret = r.ret
           /\ LET q == [r EXCEPT !.pc = p, !.sess = d]
              IN  q.pc = p /\ q.vm = r.vm /\ q.sess = d /\ q.ret = r.ret
           /\ LET q == [r EXCEPT !.pc = p, !.sess = d, !.ret = k]
              IN  q.pc = p /\ q.vm = r.vm /\ q.sess = d /\ q.ret = k
<1>1. r \in [pc : CleaningPc, vm : Vmids,
             sess : Launches \cup {NoSession, Ghost}, ret : {"idle", "watch", "again"}]
  BY DEF Thread, At, CleaningPc
<1> QED BY <1>1

(* A thread starts over, idle or watching, or goes on to delete again.      *)
Resumed(t) ==
    \/ thr'[t] \in {At("idle"), At("watch")}
    \/ /\ thr[t].ret = "again"
       /\ thr'[t].pc = "dget" /\ thr'[t].vm = thr[t].vm
       /\ thr'[t].sess = NoSession /\ thr'[t].ret = "idle"

LEMMA CleanupFrame ==
    ASSUME TypeOK, NEW t \in Threads, CleanupStep(t)
    PROVE  /\ thr[t] \in Thread /\ thr[t].pc \in CleaningPc
           /\ thr[t].vm \in Vmids
           /\ \A s \in Threads : s # t => thr'[s] = thr[s]
           /\ \/ CleanGet(t) /\ vm[thr[t].vm] = NoSession /\ Resumed(t)
              \/ DeletePipe(t) /\ Resumed(t)
              \/ /\ thr'[t].vm = thr[t].vm /\ thr'[t].ret = thr[t].ret
                 /\ \/ /\ CleanGet(t) /\ vm[thr[t].vm] # NoSession
                       /\ thr'[t].pc = "kill" /\ thr'[t].sess = vm[thr[t].vm]
                    \/ CleanKill(t) /\ thr'[t].pc = "files" /\ thr'[t].sess = thr[t].sess
                    \/ CleanFiles(t) /\ thr'[t].pc = "dget" /\ thr'[t].sess = thr[t].sess
                    \/ DeleteRead(t) /\ thr'[t].pc = "dpipe" /\ thr'[t].sess = vm[thr[t].vm]
<1> DEFINE r == thr[t]
<1>1. r \in Thread /\ r.pc \in CleaningPc
  BY DEF TypeOK, CleanupStep, CleanGet, CleanKill, CleanFiles, DeleteRead, DeletePipe, CleaningPc
<1>2. r.vm \in Vmids /\ r.ret \in {"idle", "watch", "again"}
  BY <1>1, ThreadRecords
<1>3. \A s \in Threads : s # t => thr'[s] = thr[s]
  BY DEF TypeOK, CleanupStep, CleanGet, CleanKill, CleanFiles, DeleteRead, DeletePipe
<1>4. ASSUME thr'[t] = Return(t) PROVE Resumed(t)
  <2>1. CASE r.ret = "again"
    <3>1. thr'[t] = [r EXCEPT !.pc = "dget", !.sess = NoSession, !.ret = "idle"]
      BY <1>4, <2>1 DEF Return
    <3> QED BY <1>1, <2>1, <3>1, CleaningFields DEF Resumed
  <2>2. CASE r.ret = "watch"
    BY <1>4, <2>2 DEF Return, Resumed
  <2>3. CASE r.ret = "idle"
    BY <1>4, <2>3 DEF Return, Resumed
  <2> QED BY <1>2, <2>1, <2>2, <2>3
<1>5. CASE CleanGet(t)
  <2>1. CASE vm[r.vm] = NoSession
    <3>1. thr'[t] = Return(t)
      BY <1>5, <2>1 DEF CleanGet, TypeOK
    <3> QED BY <1>1, <1>2, <1>3, <1>4, <1>5, <2>1, <3>1
  <2>2. CASE vm[r.vm] # NoSession
    <3>1. thr'[t] = [r EXCEPT !.pc = "kill", !.sess = vm[r.vm]]
      BY <1>5, <2>2 DEF CleanGet, TypeOK
    <3> QED BY <1>1, <1>2, <1>3, <1>5, <2>2, <3>1, CleaningFields
  <2> QED BY <2>1, <2>2
<1>6. CASE CleanKill(t)
  <2>1. thr'[t] = [r EXCEPT !.pc = "files"]
    BY <1>6 DEF CleanKill, TypeOK
  <2> QED BY <1>1, <1>2, <1>3, <1>6, <2>1, CleaningFields
<1>7. CASE CleanFiles(t)
  <2>1. thr'[t] = [r EXCEPT !.pc = "dget"]
    BY <1>7 DEF CleanFiles, TypeOK
  <2> QED BY <1>1, <1>2, <1>3, <1>7, <2>1, CleaningFields
<1>8. CASE DeleteRead(t)
  <2>1. thr'[t] = [r EXCEPT !.pc = "dpipe", !.sess = vm[r.vm]]
    BY <1>8 DEF DeleteRead, TypeOK
  <2> QED BY <1>1, <1>2, <1>3, <1>8, <2>1, CleaningFields
<1>9. CASE DeletePipe(t)
  <2>1. thr'[t] = Return(t)
    BY <1>9 DEF DeletePipe, TypeOK
  <2> QED BY <1>1, <1>2, <1>3, <1>4, <1>9, <2>1
<1> QED BY <1>5, <1>6, <1>7, <1>8, <1>9 DEF CleanupStep

(* A session lies under the vmid of its launch, in Redis and in what the    *)
(* cleanups have read of it.                                                *)
SessionAtItsVmid ==
    /\ \A v \in Vmids : vm[v] \in Launches => VmidOf[vm[v]] = v
    /\ \A t \in Threads : thr[t].sess \in Launches => VmidOf[thr[t].sess] = thr[t].vm

IndexInv == TypeOK /\ SessionAtItsVmid /\ SessionIndexed /\ ActiveHasSession

LEMMA FreshRecords ==
    /\ At("idle").sess = NoSession /\ At("watch").sess = NoSession
    /\ \A v, r : Cleanup(v, r).sess = NoSession /\ Cleanup(v, r).vm = v
    /\ NoSession \notin Launches
BY StoreAssumption DEF At, Cleanup

LEMMA SessionAtItsVmidStep ==
    ASSUME IndexInv, [Next]_vars
    PROVE  SessionAtItsVmid'
<1>1. ASSUME NEW v \in Vmids, vm'[v] \in Launches PROVE VmidOf[vm'[v]] = v
  <2>1. CASE UNCHANGED store
    BY <1>1, <2>1 DEF IndexInv, SessionAtItsVmid, store
  <2>2. CASE \E w \in Workers : SetSession(w)
    <3>1. PICK w \in Workers : SetSession(w)
      BY <2>2
    <3>2. StoreSet(VmidOf[job[w]], job[w])
      BY <3>1 DEF SetSession
    <3> QED BY <1>1, <3>2 DEF IndexInv, TypeOK, StoreTypeOK, SessionAtItsVmid, StoreSet
  <2>3. CASE \E l \in Launches : MonitorLine(l)
    <3>1. PICK l \in Launches : StoreUpdate(VmidOf[l])
      BY <2>3 DEF MonitorLine
    <3> QED BY <1>1, <3>1, StoreAssumption
            DEF IndexInv, TypeOK, StoreTypeOK, SessionAtItsVmid, StoreUpdate
  <2>4. CASE \E t \in Threads : DeletePipe(t)
    <3>1. PICK t \in Threads : StoreDelete(thr[t].vm, thr[t].sess)
      BY <2>4 DEF DeletePipe
    <3> QED BY <1>1, <3>1, StoreAssumption
            DEF IndexInv, TypeOK, StoreTypeOK, SessionAtItsVmid, StoreDelete
  <2> QED BY <2>1, <2>2, <2>3, <2>4, StoreFrame
<1>2. ASSUME NEW t \in Threads, thr'[t].sess \in Launches
      PROVE  VmidOf[thr'[t].sess] = thr'[t].vm
  <2>1. CASE thr'[t] = thr[t]
    BY <1>2, <2>1 DEF IndexInv, SessionAtItsVmid
  <2>2. CASE thr'[t] \in {At("idle"), At("watch")}
    BY <1>2, <2>2, FreshRecords
  <2>3. CASE StartsCleanup(t)
    BY <1>2, <2>3, FreshRecords DEF StartsCleanup
  <2>4. CASE CleanupStep(t)
    <3>1. CASE Resumed(t)
      BY <1>2, <3>1, FreshRecords DEF Resumed
    <3>2. CASE thr'[t].vm = thr[t].vm /\ thr'[t].sess \in {thr[t].sess, vm[thr[t].vm]}
      <4>1. thr[t].vm \in Vmids
        BY <2>4, CleanupFrame DEF IndexInv
      <4> QED BY <1>2, <3>2, <4>1 DEF IndexInv, SessionAtItsVmid
    <3> QED BY <2>4, <3>1, <3>2, CleanupFrame DEF IndexInv
  <2> QED BY <2>1, <2>2, <2>3, <2>4, ThreadFrame DEF IndexInv
<1> QED BY <1>1, <1>2 DEF SessionAtItsVmid

LEMMA IndexStep ==
    ASSUME IndexInv, [Next]_vars
    PROVE  SessionIndexed' /\ ActiveHasSession'
<1> USE DEF IndexInv, TypeOK, StoreTypeOK, SessionIndexed, ActiveHasSession
<1>1. CASE UNCHANGED store
  BY <1>1 DEF store
<1>2. CASE \E w \in Workers : SetSession(w)
  <2>1. PICK w \in Workers : SetSession(w)
    BY <1>2
  <2> DEFINE l == job[w]
             v == VmidOf[l]
  <2>2. l \in Launches /\ StoreSet(v, l)
    BY <2>1 DEF SetSession, Advance
  <2>3. v \in Vmids /\ Owner[l] \in Users /\ Os[l] \in OsTypes
    BY <2>2, LifecycleAssumption, StoreAssumption
  <2>4. vm'[v] = l /\ active' = active \cup {v} /\ byPid'[l] = v /\ v \in byOs'[Os[l]]
    BY <2>2, <2>3 DEF StoreSet
  <2>5. userVms'[Owner[l]][v] = clock + 1
    <3>1. userVms' = [userVms EXCEPT ![Owner[l]] = [userVms[Owner[l]] EXCEPT ![v] = clock + 1]]
      BY <2>2 DEF StoreSet
    <3> QED BY <2>3, <3>1
  <2>6. ASSUME NEW x \in Vmids, x # v, vm'[x] \in Launches
        PROVE  /\ x \in active' /\ userVms'[Owner[vm'[x]]][x] > 0
               /\ x \in byOs'[Os[vm'[x]]] /\ byPid'[vm'[x]] = x
    <3>1. vm'[x] = vm[x] /\ vm[x] # l
      BY <2>2, <2>3, <2>6 DEF StoreSet, SessionAtItsVmid
    <3>2. Owner[vm[x]] \in Users /\ Os[vm[x]] \in OsTypes
      BY <2>6, <3>1, StoreAssumption
    <3>3. userVms'[Owner[vm[x]]][x] = userVms[Owner[vm[x]]][x]
      BY <2>2, <2>6, <3>2 DEF StoreSet
    <3> QED BY <2>2, <2>3, <2>6, <3>1, <3>2, <3>3 DEF StoreSet
  <2> QED
    <3>1. SessionIndexed'
      BY <2>3, <2>4, <2>5, <2>6
    <3>2. ActiveHasSession'
      BY <2>2, <2>3, <2>4 DEF StoreSet
    <3> QED BY <3>1, <3>2
<1>3. CASE \E l \in Launches : MonitorLine(l)
  <2>1. PICK l \in Launches : StoreUpdate(VmidOf[l])
    BY <1>3 DEF MonitorLine
  <2> QED BY <2>1, StoreAssumption DEF StoreUpdate
<1>4. CASE \E t \in Threads : DeletePipe(t)
  <2>1. PICK t \in Threads : DeletePipe(t)
    BY <1>4
  <2> DEFINE v == thr[t].vm
             d == thr[t].sess
  <2>2. v \in Vmids /\ StoreDelete(v, d)
    BY <2>1, CleanupFrame DEF DeletePipe, CleanupStep
  <2>3. vm' = [vm EXCEPT ![v] = NoSession] /\ active' = active \ {v}
    BY <2>2 DEF StoreDelete
  <2>4. ASSUME NEW x \in Vmids, vm'[x] \in Launches
        PROVE  /\ x # v /\ vm'[x] = vm[x]
               /\ userVms'[Owner[vm[x]]][x] = userVms[Owner[vm[x]]][x]
               /\ x \in byOs'[Os[vm[x]]] /\ byPid'[vm[x]] = x
    <3>1. x # v /\ vm'[x] = vm[x]
      BY <2>2, <2>3, <2>4, StoreAssumption
    <3>2. CASE d \in Launches
      <4>1. d # vm[x]
        BY <2>1, <3>1, <3>2, <2>4 DEF SessionAtItsVmid
      <4>2. /\ userVms' = [userVms EXCEPT ![Owner[d]] = [userVms[Owner[d]] EXCEPT ![v] = 0]]
            /\ byOs' = [byOs EXCEPT ![Os[d]] = byOs[Os[d]] \ {v}]
            /\ byPid' = [byPid EXCEPT ![d] = NoVmid]
        BY <2>2, <3>2 DEF StoreDelete
      <4>3. Owner[vm[x]] \in Users /\ Os[vm[x]] \in OsTypes /\ Owner[d] \in Users
        BY <2>4, <3>1, <3>2, StoreAssumption
      <4> QED BY <2>4, <3>1, <4>1, <4>2, <4>3
    <3>3. CASE d \notin Launches
      BY <2>2, <2>4, <3>1, <3>3 DEF StoreDelete
    <3> QED BY <3>1, <3>2, <3>3
  <2> QED
    <3>1. SessionIndexed'
      BY <2>3, <2>4
    <3>2. ActiveHasSession'
      BY <2>2, <2>3
    <3> QED BY <3>1, <3>2
<1> QED BY <1>1, <1>2, <1>3, <1>4, StoreFrame

(* Redis stays consistent with itself whatever the workers, the monitors,   *)
(* the overlapping cleanups, the crashes and a vmid that is used again do:  *)
(* each session is in the active set, in its user's sorted set, in the set  *)
(* of its system and under its pid, and vms:active lists sessions only.     *)
THEOREM StoreConsistent == Spec => [](SessionIndexed /\ ActiveHasSession)
<1>1. Init => IndexInv
  BY InitTypeOK, FreshRecords, StoreAssumption
  DEF Init, StoreInit, IndexInv, SessionAtItsVmid, SessionIndexed, ActiveHasSession
<1>2. IndexInv /\ [Next]_vars => IndexInv'
  <2>1. TypeOK /\ [Next]_vars => TypeOK'
    BY StepTypeOK
  <2> QED BY <2>1, SessionAtItsVmidStep, IndexStep DEF IndexInv
<1>3. IndexInv => SessionIndexed /\ ActiveHasSession
  BY DEF IndexInv
<1> QED BY <1>1, <1>2, <1>3, PTL DEF Spec

(***************************************************************************)
(* When vmids are fresh, as the tokens of /run-script and /run-iso are, no   *)
(* VM of a launch that succeeded is ever without the session a cleanup needs *)
(* to find it, and no cleanup takes the files of a VM that was not stopped:  *)
(* for any number of users, workers and launches, and with every failure,    *)
(* exit, crash and restart of VmLifecycle.                                   *)
(***************************************************************************)

Fresh == \A k, l \in Launches : VmidOf[k] = VmidOf[l] => k = l

-----------------------------------------------------------------------------
(* The invariant.  Everything that can hurt a VM comes after its store.set: *)
(* a hash, a line of output, a cleanup that found a session.                *)

(* A handler runs in one worker and is in one of the stages of a launch.    *)
JobInProgress ==
    \A w \in Workers : job[w] # NoLaunch => stage[job[w]] \in Busy /\ host[job[w]] = w

NotBootedYet ==
    \A l \in Launches : stage[l] \in {"new", "image", "boot"} => qemu[l] = "off"

ClientsAfterSet ==
    \A l \in Launches : lines[l] # <<>> \/ open[l] > 0 => stage[l] = "ok"

HashAfterSet ==
    \A l \in Launches : vm[VmidOf[l]] # NoSession => stage[l] = "ok"

TodoAfterSet ==
    \A w \in Workers : \A l \in Launches : VmidOf[l] \in todo[w] => stage[l] = "ok"

(* Thread t is past the point where cleanup_vm gives up.                    *)
Committed(t) ==
    \/ thr[t].pc \in {"kill", "files", "dget", "dpipe"}
    \/ thr[t].pc = "get" /\ thr[t].ret = "again"

CleanupAfterSet ==
    \A t \in Threads : \A l \in Launches :
        Committed(t) /\ thr[t].vm = VmidOf[l] => stage[l] = "ok"

(* The files and the keys of a VM go after SIGTERM.                         *)
KilledFirst ==
    \A t \in Threads : \A l \in Launches :
        thr[t].pc \in {"files", "dget", "dpipe"} /\ thr[t].vm = VmidOf[l] => qemu[l] # "up"

OwnInv ==
    /\ IndexInv
    /\ JobInProgress /\ NotBootedYet
    /\ ClientsAfterSet /\ HashAfterSet /\ TodoAfterSet /\ CleanupAfterSet
    /\ KilledFirst
    /\ SessionTracksVm /\ RunningVmKeepsFiles

-----------------------------------------------------------------------------
(* What a step can do to the variables the invariant speaks of. *)

LEMMA StageFrame ==
    ASSUME [Next]_vars
    PROVE  \/ UNCHANGED <<stage, job>>
           \/ \E w \in Workers, l \in Launches : Request(w, l)
           \/ \E w \in Workers : LaunchStep(w) \/ Crash(w)
<1>1. ASSUME NEW t \in Threads, CleanupStep(t) PROVE UNCHANGED <<stage, job>>
  BY <1>1 DEF CleanupStep, CleanGet, CleanKill, CleanFiles, DeleteRead, DeletePipe
<1>2. ASSUME NEW l \in Launches,
             \/ MonitorLine(l) \/ MonitorEof(l)
             \/ TargetCloses(l) \/ BridgeReaped(l) \/ QemuExits(l)
             \/ Connect(l) \/ Disconnect(l) \/ BridgeExits(l)
      PROVE  UNCHANGED <<stage, job>>
  BY <1>2 DEF MonitorLine, MonitorEof, TargetCloses, BridgeReaped, QemuExits, Connect,
     Disconnect, BridgeExits
<1>3. ASSUME NEW w \in Workers,
             \/ \E u \in Users : Logout(u, w)
             \/ Shutdown(w) \/ ShutdownNext(w) \/ ShutdownDone(w) \/ Restart(w)
      PROVE  UNCHANGED <<stage, job>>
  BY <1>3 DEF Logout, Shutdown, ShutdownNext, ShutdownDone, Restart
<1>4. ASSUME NEW u \in Users, UploadIso(u) PROVE UNCHANGED <<stage, job>>
  BY <1>4 DEF UploadIso
<1>5. CASE UNCHANGED vars
  BY <1>5 DEF vars
<1> QED BY <1>1, <1>2, <1>3, <1>4, <1>5 DEF Next, Environment

(* A handler moves its own launch on; it is done only by storing a session. *)
LEMMA LaunchFrame ==
    ASSUME TypeOK, NEW w \in Workers, LaunchStep(w)
    PROVE  /\ job[w] \in Launches /\ stage[job[w]] \in Busy
           /\ \A k \in Launches : k # job[w] => stage'[k] = stage[k]
           /\ stage'[job[w]] \in (Busy \ {"image"}) \cup {"ok", "failed"}
           /\ stage'[job[w]] = "ok" => SetSession(w)
           /\ stage'[job[w]] = "boot" => stage[job[w]] = "image"
           /\ Boot(w) => stage[job[w]] = "boot" /\ stage'[job[w]] \in {"bridge", "failed"}
           /\ job' = IF stage'[job[w]] \in Busy THEN job ELSE [job EXCEPT ![w] = NoLaunch]
           /\ UNCHANGED <<host, todo>>
<1> USE DEF TypeOK, Advance, Busy, Stage
<1>1. CASE CreateOverlay(w)
  BY <1>1 DEF CreateOverlay, Boot
<1>2. CASE CreateOverlayFails(w)
  BY <1>2 DEF CreateOverlayFails, Boot
<1>3. CASE Boot(w)
  BY <1>3 DEF Boot
<1>4. CASE BootFails(w)
  BY <1>4 DEF BootFails, Boot
<1>5. CASE StartBridge(w)
  BY <1>5 DEF StartBridge, Boot
<1>6. CASE StartBridgeFails(w)
  BY <1>6 DEF StartBridgeFails, Boot
<1>7. CASE WaitListen(w)
  BY <1>7 DEF WaitListen, Boot
<1>8. CASE SetSession(w)
  BY <1>8 DEF SetSession, Boot
<1>9. CASE SetSessionFails(w)
  BY <1>9 DEF SetSessionFails, Boot
<1> QED BY <1>1, <1>2, <1>3, <1>4, <1>5, <1>6, <1>7, <1>8, <1>9 DEF LaunchStep

(* Only boot_vm and boot_from_iso start a QEMU; none runs twice.            *)
LEMMA QemuFrame ==
    ASSUME TypeOK, [Next]_vars, NEW l \in Launches
    PROVE  \/ \E w \in Workers : Boot(w) /\ job[w] = l
           \/ qemu'[l] = qemu[l]
           \/ qemu[l] \in {"up", "term"} /\ qemu'[l] \in {"term", "gone"}
<1> USE DEF TypeOK
<1>1. ASSUME NEW w \in Workers, LaunchStep(w)
      PROVE  (Boot(w) /\ job[w] = l) \/ qemu'[l] = qemu[l]
  <2>1. CASE Boot(w)
    <3>1. job[w] \in Launches /\ qemu' = [qemu EXCEPT ![job[w]] = "up"]
      BY <2>1 DEF Boot, Advance
    <3> QED BY <2>1, <3>1
  <2>2. CASE ~Boot(w)
    BY <1>1, <2>2 DEF LaunchStep, CreateOverlay, CreateOverlayFails, BootFails, StartBridge,
       StartBridgeFails, WaitListen, SetSession, SetSessionFails
  <2> QED BY <2>1, <2>2
<1>2. ASSUME NEW t \in Threads, CleanupStep(t)
      PROVE  qemu'[l] = qemu[l] \/ (qemu[l] = "up" /\ qemu'[l] = "term")
  <2>1. CASE CleanKill(t)
    BY <2>1 DEF CleanKill
  <2>2. CASE ~CleanKill(t)
    BY <1>2, <2>2 DEF CleanupStep, CleanGet, CleanFiles, DeleteRead, DeletePipe
  <2> QED BY <2>1, <2>2
<1>3. ASSUME NEW k \in Launches, QemuExits(k)
      PROVE  qemu'[l] = qemu[l] \/ (qemu[l] \in {"up", "term"} /\ qemu'[l] = "gone")
  BY <1>3 DEF QemuExits
<1>4. ASSUME NEW k \in Launches,
             \/ MonitorLine(k) \/ MonitorEof(k) \/ TargetCloses(k) \/ BridgeReaped(k)
             \/ Connect(k) \/ Disconnect(k) \/ BridgeExits(k)
      PROVE  UNCHANGED qemu
  BY <1>4 DEF MonitorLine, MonitorEof, TargetCloses, BridgeReaped, Connect, Disconnect,
     BridgeExits
<1>5. ASSUME NEW w \in Workers,
             \/ \E k \in Launches : Request(w, k)
             \/ \E u \in Users : Logout(u, w)
             \/ Shutdown(w) \/ ShutdownNext(w) \/ ShutdownDone(w) \/ Crash(w) \/ Restart(w)
      PROVE  UNCHANGED qemu
  BY <1>5 DEF Request, Logout, Shutdown, ShutdownNext, ShutdownDone, Crash, Restart, Stop
<1>6. ASSUME NEW u \in Users, UploadIso(u) PROVE UNCHANGED qemu
  BY <1>6 DEF UploadIso
<1>7. CASE UNCHANGED vars
  BY <1>7 DEF vars
<1> QED BY <1>1, <1>2, <1>3, <1>4, <1>5, <1>6, <1>7 DEF Next, Environment

(* Output and connections begin with a browser that was redirected.         *)
LEMMA ClientsFrame ==
    ASSUME TypeOK, [Next]_vars, NEW l \in Launches, lines'[l] # <<>> \/ open'[l] > 0
    PROVE  lines[l] # <<>> \/ open[l] > 0 \/ stage[l] = "ok"
<1> USE DEF TypeOK
<1> DEFINE Goal == lines[l] # <<>> \/ open[l] > 0 \/ stage[l] = "ok"
<1>1. ASSUME NEW k \in Launches, Connect(k) PROVE Goal
  BY <1>1 DEF Connect
<1>2. ASSUME NEW k \in Launches, Disconnect(k) PROVE Goal
  BY <1>2 DEF Disconnect
<1>3. ASSUME NEW k \in Launches, TargetCloses(k) \/ BridgeExits(k) PROVE Goal
  <2>1. lines' = lines /\ open'[l] \in {0, open[l]}
    BY <1>3 DEF TargetCloses, BridgeExits
  <2> QED BY <2>1
<1>4. ASSUME NEW k \in Launches, MonitorLine(k) PROVE Goal
  BY <1>4 DEF MonitorLine
<1>5. ASSUME NEW k \in Launches, MonitorEof(k) \/ BridgeReaped(k) \/ QemuExits(k) PROVE Goal
  BY <1>5 DEF MonitorEof, BridgeReaped, QemuExits, clients
<1>6. ASSUME NEW t \in Threads, CleanKill(t) PROVE Goal
  <2>1. lines' = lines /\ open'[l] \in {0, open[l]}
    BY <1>6 DEF CleanKill
  <2> QED BY <2>1
<1>7. ASSUME NEW t \in Threads, CleanGet(t) \/ CleanFiles(t) \/ DeleteRead(t) \/ DeletePipe(t)
      PROVE  Goal
  BY <1>7 DEF CleanGet, CleanFiles, DeleteRead, DeletePipe, clients
<1>8. ASSUME NEW w \in Workers, LaunchStep(w) PROVE Goal
  BY <1>8 DEF LaunchStep, CreateOverlay, CreateOverlayFails, Boot, BootFails, StartBridge,
     StartBridgeFails, WaitListen, SetSession, SetSessionFails, clients
<1>9. ASSUME NEW w \in Workers,
             \/ \E k \in Launches : Request(w, k)
             \/ \E u \in Users : Logout(u, w)
             \/ Shutdown(w) \/ ShutdownNext(w) \/ ShutdownDone(w) \/ Crash(w) \/ Restart(w)
      PROVE  Goal
  BY <1>9 DEF Request, Logout, Shutdown, ShutdownNext, ShutdownDone, Crash, Restart, Stop, clients
<1>10. ASSUME NEW u \in Users, UploadIso(u) PROVE Goal
  BY <1>10 DEF UploadIso, clients
<1>11. CASE UNCHANGED vars
  BY <1>11 DEF vars, clients
<1> QED
  BY <1>1, <1>2, <1>3, <1>4, <1>5, <1>6, <1>7, <1>8, <1>9, <1>10, <1>11
  DEF Next, Environment, CleanupStep

(* What takes a socket or an overlay away. *)
LEMMA FilesFrame ==
    ASSUME [Next]_vars, NEW v \in Vmids
    PROVE  /\ v \in sock =>
                \/ v \in sock'
                \/ \E w \in Workers : BootFails(w) /\ v = VmidOf[job[w]]
                \/ \E t \in Threads : CleanFiles(t) /\ v = thr[t].vm
           /\ v \in image =>
                \/ v \in image'
                \/ \E t \in Threads : CleanFiles(t) /\ v = thr[t].vm
<1>1. ASSUME NEW w \in Workers, LaunchStep(w)
      PROVE  /\ v \in sock => v \in sock' \/ (BootFails(w) /\ v = VmidOf[job[w]])
             /\ v \in image => v \in image'
  BY <1>1 DEF LaunchStep, CreateOverlay, CreateOverlayFails, Boot, BootFails, StartBridge,
     StartBridgeFails, WaitListen, SetSession, SetSessionFails, files
<1>2. ASSUME NEW t \in Threads, CleanupStep(t)
      PROVE  \/ UNCHANGED <<sock, image>>
             \/ CleanFiles(t) /\ v = thr[t].vm
             \/ (v \in sock => v \in sock') /\ (v \in image => v \in image')
  BY <1>2 DEF CleanupStep, CleanGet, CleanKill, CleanFiles, DeleteRead, DeletePipe, files
<1>3. ASSUME NEW l \in Launches,
             \/ MonitorLine(l) \/ MonitorEof(l)
             \/ TargetCloses(l) \/ BridgeReaped(l) \/ QemuExits(l)
             \/ Connect(l) \/ Disconnect(l) \/ BridgeExits(l)
      PROVE  UNCHANGED <<sock, image>>
  BY <1>3 DEF MonitorLine, MonitorEof, TargetCloses, BridgeReaped, QemuExits, Connect,
     Disconnect, BridgeExits, files
<1>4. ASSUME NEW w \in Workers,
             \/ \E l \in Launches : Request(w, l)
             \/ \E u \in Users : Logout(u, w)
             \/ Shutdown(w) \/ ShutdownNext(w) \/ ShutdownDone(w) \/ Crash(w) \/ Restart(w)
      PROVE  UNCHANGED <<sock, image>>
  BY <1>4 DEF Request, Logout, Shutdown, ShutdownNext, ShutdownDone, Crash, Restart, Stop, files
<1>5. ASSUME NEW u \in Users, UploadIso(u) PROVE UNCHANGED <<sock, image>>
  BY <1>5 DEF UploadIso
<1>6. CASE UNCHANGED vars
  BY <1>6 DEF vars, files
<1> QED BY <1>1, <1>2, <1>3, <1>4, <1>5, <1>6 DEF Next, Environment

(* A shutdown cleans what it found in Redis.                                *)
LEMMA TodoFrame ==
    ASSUME TypeOK, [Next]_vars, NEW w \in Workers
    PROVE  todo'[w] \subseteq todo[w] \cup Items
<1> USE DEF TypeOK
<1>1. ASSUME NEW x \in Workers, LaunchStep(x) PROVE UNCHANGED todo
  BY <1>1, LaunchFrame
<1>2. ASSUME NEW t \in Threads, CleanupStep(t) PROVE UNCHANGED todo
  BY <1>2 DEF CleanupStep, CleanGet, CleanKill, CleanFiles, DeleteRead, DeletePipe
<1>3. ASSUME NEW l \in Launches,
             \/ MonitorLine(l) \/ MonitorEof(l)
             \/ TargetCloses(l) \/ BridgeReaped(l) \/ QemuExits(l)
             \/ Connect(l) \/ Disconnect(l) \/ BridgeExits(l)
      PROVE  UNCHANGED todo
  BY <1>3 DEF MonitorLine, MonitorEof, TargetCloses, BridgeReaped, QemuExits, Connect,
     Disconnect, BridgeExits
<1>4. ASSUME NEW x \in Workers, Shutdown(x) \/ ShutdownNext(x) \/ ShutdownDone(x) \/ Crash(x)
      PROVE  todo'[w] \subseteq todo[w] \cup Items
  BY <1>4 DEF Shutdown, ShutdownNext, ShutdownDone, Crash, Stop
<1>5. ASSUME NEW x \in Workers,
             \/ \E l \in Launches : Request(x, l)
             \/ \E u \in Users : Logout(u, x)
             \/ Restart(x)
      PROVE  UNCHANGED todo
  BY <1>5 DEF Request, Logout, Restart
<1>6. ASSUME NEW u \in Users, UploadIso(u) PROVE UNCHANGED todo
  BY <1>6 DEF UploadIso
<1>7. CASE UNCHANGED vars
  BY <1>7 DEF vars
<1> QED BY <1>1, <1>2, <1>3, <1>4, <1>5, <1>6, <1>7 DEF Next, Environment

LEMMA NoLaunchIsNone == NoLaunch \notin Launches
BY LifecycleAssumption

(* A launch stays with the worker that took the request. *)
LEMMA HostFrame ==
    ASSUME TypeOK, [Next]_vars, NEW l \in Launches
    PROVE  host'[l] = host[l] \/ \E w \in Workers : Request(w, l)
<1> USE DEF TypeOK
<1>1. ASSUME NEW w \in Workers, LaunchStep(w) PROVE UNCHANGED host
  BY <1>1, LaunchFrame
<1>2. ASSUME NEW t \in Threads, CleanupStep(t) PROVE UNCHANGED host
  BY <1>2 DEF CleanupStep, CleanGet, CleanKill, CleanFiles, DeleteRead, DeletePipe
<1>3. ASSUME NEW k \in Launches,
             \/ MonitorLine(k) \/ MonitorEof(k)
             \/ TargetCloses(k) \/ BridgeReaped(k) \/ QemuExits(k)
             \/ Connect(k) \/ Disconnect(k) \/ BridgeExits(k)
      PROVE  UNCHANGED host
  BY <1>3 DEF MonitorLine, MonitorEof, TargetCloses, BridgeReaped, QemuExits, Connect,
     Disconnect, BridgeExits
<1>4. ASSUME NEW w \in Workers, NEW k \in Launches, Request(w, k)
      PROVE  k = l \/ host'[l] = host[l]
  BY <1>4 DEF Request, Threads
<1>5. ASSUME NEW w \in Workers, NEW u \in Users, Logout(u, w) PROVE host'[l] = host[l]
  BY <1>5, LifecycleAssumption DEF Logout, Threads
<1>6. ASSUME NEW w \in Workers,
             Shutdown(w) \/ ShutdownNext(w) \/ ShutdownDone(w) \/ Crash(w) \/ Restart(w)
      PROVE  UNCHANGED host
  BY <1>6 DEF Shutdown, ShutdownNext, ShutdownDone, Crash, Restart, Stop
<1>7. ASSUME NEW u \in Users, UploadIso(u) PROVE UNCHANGED host
  BY <1>7 DEF UploadIso
<1>8. CASE UNCHANGED vars
  BY <1>8 DEF vars
<1> QED BY <1>1, <1>2, <1>3, <1>4, <1>5, <1>6, <1>7, <1>8 DEF Next, Environment

-----------------------------------------------------------------------------
(* The invariant is preserved. *)

LEMMA JobStep ==
    ASSUME TypeOK, JobInProgress, [Next]_vars
    PROVE  JobInProgress'
<1> USE NoLaunchIsNone DEF TypeOK, JobInProgress
<1> SUFFICES ASSUME NEW w \in Workers, job'[w] # NoLaunch
             PROVE  stage'[job'[w]] \in Busy /\ host'[job'[w]] = w
  OBVIOUS
<1>1. CASE UNCHANGED <<stage, job>>
  <2>1. ~\E x \in Workers : Request(x, job[w])
    BY <1>1 DEF Request, Busy
  <2> QED BY <1>1, <2>1, HostFrame
<1>2. ASSUME NEW x \in Workers, NEW l \in Launches, Request(x, l)
      PROVE  stage'[job'[w]] \in Busy /\ host'[job'[w]] = w
  BY <1>2 DEF Request, Busy, Threads
<1>3. ASSUME NEW x \in Workers, LaunchStep(x)
      PROVE  stage'[job'[w]] \in Busy /\ host'[job'[w]] = w
  <2>1. /\ job[x] \in Launches
        /\ host[job[x]] = x
        /\ \A k \in Launches : k # job[x] => stage'[k] = stage[k]
        /\ job' = IF stage'[job[x]] \in Busy THEN job ELSE [job EXCEPT ![x] = NoLaunch]
        /\ host' = host
    BY <1>3, LaunchFrame
  <2>2. CASE w = x
    BY <2>1, <2>2
  <2>3. CASE w # x
    <3>1. job'[w] = job[w] /\ job[w] \in Launches /\ host[job[w]] = w
      BY <2>1, <2>3
    <3> QED BY <2>1, <2>3, <3>1
  <2> QED BY <2>2, <2>3
<1>4. ASSUME NEW x \in Workers, Crash(x)
      PROVE  stage'[job'[w]] \in Busy /\ host'[job'[w]] = w
  BY <1>4 DEF Crash, Stop
<1> QED BY <1>1, <1>2, <1>3, <1>4, StageFrame

(* A launch goes forward, and is over once its session is stored.           *)
LEMMA StageStep ==
    ASSUME TypeOK, JobInProgress, [Next]_vars, NEW l \in Launches
    PROVE  /\ stage[l] = "ok" => stage'[l] = "ok"
           /\ stage[l] \in Busy \cup {"failed"} =>
                \/ stage'[l] \in Busy \cup {"failed"}
                \/ \E w \in Workers : SetSession(w) /\ job[w] = l
           /\ stage'[l] \in {"new", "image", "boot"} =>
                /\ stage[l] \in {"new", "image", "boot"}
                /\ ~\E w \in Workers : Boot(w) /\ job[w] = l
<1> USE NoLaunchIsNone DEF TypeOK, JobInProgress, Busy
<1>1. ASSUME NEW w \in Workers, Boot(w), job[w] = l
      PROVE  stage[l] = "boot" /\ stage'[l] \in {"bridge", "failed"}
  BY <1>1, LaunchFrame DEF LaunchStep
<1>2. CASE UNCHANGED <<stage, job>>
  BY <1>1, <1>2
<1>3. ASSUME NEW w \in Workers, NEW k \in Launches, Request(w, k)
      PROVE  stage'[l] = stage[l] \/ (stage[l] = "new" /\ stage'[l] \in {"image", "boot"})
  BY <1>3 DEF Request
<1>4. ASSUME NEW w \in Workers, LaunchStep(w)
      PROVE  \/ stage'[l] = stage[l]
             \/ /\ stage[l] \in Busy /\ job[w] = l
                /\ stage'[l] \in (Busy \ {"image"}) \cup {"ok", "failed"}
                /\ stage'[l] = "ok" => SetSession(w)
                /\ stage'[l] = "boot" => stage[l] = "image"
  BY <1>4, LaunchFrame
<1>5. ASSUME NEW w \in Workers, Crash(w)
      PROVE  stage'[l] = stage[l] \/ (stage[l] \in Busy /\ stage'[l] = "failed")
  BY <1>5 DEF Crash, Stop
<1> QED BY <1>1, <1>2, <1>3, <1>4, <1>5, StageFrame

LEMMA NotBootedStep ==
    ASSUME TypeOK, JobInProgress, NotBootedYet, [Next]_vars
    PROVE  NotBootedYet'
<1> SUFFICES ASSUME NEW l \in Launches, stage'[l] \in {"new", "image", "boot"}
             PROVE  qemu'[l] = "off"
  BY DEF NotBootedYet
<1>1. qemu[l] = "off" /\ ~\E w \in Workers : Boot(w) /\ job[w] = l
  BY StageStep DEF NotBootedYet
<1> QED BY <1>1, QemuFrame

LEMMA ClientsStep ==
    ASSUME OwnInv, [Next]_vars
    PROVE  ClientsAfterSet'
BY ClientsFrame, StageStep DEF OwnInv, IndexInv, ClientsAfterSet

(* A hash appears by store.set, or by a line that comes after one.          *)
LEMMA HashStep ==
    ASSUME Fresh, OwnInv, [Next]_vars
    PROVE  HashAfterSet'
<1> SUFFICES ASSUME NEW l \in Launches, vm'[VmidOf[l]] # NoSession
             PROVE  stage'[l] = "ok"
  BY DEF HashAfterSet
<1> DEFINE v == VmidOf[l]
<1> USE DEF OwnInv, IndexInv
<1>1. TypeOK /\ v \in Vmids /\ (stage[l] = "ok" => stage'[l] = "ok")
  BY StageStep, LifecycleAssumption
<1>2. CASE vm[v] # NoSession
  BY <1>1, <1>2 DEF HashAfterSet
<1>3. CASE vm[v] = NoSession
  <2>1. CASE UNCHANGED store
    BY <1>3, <2>1 DEF store
  <2>2. CASE \E w \in Workers : SetSession(w)
    <3>1. PICK w \in Workers : SetSession(w)
      BY <2>2
    <3>2. /\ job[w] \in Launches /\ stage'[job[w]] = "ok"
          /\ vm' = [vm EXCEPT ![VmidOf[job[w]]] = job[w]]
      BY <1>1, <3>1 DEF SetSession, Advance, StoreSet, TypeOK
    <3>3. job[w] = l
      BY <1>1, <1>3, <3>2 DEF Fresh, TypeOK, StoreTypeOK
    <3> QED BY <3>2, <3>3
  <2>3. CASE \E k \in Launches : MonitorLine(k)
    <3>1. PICK k \in Launches : MonitorLine(k)
      BY <2>3
    <3>2. lines[k] # <<>> /\ VmidOf[k] = v
      BY <1>1, <1>3, <3>1 DEF MonitorLine, StoreUpdate, TypeOK, StoreTypeOK
    <3> QED BY <1>1, <3>2 DEF ClientsAfterSet, Fresh
  <2>4. CASE \E t \in Threads : DeletePipe(t)
    BY <1>1, <1>3, <2>4 DEF DeletePipe, StoreDelete, TypeOK, StoreTypeOK
  <2> QED BY <2>1, <2>2, <2>3, <2>4, StoreFrame
<1> QED BY <1>2, <1>3

LEMMA TodoStep ==
    ASSUME OwnInv, [Next]_vars
    PROVE  TodoAfterSet'
<1> SUFFICES ASSUME NEW w \in Workers, NEW l \in Launches, VmidOf[l] \in todo'[w]
             PROVE  stage'[l] = "ok"
  BY DEF TodoAfterSet
<1>1. VmidOf[l] \in todo[w] \/ vm[VmidOf[l]] # NoSession
  BY TodoFrame DEF OwnInv, IndexInv, Items
<1>2. stage[l] = "ok"
  BY <1>1 DEF OwnInv, TodoAfterSet, HashAfterSet
<1> QED BY <1>2, StageStep DEF OwnInv, IndexInv

(* A cleanup gets past its first read only for a session that was stored.   *)
LEMMA CommittedStep ==
    ASSUME OwnInv, [Next]_vars
    PROVE  CleanupAfterSet'
<1> SUFFICES ASSUME NEW t \in Threads, NEW l \in Launches,
                    Committed(t)', thr'[t].vm = VmidOf[l]
             PROVE  stage[l] = "ok"
  BY StageStep DEF CleanupAfterSet, OwnInv, IndexInv
<1> USE DEF OwnInv, IndexInv
<1>1. CASE thr'[t] = thr[t]
  BY <1>1 DEF CleanupAfterSet, Committed
<1>2. CASE thr'[t] \in {At("idle"), At("watch")}
  BY <1>2 DEF At, Committed
<1>3. CASE StartsCleanup(t)
  <2>1. ASSUME NEW v, NEW r, thr'[t] = Cleanup(v, r) PROVE v = VmidOf[l] /\ r = "again"
    BY <2>1 DEF Cleanup, Committed
  <2>2. CASE \E v \in Vmids : vm[v] # NoSession /\ thr'[t] = Cleanup(v, "again")
    BY <2>1, <2>2 DEF HashAfterSet
  <2>3. CASE \E v \in todo[t] : t \in Workers /\ thr'[t] = Cleanup(v, "again")
    BY <2>1, <2>3 DEF TodoAfterSet
  <2> QED BY <1>3, <2>1, <2>2, <2>3 DEF StartsCleanup
<1>4. CASE CleanupStep(t)
  <2>1. CASE Committed(t)
    <3>1. thr'[t].vm = thr[t].vm
      BY <1>4, CleanupFrame DEF Resumed, At, Committed
    <3> QED BY <2>1, <3>1 DEF CleanupAfterSet
  <2>2. CASE ~Committed(t)
    <3>1. thr[t].pc = "get" /\ thr[t].ret # "again"
      BY <1>4, <2>2 DEF Committed, CleanupStep, CleanGet, CleanKill, CleanFiles, DeleteRead,
         DeletePipe
    <3>2. ~CleanKill(t) /\ ~CleanFiles(t) /\ ~DeleteRead(t) /\ ~DeletePipe(t)
      BY <3>1 DEF CleanKill, CleanFiles, DeleteRead, DeletePipe
    <3>3. ~Resumed(t)
      BY <3>1 DEF Resumed, At, Committed
    <3>4. thr'[t].vm = thr[t].vm /\ vm[thr[t].vm] # NoSession
      BY <1>4, <3>2, <3>3, CleanupFrame
    <3> QED BY <3>4 DEF HashAfterSet
  <2> QED BY <2>1, <2>2
<1> QED BY <1>1, <1>2, <1>3, <1>4, ThreadFrame

LEMMA NotStartedAgain ==
    ASSUME OwnInv, [Next]_vars, NEW l \in Launches,
           stage[l] # "boot", qemu[l] # "up"
    PROVE  qemu'[l] # "up"
<1>1. ASSUME NEW w \in Workers, Boot(w) PROVE stage[job[w]] = "boot"
  BY <1>1, LaunchFrame DEF OwnInv, IndexInv, LaunchStep
<1> QED BY <1>1, QemuFrame DEF OwnInv, IndexInv

(* SIGTERM reaches QEMU before the files and the keys of its vmid go.       *)
LEMMA KilledStep ==
    ASSUME Fresh, OwnInv, [Next]_vars
    PROVE  KilledFirst'
<1> SUFFICES ASSUME NEW t \in Threads, NEW l \in Launches,
                    thr'[t].pc \in {"files", "dget", "dpipe"}, thr'[t].vm = VmidOf[l]
             PROVE  qemu'[l] # "up"
  BY DEF KilledFirst
<1> USE DEF OwnInv, IndexInv
<1>1. ASSUME thr[t].vm = VmidOf[l], Committed(t), qemu[l] # "up"
      PROVE  qemu'[l] # "up"
  BY <1>1, NotStartedAgain DEF CleanupAfterSet
<1>2. CASE thr'[t] = thr[t]
  BY <1>1, <1>2 DEF KilledFirst, Committed
<1>3. CASE thr'[t] \in {At("idle"), At("watch")}
  BY <1>3 DEF At
<1>4. CASE StartsCleanup(t)
  <2>1. \A v, r : Cleanup(v, r).pc = "get"
    BY DEF Cleanup
  <2> QED BY <1>4, <2>1 DEF StartsCleanup
<1>5. CASE CleanupStep(t)
  <2>1. thr[t].vm = VmidOf[l]
    BY <1>5, CleanupFrame DEF Resumed, At
  <2>2. CASE CleanGet(t)
    <3>1. vm[VmidOf[l]] = NoSession /\ Resumed(t)
      BY <1>5, <2>1, <2>2, CleanupFrame
         DEF CleanGet, CleanKill, CleanFiles, DeleteRead, DeletePipe
    <3>2. Committed(t)
      BY <2>2, <3>1 DEF Resumed, At, CleanGet, Committed
    <3>3. stage[l] = "ok" /\ vm[VmidOf[l]] # l
      BY <2>1, <3>1, <3>2, StoreAssumption DEF CleanupAfterSet
    <3> QED BY <1>1, <2>1, <3>2, <3>3 DEF SessionTracksVm, Busy
  <2>3. CASE CleanKill(t)
    <3>1. thr[t].sess \in Launches => thr[t].sess = l
      BY <2>1 DEF SessionAtItsVmid, Fresh
    <3> QED BY <2>1, <2>3, <3>1 DEF CleanKill
  <2>4. CASE CleanFiles(t) \/ DeleteRead(t) \/ DeletePipe(t)
    <3>1. thr[t].pc \in {"files", "dget", "dpipe"}
      BY <2>4 DEF CleanFiles, DeleteRead, DeletePipe
    <3> QED BY <1>1, <2>1, <3>1 DEF KilledFirst, Committed
  <2> QED BY <1>5, <2>2, <2>3, <2>4 DEF CleanupStep
<1> QED BY <1>2, <1>3, <1>4, <1>5, ThreadFrame

(* A session goes only after its VM was told to stop.                       *)
LEMMA TracksStep ==
    ASSUME Fresh, OwnInv, [Next]_vars
    PROVE  SessionTracksVm'
<1> SUFFICES ASSUME NEW l \in Launches, qemu'[l] = "up"
             PROVE  stage'[l] \in Busy \cup {"failed"} \/ vm'[VmidOf[l]] = l
  BY DEF SessionTracksVm
<1> DEFINE v == VmidOf[l]
<1> USE DEF OwnInv, IndexInv
<1>1. v \in Vmids /\ vm \in [Vmids -> Launches \cup {NoSession, Ghost}]
  BY LifecycleAssumption DEF TypeOK, StoreTypeOK
<1>2. ASSUME NEW w \in Workers, SetSession(w)
      PROVE  /\ job[w] \in Launches
             /\ vm' = [vm EXCEPT ![VmidOf[job[w]]] = job[w]]
  BY <1>2 DEF SetSession, Advance, StoreSet, TypeOK
<1>3. CASE \E w \in Workers : Boot(w) /\ job[w] = l
  BY <1>3, LaunchFrame DEF LaunchStep, Busy
<1>4. CASE qemu[l] = "up" /\ stage[l] \in Busy \cup {"failed"}
  <2>1. CASE \E w \in Workers : SetSession(w) /\ job[w] = l
    BY <1>1, <1>2, <2>1
  <2> QED BY <1>4, <2>1, StageStep
<1>5. CASE qemu[l] = "up" /\ vm[v] = l
  <2>1. CASE UNCHANGED store
    BY <1>5, <2>1 DEF store
  <2>2. CASE \E w \in Workers : SetSession(w)
    BY <1>1, <1>2, <1>5, <2>2 DEF Fresh
  <2>3. CASE \E k \in Launches : MonitorLine(k)
    <3>1. PICK k \in Launches : StoreUpdate(VmidOf[k])
      BY <2>3 DEF MonitorLine
    <3> QED BY <1>1, <1>5, <3>1, StoreAssumption DEF StoreUpdate
  <2>4. CASE \E t \in Threads : DeletePipe(t)
    <3>1. PICK t \in Threads : DeletePipe(t)
      BY <2>4
    <3>2. thr[t].vm # v
      BY <1>5, <3>1 DEF DeletePipe, KilledFirst
    <3> QED BY <1>1, <1>5, <3>1, <3>2 DEF DeletePipe, StoreDelete
  <2> QED BY <2>1, <2>2, <2>3, <2>4, StoreFrame
<1> QED BY <1>3, <1>4, <1>5, QemuFrame DEF SessionTracksVm

LEMMA FilesStep ==
    ASSUME Fresh, OwnInv, [Next]_vars
    PROVE  RunningVmKeepsFiles'
<1> SUFFICES ASSUME NEW l \in Launches, qemu'[l] = "up"
             PROVE  VmidOf[l] \in sock' /\ (HasOverlay(l) => VmidOf[l] \in image')
  BY DEF RunningVmKeepsFiles, HasOverlay
<1> USE DEF OwnInv, IndexInv
<1>1. CASE \E w \in Workers : Boot(w) /\ job[w] = l
  BY <1>1 DEF Boot, ImageExists
<1>2. CASE qemu[l] = "up"
  <2>1. VmidOf[l] \in sock /\ (HasOverlay(l) => VmidOf[l] \in image)
    BY <1>2 DEF RunningVmKeepsFiles
  <2>2. ASSUME NEW t \in Threads, CleanFiles(t) PROVE VmidOf[l] # thr[t].vm
    BY <1>2, <2>2 DEF CleanFiles, KilledFirst
  <2>3. ASSUME NEW w \in Workers, BootFails(w) PROVE VmidOf[l] # VmidOf[job[w]]
    <3>1. job[w] \in Launches /\ stage[job[w]] = "boot"
      BY <2>3 DEF BootFails, Advance, TypeOK
    <3> QED BY <1>2, <3>1 DEF NotBootedYet, Fresh
  <2> QED BY <2>1, <2>2, <2>3, FilesFrame, LifecycleAssumption
<1> QED BY <1>1, <1>2, QemuFrame

LEMMA OwnInvInit ==
    ASSUME Fresh, Init
    PROVE  OwnInv
<1>1. IndexInv
  BY InitTypeOK, FreshRecords, StoreAssumption
  DEF Init, StoreInit, IndexInv, SessionAtItsVmid, SessionIndexed, ActiveHasSession
<1>2. JobInProgress /\ NotBootedYet /\ SessionTracksVm /\ RunningVmKeepsFiles
  BY DEF Init, JobInProgress, NotBootedYet, SessionTracksVm, RunningVmKeepsFiles
<1>3. ClientsAfterSet /\ HashAfterSet /\ TodoAfterSet
  BY LifecycleAssumption
  DEF Init, StoreInit, ClientsAfterSet, HashAfterSet, TodoAfterSet
<1>4. CleanupAfterSet /\ KilledFirst
  BY DEF Init, CleanupAfterSet, KilledFirst, Committed, At
<1> QED BY <1>1, <1>2, <1>3, <1>4 DEF OwnInv

LEMMA OwnInvStep ==
    ASSUME Fresh, OwnInv, [Next]_vars
    PROVE  OwnInv'
<1>1. IndexInv'
  BY StepTypeOK, SessionAtItsVmidStep, IndexStep DEF OwnInv, IndexInv
<1>2. JobInProgress' /\ NotBootedYet'
  BY JobStep, NotBootedStep DEF OwnInv, IndexInv
<1> QED
  BY <1>1, <1>2, ClientsStep, HashStep, TodoStep, CommittedStep, KilledStep, TracksStep,
     FilesStep
  DEF OwnInv

(* A VM that nobody told to stop is still starting, or its launch failed,   *)
(* or its session is in Redis; and its sockets and overlay are on disk.     *)
THEOREM VmKeepsSessionAndFiles ==
    ASSUME Fresh
    PROVE  Spec => [](SessionTracksVm /\ RunningVmKeepsFiles)
<1>1. Init => OwnInv
  BY OwnInvInit
<1>2. OwnInv /\ [Next]_vars => OwnInv'
  BY OwnInvStep
<1>3. OwnInv => SessionTracksVm /\ RunningVmKeepsFiles
  BY DEF OwnInv
<1> QED BY <1>1, <1>2, <1>3, PTL DEF Spec

(***************************************************************************)
(* The converse for the overlays: with fresh vmids no overlay outlives the   *)
(* cleanup of its VM.                                                        *)
(***************************************************************************)

(* Only launches of a built-in system create an overlay.                    *)
ImageBeforeBoot == \A l \in Launches : stage[l] = "image" => HasOverlay(l)

OverlayNamed == \A v \in image : \E l \in Launches : VmidOf[l] = v

OverlayHeld ==
    \A l \in Launches : VmidOf[l] \in image =>
        HasOverlay(l) /\ (stage[l] \in Busy \cup {"failed"} \/ vm[VmidOf[l]] = l)

(* Thread t works on the VM of launch l and will not unlink its overlay any *)
(* more: it is past that point, or read a hash that is not l's.             *)
PastUnlink(t, l) ==
    /\ thr[t].vm = VmidOf[l]
    /\ \/ thr[t].pc \in {"dget", "dpipe"}
       \/ thr[t].pc \in {"kill", "files"} /\ thr[t].sess # l

(* The overlay goes before the keys of its vmid.                            *)
UnlinkedFirst ==
    \A t \in Threads : \A l \in Launches : PastUnlink(t, l) => VmidOf[l] \notin image

OverlayInv ==
    OwnInv /\ ImageBeforeBoot /\ OverlayNamed /\ OverlayHeld /\ UnlinkedFirst

(* Only create_overlay adds an overlay. *)
LEMMA ImageFrame ==
    ASSUME [Next]_vars, NEW v \in image', v \notin image
    PROVE  \E w \in Workers : CreateOverlay(w) /\ v = VmidOf[job[w]]
<1>1. ASSUME NEW w \in Workers, LaunchStep(w)
      PROVE  CreateOverlay(w) /\ v = VmidOf[job[w]]
  <2>1. CreateOverlay(w) \/ image' = image
    BY <1>1 DEF LaunchStep, CreateOverlayFails, Boot, BootFails, StartBridge,
       StartBridgeFails, WaitListen, SetSession, SetSessionFails, files
  <2> QED BY <2>1 DEF CreateOverlay
<1>2. ASSUME NEW t \in Threads, CleanupStep(t) PROVE image' \subseteq image
  BY <1>2 DEF CleanupStep, CleanGet, CleanKill, CleanFiles, DeleteRead, DeletePipe, files
<1>3. ASSUME NEW l \in Launches,
             \/ MonitorLine(l) \/ MonitorEof(l)
             \/ TargetCloses(l) \/ BridgeReaped(l) \/ QemuExits(l)
             \/ Connect(l) \/ Disconnect(l) \/ BridgeExits(l)
      PROVE  UNCHANGED image
  BY <1>3 DEF MonitorLine, MonitorEof, TargetCloses, BridgeReaped, QemuExits, Connect,
     Disconnect, BridgeExits, files
<1>4. ASSUME NEW w \in Workers,
             \/ \E l \in Launches : Request(w, l)
             \/ \E u \in Users : Logout(u, w)
             \/ Shutdown(w) \/ ShutdownNext(w) \/ ShutdownDone(w) \/ Crash(w) \/ Restart(w)
      PROVE  UNCHANGED image
  BY <1>4 DEF Request, Logout, Shutdown, ShutdownNext, ShutdownDone, Crash, Restart, Stop, files
<1>5. ASSUME NEW u \in Users, UploadIso(u) PROVE UNCHANGED image
  BY <1>5 DEF UploadIso
<1>6. CASE UNCHANGED vars
  BY <1>6 DEF vars, files
<1> QED BY <1>1, <1>2, <1>3, <1>4, <1>5, <1>6 DEF Next, Environment

LEMMA ImageStageStep ==
    ASSUME TypeOK, ImageBeforeBoot, [Next]_vars
    PROVE  ImageBeforeBoot'
<1> SUFFICES ASSUME NEW l \in Launches, stage'[l] = "image"
             PROVE  HasOverlay(l)
  BY DEF ImageBeforeBoot, HasOverlay
<1> USE DEF TypeOK, ImageBeforeBoot
<1>1. CASE UNCHANGED <<stage, job>>
  BY <1>1
<1>2. ASSUME NEW w \in Workers, NEW k \in Launches, Request(w, k) PROVE HasOverlay(l)
  BY <1>2 DEF Request
<1>3. ASSUME NEW w \in Workers, LaunchStep(w) PROVE HasOverlay(l)
  BY <1>3, LaunchFrame
<1>4. ASSUME NEW w \in Workers, Crash(w) PROVE HasOverlay(l)
  BY <1>4 DEF Crash, Stop
<1> QED BY <1>1, <1>2, <1>3, <1>4, StageFrame

(* A new overlay belongs to a launch that nothing has stored yet.           *)
LEMMA CreatedFresh ==
    ASSUME Fresh, OverlayInv, [Next]_vars, NEW l \in Launches,
           VmidOf[l] \in image', VmidOf[l] \notin image
    PROVE  stage[l] = "image" /\ stage'[l] = "boot" /\ HasOverlay(l)
<1>1. PICK w \in Workers : CreateOverlay(w) /\ VmidOf[l] = VmidOf[job[w]]
  BY ImageFrame
<1>2. job[w] \in Launches /\ stage[job[w]] = "image" /\ stage'[job[w]] = "boot"
  BY <1>1 DEF CreateOverlay, Advance, OverlayInv, OwnInv, IndexInv, TypeOK
<1>3. job[w] = l
  BY <1>1, <1>2 DEF Fresh
<1> QED BY <1>2, <1>3 DEF OverlayInv, ImageBeforeBoot

(* The session of a VM with an overlay is deleted after the overlay.        *)
LEMMA HeldStep ==
    ASSUME Fresh, OverlayInv, [Next]_vars
    PROVE  OverlayHeld'
<1> SUFFICES ASSUME NEW l \in Launches, VmidOf[l] \in image'
             PROVE  HasOverlay(l)
                    /\ (stage'[l] \in Busy \cup {"failed"} \/ vm'[VmidOf[l]] = l)
  BY DEF OverlayHeld, HasOverlay
<1> DEFINE v == VmidOf[l]
<1>1. TypeOK /\ JobInProgress
  BY DEF OverlayInv, OwnInv, IndexInv
<1>2. v \in Vmids /\ vm \in [Vmids -> Launches \cup {NoSession, Ghost}]
  BY <1>1, LifecycleAssumption DEF TypeOK, StoreTypeOK
<1>3. ASSUME NEW w \in Workers, SetSession(w)
      PROVE  /\ job[w] \in Launches
             /\ vm' = [vm EXCEPT ![VmidOf[job[w]]] = job[w]]
  BY <1>1, <1>3 DEF SetSession, Advance, StoreSet, TypeOK
<1>4. CASE v \notin image
  BY <1>4, CreatedFresh DEF Busy
<1>5. CASE v \in image /\ stage[l] \in Busy \cup {"failed"}
  <2>1. HasOverlay(l)
    BY <1>5 DEF OverlayInv, OverlayHeld
  <2>2. CASE \E w \in Workers : SetSession(w) /\ job[w] = l
    BY <1>2, <1>3, <2>1, <2>2
  <2> QED BY <1>1, <1>5, <2>1, <2>2, StageStep
<1>6. CASE v \in image /\ vm[v] = l
  <2>1. HasOverlay(l)
    BY <1>6 DEF OverlayInv, OverlayHeld
  <2>2. CASE UNCHANGED store
    BY <1>6, <2>1, <2>2 DEF store
  <2>3. CASE \E w \in Workers : SetSession(w)
    BY <1>2, <1>3, <1>6, <2>1, <2>3 DEF Fresh
  <2>4. CASE \E k \in Launches : MonitorLine(k)
    <3>1. PICK k \in Launches : StoreUpdate(VmidOf[k])
      BY <2>4 DEF MonitorLine
    <3> QED BY <1>2, <1>6, <2>1, <3>1, StoreAssumption DEF StoreUpdate
  <2>5. CASE \E t \in Threads : DeletePipe(t)
    <3>1. PICK t \in Threads : DeletePipe(t)
      BY <2>5
    <3>2. thr[t].vm # v
      BY <1>6, <3>1 DEF DeletePipe, OverlayInv, UnlinkedFirst, PastUnlink
    <3> QED BY <1>2, <1>6, <2>1, <3>1, <3>2 DEF DeletePipe, StoreDelete
  <2> QED BY <2>2, <2>3, <2>4, <2>5, StoreFrame
<1> QED BY <1>4, <1>5, <1>6 DEF OverlayInv, OverlayHeld

(* A thread gets past the unlinking of an overlay by unlinking it, or finds *)
(* it gone: the hash it read was another's, or there was none.              *)
LEMMA PastUnlinkStep ==
    ASSUME Fresh, OverlayInv, [Next]_vars, NEW t \in Threads, NEW l \in Launches,
           CleanupStep(t), PastUnlink(t, l)'
    PROVE  VmidOf[l] \notin image'
<1>1. TypeOK
  BY DEF OverlayInv, OwnInv, IndexInv
<1>2. thr[t].vm = VmidOf[l]
  BY <1>1, CleanupFrame DEF Resumed, At, PastUnlink
<1>3. ASSUME VmidOf[l] \notin image, Committed(t) PROVE VmidOf[l] \notin image'
  <2>1. stage[l] = "ok"
    BY <1>2, <1>3 DEF OverlayInv, OwnInv, CleanupAfterSet
  <2> QED BY <1>3, <2>1, CreatedFresh
<1>4. ASSUME stage[l] = "ok", vm[VmidOf[l]] # l PROVE VmidOf[l] \notin image
  BY <1>4 DEF OverlayInv, OverlayHeld, Busy
<1>5. CASE CleanGet(t)
  <2>1. CASE vm[VmidOf[l]] = NoSession
    <3>1. Resumed(t) /\ thr[t].pc = "get"
      BY <1>1, <1>2, <1>5, <2>1, CleanupFrame
      DEF CleanGet, CleanKill, CleanFiles, DeleteRead, DeletePipe
    <3>2. Committed(t)
      BY <3>1 DEF Resumed, At, Committed, PastUnlink
    <3>3. stage[l] = "ok" /\ vm[VmidOf[l]] # l
      BY <1>2, <2>1, <3>2, StoreAssumption DEF OverlayInv, OwnInv, CleanupAfterSet
    <3> QED BY <1>3, <1>4, <3>2, <3>3
  <2>2. CASE vm[VmidOf[l]] # NoSession
    <3>1. ~CleanKill(t) /\ ~CleanFiles(t) /\ ~DeleteRead(t) /\ ~DeletePipe(t)
      BY <1>5 DEF CleanGet, CleanKill, CleanFiles, DeleteRead, DeletePipe
    <3>2. thr'[t].pc = "kill" /\ thr'[t].sess = vm[VmidOf[l]]
      BY <1>1, <1>2, <2>2, <3>1, CleanupFrame
    <3>3. vm[VmidOf[l]] # l
      BY <3>2 DEF PastUnlink
    <3>4. stage[l] = "ok"
      BY <2>2 DEF OverlayInv, OwnInv, HashAfterSet
    <3>5. image' = image
      BY <1>5 DEF CleanGet, files
    <3> QED BY <1>4, <3>3, <3>4, <3>5
  <2> QED BY <2>1, <2>2
<1>6. CASE CleanKill(t)
  <2>1. thr[t].pc = "kill"
    BY <1>6 DEF CleanKill
  <2>2. ~CleanGet(t) /\ ~CleanFiles(t) /\ ~DeleteRead(t) /\ ~DeletePipe(t)
    BY <2>1 DEF CleanGet, CleanFiles, DeleteRead, DeletePipe
  <2>3. thr'[t].pc = "files" /\ thr'[t].sess = thr[t].sess
    BY <1>1, <2>2, CleanupFrame
  <2>4. PastUnlink(t, l)
    BY <1>2, <2>1, <2>3 DEF PastUnlink
  <2>5. VmidOf[l] \notin image /\ Committed(t)
    BY <2>1, <2>4 DEF OverlayInv, UnlinkedFirst, Committed
  <2> QED BY <1>3, <2>5
<1>7. CASE CleanFiles(t)
  <2>1. thr[t].pc = "files" /\ Committed(t)
    BY <1>7 DEF CleanFiles, Committed
  <2>2. CASE thr[t].sess = l
    <3>1. CASE IsIso(l)
      <4>1. VmidOf[l] \notin image
        BY <3>1 DEF OverlayInv, OverlayHeld, HasOverlay, IsIso
      <4> QED BY <1>3, <2>1, <4>1
    <3>2. CASE ~IsIso(l)
      BY <1>2, <1>7, <2>2, <3>2 DEF CleanFiles
    <3> QED BY <3>1, <3>2
  <2>3. CASE thr[t].sess # l
    BY <1>2, <1>3, <2>1, <2>3 DEF PastUnlink, OverlayInv, UnlinkedFirst
  <2> QED BY <2>2, <2>3
<1>8. CASE DeleteRead(t) \/ DeletePipe(t)
  <2>1. thr[t].pc \in {"dget", "dpipe"} /\ Committed(t)
    BY <1>8 DEF DeleteRead, DeletePipe, Committed
  <2> QED BY <1>2, <1>3, <2>1 DEF PastUnlink, OverlayInv, UnlinkedFirst
<1> QED BY <1>5, <1>6, <1>7, <1>8 DEF CleanupStep

LEMMA UnlinkedStep ==
    ASSUME Fresh, OverlayInv, [Next]_vars
    PROVE  UnlinkedFirst'
<1> SUFFICES ASSUME NEW t \in Threads, NEW l \in Launches, PastUnlink(t, l)'
             PROVE  VmidOf[l] \notin image'
  BY DEF UnlinkedFirst
<1>1. TypeOK
  BY DEF OverlayInv, OwnInv, IndexInv
<1>2. CASE thr'[t] = thr[t]
  <2>1. PastUnlink(t, l) /\ Committed(t)
    BY <1>2 DEF PastUnlink, Committed
  <2>2. VmidOf[l] \notin image /\ stage[l] = "ok"
    BY <2>1 DEF OverlayInv, OwnInv, UnlinkedFirst, CleanupAfterSet, PastUnlink
  <2> QED BY <2>2, CreatedFresh
<1>3. CASE thr'[t] \in {At("idle"), At("watch")}
  BY <1>3 DEF At, PastUnlink
<1>4. CASE StartsCleanup(t)
  <2>1. \A v, r : Cleanup(v, r).pc = "get"
    BY DEF Cleanup
  <2> QED BY <1>4, <2>1 DEF StartsCleanup, PastUnlink
<1>5. CASE CleanupStep(t)
  BY <1>5, PastUnlinkStep
<1> QED BY <1>1, <1>2, <1>3, <1>4, <1>5, ThreadFrame

LEMMA NamedStep ==
    ASSUME OverlayInv, [Next]_vars
    PROVE  OverlayNamed'
<1> SUFFICES ASSUME NEW v \in image', v \notin image
             PROVE  \E l \in Launches : VmidOf[l] = v
  BY DEF OverlayInv, OverlayNamed
<1>1. PICK w \in Workers : CreateOverlay(w) /\ v = VmidOf[job[w]]
  BY ImageFrame
<1>2. job[w] \in Launches
  BY <1>1 DEF CreateOverlay, Advance, OverlayInv, OwnInv, IndexInv, TypeOK
<1> QED BY <1>1, <1>2

(* With fresh vmids every overlay on the disk belongs to a launch that is   *)
(* in progress, that failed (a failed launch leaves what it made behind),   *)
(* or whose session is in Redis: no crash, overlapping cleanup or ghost     *)
(* hash makes a cleanup forget one.                                         *)
THEOREM OverlaysAreHeld ==
    ASSUME Fresh
    PROVE  Spec => []NoStrayOverlay
<1>1. Init => OverlayInv
  <2> SUFFICES ASSUME Init PROVE OverlayInv
    OBVIOUS
  <2>1. ImageBeforeBoot /\ OverlayNamed /\ OverlayHeld /\ UnlinkedFirst
    BY DEF Init, ImageBeforeBoot, OverlayNamed, OverlayHeld, UnlinkedFirst
  <2> QED BY <2>1, OwnInvInit DEF OverlayInv
<1>2. OverlayInv /\ [Next]_vars => OverlayInv'
  <2> SUFFICES ASSUME OverlayInv, [Next]_vars PROVE OverlayInv'
    OBVIOUS
  <2>1. ImageBeforeBoot'
    BY ImageStageStep DEF OverlayInv, OwnInv, IndexInv
  <2>2. OwnInv'
    BY OwnInvStep DEF OverlayInv
  <2> QED BY <2>1, <2>2, NamedStep, HeldStep, UnlinkedStep DEF OverlayInv
<1>3. OverlayInv => NoStrayOverlay
  BY DEF OverlayInv, OverlayNamed, OverlayHeld, NoStrayOverlay
<1> QED BY <1>1, <1>2, <1>3, PTL DEF Spec

(***************************************************************************)
(* One VM per user, as a refinement of OneVmLease.  It needs one server      *)
(* process, fresh vmids, and launches that do not fail once QEMU runs; the   *)
(* README says what happens without each of these.                           *)
(***************************************************************************)

SingleWorker == \A v, w \in Workers : v = w

CleanLaunches ==
    Events \cap {"pidfile", "start", "listen", "store", "exit", "crash"} = {}

-----------------------------------------------------------------------------
(* The invariant. *)

BusyHasJob == \A l \in Launches : stage[l] \in Busy => \E w \in Workers : job[w] = l

FailedBeforeBoot == \A l \in Launches : stage[l] = "failed" => qemu[l] # "up"

ListeningBridge == \A l \in Launches : stage[l] = "listen" => bridge[l] = "up"

(* A delete that is about to run clears the indices of the hash it drops.   *)
DeletesWhatItRead ==
    \A t \in Threads :
        thr[t].pc = "dpipe" /\ vm[thr[t].vm] \in Launches => thr[t].sess = vm[thr[t].vm]

(* While a launch is in progress its user has nothing in the sorted set.    *)
NothingElseRunning ==
    \A w \in Workers : job[w] # NoLaunch =>
        \A v \in Vmids : userVms[Owner[job[w]]][v] = 0

LeaseInv ==
    /\ OwnInv
    /\ BusyHasJob /\ FailedBeforeBoot /\ ListeningBridge
    /\ DeletesWhatItRead /\ UserIndexExact /\ NothingElseRunning
    /\ OneVmPerUser

-----------------------------------------------------------------------------
(* Launches that fail do so before QEMU runs. *)

LEMMA BusyStep ==
    ASSUME CleanLaunches, OwnInv, BusyHasJob, [Next]_vars
    PROVE  BusyHasJob'
<1> SUFFICES ASSUME NEW l \in Launches, stage'[l] \in Busy
             PROVE  \E x \in Workers : job'[x] = l
  BY DEF BusyHasJob
<1> USE DEF OwnInv, IndexInv, TypeOK, BusyHasJob
<1>1. CASE UNCHANGED <<stage, job>>
  BY <1>1
<1>2. ASSUME NEW w \in Workers, NEW k \in Launches, Request(w, k)
      PROVE  \E x \in Workers : job'[x] = l
  BY <1>2, NoLaunchIsNone DEF Request
<1>3. ASSUME NEW w \in Workers, LaunchStep(w)
      PROVE  \E x \in Workers : job'[x] = l
  <2>1. CASE l = job[w]
    BY <1>3, <2>1, LaunchFrame
  <2>2. CASE l # job[w]
    <3>1. stage[l] \in Busy /\ (job' = job \/ job' = [job EXCEPT ![w] = NoLaunch])
      BY <1>3, <2>2, LaunchFrame
    <3>2. PICK x \in Workers : job[x] = l
      BY <3>1
    <3>3. job'[x] = l
      BY <2>2, <3>1, <3>2
    <3> QED BY <3>3
  <2> QED BY <2>1, <2>2
<1>4. ASSUME NEW w \in Workers, Crash(w) PROVE FALSE
  BY <1>4 DEF Crash, CleanLaunches
<1> QED BY <1>1, <1>2, <1>3, <1>4, StageFrame

LEMMA FailureFrame ==
    ASSUME CleanLaunches, TypeOK, ListeningBridge, NEW w \in Workers, LaunchStep(w),
           stage'[job[w]] = "failed"
    PROVE  stage[job[w]] \in {"image", "boot"} /\ UNCHANGED qemu
<1> USE DEF TypeOK, Advance, CleanLaunches
<1>1. ASSUME CreateOverlay(w) \/ StartBridge(w) \/ SetSession(w) PROVE FALSE
  BY <1>1 DEF CreateOverlay, StartBridge, SetSession
<1>2. ASSUME Boot(w) \/ StartBridgeFails(w) \/ SetSessionFails(w) PROVE FALSE
  BY <1>2 DEF Boot, StartBridgeFails, SetSessionFails
<1>3. ASSUME WaitListen(w) PROVE FALSE
  BY <1>3 DEF WaitListen, ListeningBridge
<1>4. CASE CreateOverlayFails(w) \/ BootFails(w)
  BY <1>4 DEF CreateOverlayFails, BootFails
<1> QED BY <1>1, <1>2, <1>3, <1>4 DEF LaunchStep

LEMMA FailedStep ==
    ASSUME CleanLaunches, OwnInv, FailedBeforeBoot, ListeningBridge, [Next]_vars
    PROVE  FailedBeforeBoot'
<1> SUFFICES ASSUME NEW l \in Launches, stage'[l] = "failed"
             PROVE  qemu'[l] # "up"
  BY DEF FailedBeforeBoot
<1> USE DEF OwnInv, IndexInv
<1>1. CASE stage[l] = "failed"
  BY <1>1, NotStartedAgain DEF FailedBeforeBoot
<1>2. CASE stage[l] # "failed"
  <2>1. PICK w \in Workers : LaunchStep(w) \/ Crash(w) \/ \E k \in Launches : Request(w, k)
    BY <1>2, StageFrame
  <2>2. ~Crash(w)
    BY DEF Crash, CleanLaunches
  <2>3. ~\E k \in Launches : Request(w, k)
    BY <1>2 DEF Request, TypeOK
  <2>4. LaunchStep(w) /\ job[w] = l
    BY <1>2, <2>1, <2>2, <2>3, LaunchFrame
  <2>5. stage[l] \in {"image", "boot"} /\ UNCHANGED qemu
    BY <2>4, FailureFrame
  <2> QED BY <2>5 DEF NotBootedYet
<1> QED BY <1>1, <1>2

(* The websockify that a launch waits for is not stopped by anyone.         *)
LEMMA BridgeFrame ==
    ASSUME CleanLaunches, OwnInv, [Next]_vars, NEW l \in Launches,
           bridge[l] = "up", stage[l] # "ok"
    PROVE  bridge'[l] = "up"
<1> USE DEF OwnInv, IndexInv, TypeOK
<1>1. ASSUME NEW w \in Workers, LaunchStep(w) PROVE bridge'[l] = "up"
  BY <1>1 DEF LaunchStep, CreateOverlay, CreateOverlayFails, Boot, BootFails, StartBridge,
     StartBridgeFails, WaitListen, SetSession, SetSessionFails
<1>2. ASSUME NEW t \in Threads, CleanKill(t) PROVE bridge'[l] = "up"
  <2>1. VmidOf[l] # thr[t].vm
    BY <1>2 DEF CleanKill, CleanupAfterSet, Committed
  <2> QED BY <1>2, <2>1 DEF CleanKill
<1>3. ASSUME NEW t \in Threads, CleanupStep(t), ~CleanKill(t) PROVE UNCHANGED bridge
  BY <1>3 DEF CleanupStep, CleanGet, CleanFiles, DeleteRead, DeletePipe
<1>4. ASSUME NEW k \in Launches, BridgeExits(k) \/ BridgeReaped(k) PROVE bridge'[l] = "up"
  BY <1>4 DEF BridgeExits, BridgeReaped, CleanLaunches
<1>5. ASSUME NEW k \in Launches,
             \/ MonitorLine(k) \/ MonitorEof(k) \/ TargetCloses(k) \/ QemuExits(k)
             \/ Connect(k) \/ Disconnect(k)
      PROVE  UNCHANGED bridge
  BY <1>5 DEF MonitorLine, MonitorEof, TargetCloses, QemuExits, Connect, Disconnect
<1>6. ASSUME NEW w \in Workers,
             \/ \E k \in Launches : Request(w, k)
             \/ \E u \in Users : Logout(u, w)
             \/ Shutdown(w) \/ ShutdownNext(w) \/ ShutdownDone(w) \/ Crash(w) \/ Restart(w)
      PROVE  UNCHANGED bridge
  BY <1>6 DEF Request, Logout, Shutdown, ShutdownNext, ShutdownDone, Crash, Restart, Stop
<1>7. ASSUME NEW u \in Users, UploadIso(u) PROVE UNCHANGED bridge
  BY <1>7 DEF UploadIso
<1>8. CASE UNCHANGED vars
  BY <1>8 DEF vars
<1> QED BY <1>1, <1>2, <1>3, <1>4, <1>5, <1>6, <1>7, <1>8 DEF Next, Environment

LEMMA ListenStep ==
    ASSUME CleanLaunches, OwnInv, ListeningBridge, [Next]_vars
    PROVE  ListeningBridge'
<1> SUFFICES ASSUME NEW l \in Launches, stage'[l] = "listen"
             PROVE  bridge'[l] = "up"
  BY DEF ListeningBridge
<1> USE DEF OwnInv, IndexInv, TypeOK
<1>1. CASE stage[l] = "listen"
  BY <1>1, BridgeFrame DEF ListeningBridge
<1>2. CASE stage[l] # "listen"
  <2>1. PICK w \in Workers : LaunchStep(w) \/ Crash(w) \/ \E k \in Launches : Request(w, k)
    BY <1>2, StageFrame
  <2>2. ~Crash(w)
    BY DEF Crash, CleanLaunches
  <2>3. ~\E k \in Launches : Request(w, k)
    BY <1>2 DEF Request
  <2>4. LaunchStep(w) /\ job[w] = l
    BY <1>2, <2>1, <2>2, <2>3, LaunchFrame
  <2>5. StartBridge(w)
    BY <2>4 DEF LaunchStep, CreateOverlay, CreateOverlayFails, Boot, BootFails,
       StartBridgeFails, WaitListen, SetSession, SetSessionFails, Advance
  <2> QED BY <2>4, <2>5 DEF StartBridge
<1> QED BY <1>1, <1>2

-----------------------------------------------------------------------------
(* The sorted sets. *)

(* What each of the three writes does, in terms of the launch or vmid.      *)
LEMMA StoreWrites ==
    ASSUME Fresh, OwnInv, [Next]_vars
    PROVE  \/ UNCHANGED store
           \/ \E w \in Workers :
                /\ SetSession(w)
                /\ job[w] \in Launches /\ stage[job[w]] = "set"
                /\ VmidOf[job[w]] \in Vmids /\ Owner[job[w]] \in Users
                /\ vm[VmidOf[job[w]]] = NoSession
                /\ vm' = [vm EXCEPT ![VmidOf[job[w]]] = job[w]]
                /\ userVms' = [userVms EXCEPT ![Owner[job[w]]] =
                                 [userVms[Owner[job[w]]] EXCEPT ![VmidOf[job[w]]] = clock + 1]]
                /\ job' = [job EXCEPT ![w] = NoLaunch]
           \/ \E k \in Launches :
                /\ MonitorLine(k) /\ UNCHANGED userVms
                /\ \A v \in Vmids :
                     (vm[v] \in Launches \/ vm'[v] \in Launches) => vm'[v] = vm[v]
           \/ \E t \in Threads :
                /\ DeletePipe(t) /\ thr[t].vm \in Vmids
                /\ vm' = [vm EXCEPT ![thr[t].vm] = NoSession]
                /\ thr[t].sess \notin Launches => UNCHANGED userVms
                /\ thr[t].sess \in Launches =>
                     userVms' = [userVms EXCEPT ![Owner[thr[t].sess]] =
                                  [userVms[Owner[thr[t].sess]] EXCEPT ![thr[t].vm] = 0]]
<1> USE DEF OwnInv, IndexInv, TypeOK, StoreTypeOK
<1>1. ASSUME NEW w \in Workers, SetSession(w)
      PROVE  /\ job[w] \in Launches /\ stage[job[w]] = "set"
             /\ VmidOf[job[w]] \in Vmids /\ Owner[job[w]] \in Users
             /\ vm[VmidOf[job[w]]] = NoSession
             /\ vm' = [vm EXCEPT ![VmidOf[job[w]]] = job[w]]
             /\ userVms' = [userVms EXCEPT ![Owner[job[w]]] =
                              [userVms[Owner[job[w]]] EXCEPT ![VmidOf[job[w]]] = clock + 1]]
             /\ job' = [job EXCEPT ![w] = NoLaunch]
  <2>1. job[w] \in Launches /\ stage[job[w]] = "set"
    BY <1>1 DEF SetSession, Advance
  <2>2. VmidOf[job[w]] \in Vmids /\ Owner[job[w]] \in Users
    BY <2>1, LifecycleAssumption, StoreAssumption
  <2>3. vm[VmidOf[job[w]]] = NoSession
    BY <2>1 DEF HashAfterSet
  <2>4. job' = [job EXCEPT ![w] = NoLaunch]
    BY <1>1 DEF SetSession, Advance, Busy
  <2> QED BY <1>1, <2>1, <2>2, <2>3, <2>4 DEF SetSession, StoreSet
<1>2. ASSUME NEW k \in Launches, MonitorLine(k)
      PROVE  /\ UNCHANGED userVms
             /\ \A v \in Vmids :
                  (vm[v] \in Launches \/ vm'[v] \in Launches) => vm'[v] = vm[v]
  BY <1>2, StoreAssumption DEF MonitorLine, StoreUpdate
<1>3. ASSUME NEW t \in Threads, DeletePipe(t)
      PROVE  /\ thr[t].vm \in Vmids
             /\ vm' = [vm EXCEPT ![thr[t].vm] = NoSession]
             /\ thr[t].sess \notin Launches => UNCHANGED userVms
             /\ thr[t].sess \in Launches =>
                  userVms' = [userVms EXCEPT ![Owner[thr[t].sess]] =
                               [userVms[Owner[thr[t].sess]] EXCEPT ![thr[t].vm] = 0]]
  <2>1. thr[t].vm \in Vmids
    BY <1>3, CleanupFrame DEF CleanupStep
  <2> QED BY <1>3, <2>1 DEF DeletePipe, StoreDelete
<1> QED BY <1>1, <1>2, <1>3, StoreFrame

(* A vmid is set once, before any delete of it begins, so a delete never    *)
(* drops a hash that it did not read.                                       *)
LEMMA DeletesStep ==
    ASSUME Fresh, OwnInv, DeletesWhatItRead, [Next]_vars
    PROVE  DeletesWhatItRead'
<1> SUFFICES ASSUME NEW t \in Threads, thr'[t].pc = "dpipe", vm'[thr'[t].vm] \in Launches
             PROVE  thr'[t].sess = vm'[thr'[t].vm]
  BY DEF DeletesWhatItRead
<1> USE DEF OwnInv, IndexInv
<1>1. CASE thr'[t] = thr[t]
  <2> DEFINE v == thr[t].vm
  <2>1. Committed(t) /\ v \in Vmids
    <3>1. thr[t].pc = "dpipe" /\ thr[t] \in Thread
      BY <1>1 DEF TypeOK
    <3> QED BY <3>1, ThreadRecords DEF Committed, CleaningPc
  <2>2. vm'[v] = vm[v]
    <3>1. CASE UNCHANGED store
      BY <3>1 DEF store
    <3>2. ASSUME NEW w \in Workers, job[w] \in Launches, stage[job[w]] = "set"
          PROVE  v # VmidOf[job[w]]
      BY <2>1, <3>2 DEF CleanupAfterSet
    <3>3. NoSession \notin Launches
      BY StoreAssumption
    <3>4. CASE \E w \in Workers :
                 /\ job[w] \in Launches /\ stage[job[w]] = "set"
                 /\ vm' = [vm EXCEPT ![VmidOf[job[w]]] = job[w]]
      <4>1. PICK w \in Workers :
                 /\ job[w] \in Launches /\ stage[job[w]] = "set"
                 /\ vm' = [vm EXCEPT ![VmidOf[job[w]]] = job[w]]
        BY <3>4
      <4>2. v # VmidOf[job[w]]
        BY <3>2, <4>1
      <4> QED BY <2>1, <4>1, <4>2 DEF TypeOK, StoreTypeOK
    <3>5. CASE \E x \in Vmids : vm' = [vm EXCEPT ![x] = NoSession]
      BY <1>1, <2>1, <3>3, <3>5 DEF TypeOK, StoreTypeOK
    <3>6. CASE \A x \in Vmids :
                 (vm[x] \in Launches \/ vm'[x] \in Launches) => vm'[x] = vm[x]
      BY <1>1, <2>1, <3>6
    <3> QED BY <3>1, <3>4, <3>5, <3>6, StoreWrites
  <2> QED BY <1>1, <2>2 DEF DeletesWhatItRead
<1>2. CASE thr'[t] \in {At("idle"), At("watch")}
  BY <1>2 DEF At
<1>3. CASE StartsCleanup(t)
  <2>1. \A v, r : Cleanup(v, r).pc = "get"
    BY DEF Cleanup
  <2> QED BY <1>3, <2>1 DEF StartsCleanup
<1>4. CASE CleanupStep(t)
  <2>1. DeleteRead(t) /\ thr'[t].vm = thr[t].vm /\ thr'[t].sess = vm[thr[t].vm]
    BY <1>4, CleanupFrame DEF Resumed, At
  <2> QED BY <2>1 DEF DeleteRead, store
<1> QED BY <1>1, <1>2, <1>3, <1>4, ThreadFrame

LEMMA IndexExactStep ==
    ASSUME Fresh, OwnInv, DeletesWhatItRead, UserIndexExact, NothingElseRunning, [Next]_vars
    PROVE  UserIndexExact'
<1> USE DEF OwnInv, IndexInv, TypeOK, StoreTypeOK
<1> SUFFICES ASSUME NEW u \in Users, NEW v \in Vmids, userVms'[u][v] > 0
             PROVE  /\ vm'[v] \in Launches /\ Owner[vm'[v]] = u
                    /\ \A x \in Vmids : userVms'[u][x] > 0 => x = v
  BY DEF UserIndexExact
<1> DEFINE Goal == /\ vm'[v] \in Launches /\ Owner[vm'[v]] = u
                   /\ \A x \in Vmids : userVms'[u][x] > 0 => x = v
<1>1. CASE UNCHANGED store
  BY <1>1 DEF store, UserIndexExact
<1>2. ASSUME NEW w \in Workers,
             job[w] \in Launches, VmidOf[job[w]] \in Vmids, Owner[job[w]] \in Users,
             vm[VmidOf[job[w]]] = NoSession,
             vm' = [vm EXCEPT ![VmidOf[job[w]]] = job[w]],
             userVms' = [userVms EXCEPT ![Owner[job[w]]] =
                          [userVms[Owner[job[w]]] EXCEPT ![VmidOf[job[w]]] = clock + 1]]
      PROVE  Goal
  <2>1. \A x \in Vmids : userVms[Owner[job[w]]][x] = 0
    BY <1>2, NoLaunchIsNone DEF NothingElseRunning
  <2>2. CASE u = Owner[job[w]]
    <3>1. \A x \in Vmids : userVms'[u][x] = IF x = VmidOf[job[w]] THEN clock + 1 ELSE 0
      BY <1>2, <2>1, <2>2
    <3> QED BY <1>2, <2>2, <3>1
  <2>3. CASE u # Owner[job[w]]
    <3>1. userVms'[u] = userVms[u]
      BY <1>2, <2>3
    <3>2. v # VmidOf[job[w]]
      BY <1>2, <3>1, StoreAssumption DEF UserIndexExact
    <3> QED BY <1>2, <3>1, <3>2 DEF UserIndexExact
  <2> QED BY <2>2, <2>3
<1>3. ASSUME UNCHANGED userVms, vm[v] \in Launches => vm'[v] = vm[v]
      PROVE  Goal
  BY <1>3 DEF UserIndexExact
<1>4. ASSUME NEW t \in Threads, DeletePipe(t), thr[t].vm \in Vmids,
             vm' = [vm EXCEPT ![thr[t].vm] = NoSession],
             thr[t].sess \notin Launches => UNCHANGED userVms,
             thr[t].sess \in Launches =>
                  userVms' = [userVms EXCEPT ![Owner[thr[t].sess]] =
                               [userVms[Owner[thr[t].sess]] EXCEPT ![thr[t].vm] = 0]]
      PROVE  Goal
  <2> DEFINE d == thr[t].sess
  <2>1. d \in Launches => Owner[d] \in Users
    BY StoreAssumption
  <2>2. ASSUME NEW x \in Vmids
        PROVE  userVms'[u][x] = userVms[u][x] \/ userVms'[u][x] = 0
    <3>1. CASE d \in Launches
      <4>1. /\ userVms' = [userVms EXCEPT ![Owner[d]] =
                             [userVms[Owner[d]] EXCEPT ![thr[t].vm] = 0]]
            /\ Owner[d] \in Users
        BY <1>4, <2>1, <3>1
      <4>2. CASE u = Owner[d]
        <5>1. userVms'[u] = [userVms[u] EXCEPT ![thr[t].vm] = 0]
          BY <4>1, <4>2
        <5> QED BY <5>1
      <4>3. CASE u # Owner[d]
        BY <4>1, <4>3
      <4> QED BY <4>2, <4>3
    <3>2. CASE d \notin Launches
      BY <1>4, <3>2
    <3> QED BY <3>1, <3>2
  <2> HIDE DEF OwnInv, IndexInv, TypeOK, StoreTypeOK
  <2>3. userVms[u][v] > 0
    <3>1. userVms'[u][v] = userVms[u][v] \/ userVms'[u][v] = 0
      BY <2>2
    <3>2. ~(0 > 0)
      OBVIOUS
    <3> QED BY <3>1, <3>2
  <2>4. vm[v] \in Launches /\ Owner[vm[v]] = u /\ \A x \in Vmids : userVms[u][x] > 0 => x = v
    BY <2>3 DEF UserIndexExact
  <2>5. v # thr[t].vm
    <3> SUFFICES ASSUME v = thr[t].vm PROVE FALSE
      OBVIOUS
    <3>1. thr[t].pc = "dpipe"
      BY <1>4 DEF DeletePipe
    <3>2. d \in Launches /\ Owner[d] = u
      BY <2>4, <3>1 DEF DeletesWhatItRead
    <3>3. userVms' = [userVms EXCEPT ![u] = [userVms[u] EXCEPT ![v] = 0]]
      BY <1>4, <3>2
    <3>4. userVms'[u][v] = 0
      BY <3>3 DEF OwnInv, IndexInv, TypeOK, StoreTypeOK
    <3> QED BY <3>4
  <2>6. vm'[v] = vm[v]
    BY <1>4, <2>5 DEF OwnInv, IndexInv, TypeOK, StoreTypeOK
  <2>7. ASSUME NEW x \in Vmids, userVms'[u][x] > 0 PROVE x = v
    <3>1. userVms'[u][x] = userVms[u][x] \/ userVms'[u][x] = 0
      BY <2>2
    <3>2. ~(0 > 0)
      OBVIOUS
    <3> QED BY <2>4, <2>7, <3>1, <3>2
  <2> QED BY <2>4, <2>6, <2>7
<1> QED BY <1>1, <1>2, <1>3, <1>4, StoreWrites

(* Only store.set adds to a sorted set, and it ends its launch.             *)
LEMMA IndexGrows ==
    ASSUME Fresh, OwnInv, [Next]_vars, NEW u \in Users, NEW v \in Vmids
    PROVE  \/ userVms'[u][v] = userVms[u][v]
           \/ userVms'[u][v] = 0
           \/ \E w \in Workers :
                job[w] \in Launches /\ job' = [job EXCEPT ![w] = NoLaunch]
<1>1. userVms \in [Users -> [Vmids -> Nat]]
  BY DEF OwnInv, IndexInv, TypeOK, StoreTypeOK
<1>2. ASSUME NEW t \in Threads, thr[t].sess \in Launches,
             userVms' = [userVms EXCEPT ![Owner[thr[t].sess]] =
                          [userVms[Owner[thr[t].sess]] EXCEPT ![thr[t].vm] = 0]]
      PROVE  userVms'[u][v] = userVms[u][v] \/ userVms'[u][v] = 0
  <2> DEFINE o == Owner[thr[t].sess]
  <2>1. o \in Users
    BY <1>2, StoreAssumption
  <2>2. CASE u = o
    <3>1. userVms'[u] = [userVms[u] EXCEPT ![thr[t].vm] = 0]
      BY <1>1, <1>2, <2>2
    <3> QED BY <1>1, <3>1
  <2>3. CASE u # o
    BY <1>1, <1>2, <2>1, <2>3
  <2> QED BY <2>2, <2>3
<1> QED BY <1>2, StoreWrites DEF store

(* With exact indices, a user for whom the handler finds nothing has none.  *)
LEMMA NothingFound ==
    ASSUME TypeOK, UserIndexExact, NEW u \in Users, Running(u) = {}, NEW v \in Vmids
    PROVE  userVms[u][v] = 0
<1>1. userVms[u][v] \in Nat
  BY DEF TypeOK, StoreTypeOK
<1> SUFFICES ASSUME userVms[u][v] > 0 PROVE FALSE
  BY <1>1
<1>2. vm[v] # NoSession /\ \A x \in Vmids : userVms[u][x] > 0 => x = v
  <2>1. vm[v] \in Launches /\ \A x \in Vmids : userVms[u][x] > 0 => x = v
    BY DEF UserIndexExact
  <2> QED BY <2>1, StoreAssumption
<1>3. {x \in Vmids : userVms[u][x] > userVms[u][v]} = {}
  <2>1. ASSUME NEW x \in Vmids PROVE ~(userVms[u][x] > userVms[u][v])
    <3>1. userVms[u][x] \in Nat
      BY DEF TypeOK, StoreTypeOK
    <3> QED BY <1>1, <1>2, <3>1
  <2> QED BY <2>1
<1>4. Cardinality({x \in Vmids : userVms[u][x] > userVms[u][v]}) < Window
  <2> DEFINE newer == {x \in Vmids : userVms[u][x] > userVms[u][v]}
  <2> HIDE DEF newer
  <2>1. newer = {} /\ Cardinality({}) = 0
    BY <1>3, FS_EmptySet DEF newer
  <2>2. 0 < Window
    BY StoreAssumption
  <2>3. Cardinality(newer) < Window
    BY <2>1, <2>2
  <2> QED BY <2>3 DEF newer
<1>5. v \in Running(u)
  BY <1>2, <1>4 DEF Running, Newest
<1> QED BY <1>5

LEMMA NothingElseStep ==
    ASSUME Fresh, SingleWorker, OwnInv, UserIndexExact, NothingElseRunning, [Next]_vars
    PROVE  NothingElseRunning'
<1> SUFFICES ASSUME NEW w \in Workers, job'[w] # NoLaunch, NEW v \in Vmids
             PROVE  userVms'[Owner[job'[w]]][v] = 0
  BY DEF NothingElseRunning
<1> USE DEF OwnInv, IndexInv, TypeOK
<1>1. ASSUME NEW l \in Launches, userVms[Owner[l]][v] = 0
      PROVE  userVms'[Owner[l]][v] = 0
  <2>1. Owner[l] \in Users
    BY StoreAssumption
  <2>2. ~\E x \in Workers : job[x] \in Launches /\ job' = [job EXCEPT ![x] = NoLaunch]
    BY DEF SingleWorker
  <2> QED BY <1>1, <2>1, <2>2, IndexGrows
<1>2. CASE job'[w] = job[w]
  BY <1>1, <1>2 DEF NothingElseRunning
<1>3. CASE job'[w] # job[w]
  <2>1. ASSUME NEW x \in Workers, LaunchStep(x) PROVE FALSE
    BY <1>3, <2>1, LaunchFrame DEF SingleWorker
  <2>2. ASSUME NEW x \in Workers, Crash(x) PROVE FALSE
    BY <2>2 DEF Crash, SingleWorker
  <2>3. ASSUME NEW x \in Workers, NEW l \in Launches, Request(x, l)
        PROVE  userVms'[Owner[job'[w]]][v] = 0
    <3>1. job'[w] = l /\ Running(Owner[l]) = {}
      BY <2>3 DEF Request, SingleWorker
    <3>2. userVms[Owner[l]][v] = 0
      BY <3>1, NothingFound, StoreAssumption
    <3> QED BY <1>1, <3>1, <3>2
  <2> QED BY <1>3, <2>1, <2>2, <2>3, StageFrame
<1> QED BY <1>2, <1>3

-----------------------------------------------------------------------------
(* One VM per user. *)

LEMMA BootEffect ==
    ASSUME OwnInv, NEW w \in Workers, Boot(w)
    PROVE  /\ job[w] \in Launches /\ stage[job[w]] = "boot"
           /\ qemu[job[w]] = "off"
           /\ qemu' = [qemu EXCEPT ![job[w]] = "up"]
<1>1. job[w] \in Launches /\ stage[job[w]] = "boot"
  BY LaunchFrame DEF LaunchStep, OwnInv, IndexInv
<1> QED BY <1>1 DEF Boot, OwnInv, NotBootedYet

(* A handler that starts a VM is the only one that has it.                  *)
LEMMA StartsAlone ==
    ASSUME SingleWorker, LeaseInv, NEW w \in Workers, Boot(w),
           NEW k \in Launches, k # job[w], Owner[k] = Owner[job[w]]
    PROVE  qemu[k] # "up"
<1> SUFFICES ASSUME qemu[k] = "up" PROVE FALSE
  OBVIOUS
<1> USE DEF LeaseInv
<1>1. job[w] \in Launches
  BY BootEffect
<1>2. stage[k] \notin Busy
  BY DEF BusyHasJob, SingleWorker
<1>3. stage[k] # "failed"
  BY DEF FailedBeforeBoot
<1>4. VmidOf[k] \in Vmids /\ vm[VmidOf[k]] = k
  BY <1>2, <1>3, LifecycleAssumption DEF OwnInv, SessionTracksVm
<1>5. userVms[Owner[k]][VmidOf[k]] > 0
  BY <1>4 DEF OwnInv, IndexInv, SessionIndexed
<1>6. userVms[Owner[k]][VmidOf[k]] = 0
  BY <1>1, <1>4, NoLaunchIsNone DEF NothingElseRunning
<1> QED BY <1>5, <1>6

LEMMA OneVmStep ==
    ASSUME SingleWorker, LeaseInv, [Next]_vars
    PROVE  OneVmPerUser'
<1> SUFFICES ASSUME NEW k \in Launches, NEW l \in Launches, Owner[k] = Owner[l],
                    qemu'[k] = "up", qemu'[l] = "up"
             PROVE  k = l
  BY DEF OneVmPerUser
<1>1. ASSUME NEW x \in Launches, qemu'[x] = "up"
      PROVE  qemu[x] = "up" \/ \E w \in Workers : Boot(w) /\ job[w] = x
  BY <1>1, QemuFrame DEF LeaseInv, OwnInv, IndexInv
<1>2. CASE qemu[k] = "up" /\ qemu[l] = "up"
  BY <1>2 DEF LeaseInv, OneVmPerUser
<1>3. CASE \E w \in Workers : Boot(w) /\ job[w] = k
  BY <1>1, <1>3, StartsAlone DEF SingleWorker
<1>4. CASE \E w \in Workers : Boot(w) /\ job[w] = l
  BY <1>1, <1>4, StartsAlone DEF SingleWorker
<1> QED BY <1>1, <1>2, <1>3, <1>4

LEMMA LeaseInvInit ==
    ASSUME Fresh, Init
    PROVE  LeaseInv
<1>1. OwnInv
  BY OwnInvInit
<1>2. BusyHasJob /\ FailedBeforeBoot /\ ListeningBridge /\ OneVmPerUser
  BY DEF Init, BusyHasJob, FailedBeforeBoot, ListeningBridge, OneVmPerUser, Busy
<1>3. DeletesWhatItRead
  BY DEF Init, DeletesWhatItRead, At
<1>4. UserIndexExact /\ NothingElseRunning
  BY DEF Init, StoreInit, UserIndexExact, NothingElseRunning
<1> QED BY <1>1, <1>2, <1>3, <1>4 DEF LeaseInv

LEMMA LeaseInvStep ==
    ASSUME Fresh, SingleWorker, CleanLaunches, LeaseInv, [Next]_vars
    PROVE  LeaseInv'
<1>1. OwnInv'
  BY OwnInvStep DEF LeaseInv
<1>2. BusyHasJob' /\ FailedBeforeBoot' /\ ListeningBridge'
  BY BusyStep, FailedStep, ListenStep DEF LeaseInv
<1>3. DeletesWhatItRead' /\ UserIndexExact'
  BY DeletesStep, IndexExactStep DEF LeaseInv
<1>4. NothingElseRunning' /\ OneVmPerUser'
  BY NothingElseStep, OneVmStep DEF LeaseInv
<1> QED BY <1>1, <1>2, <1>3, <1>4 DEF LeaseInv

(* No user ever has two VMs at work, and the sorted set of a user names the *)
(* user's session and nothing else, so that get_running_by_user finds it.   *)
THEOREM OneVmAndExactIndex ==
    ASSUME Fresh, SingleWorker, CleanLaunches
    PROVE  Spec => [](OneVmPerUser /\ UserIndexExact)
<1>1. Init => LeaseInv
  BY LeaseInvInit
<1>2. LeaseInv /\ [Next]_vars => LeaseInv'
  BY LeaseInvStep
<1>3. LeaseInv => OneVmPerUser /\ UserIndexExact
  BY DEF LeaseInv
<1> QED BY <1>1, <1>2, <1>3, PTL DEF Spec

-----------------------------------------------------------------------------
(* The refinement. *)

LEMMA LeaseStep ==
    ASSUME SingleWorker, LeaseInv, [Next]_vars
    PROVE  [Lease!Next]_(Lease!lease)
<1> DEFINE running == {l \in Launches : qemu[l] = "up"}
           ended == {l \in Launches : qemu[l] \in {"term", "gone"}}
<1> USE DEF LeaseInv
<1>0. qemu \in [Launches -> {"off", "up", "term", "gone"}]
  BY DEF OwnInv, IndexInv, TypeOK
<1>1. CASE \E w \in Workers : Boot(w)
  <2>1. PICK w \in Workers : Boot(w)
    BY <1>1
  <2>2. /\ job[w] \in Launches /\ qemu[job[w]] = "off"
        /\ qemu' = [qemu EXCEPT ![job[w]] = "up"]
    BY <2>1, BootEffect
  <2>3. job[w] \notin running \cup ended
    BY <2>2
  <2>4. \A k \in running : Owner[k] # Owner[job[w]]
    BY <2>1, <2>2, StartsAlone
  <2>5. running' = running \cup {job[w]} /\ ended' = ended
    BY <1>0, <2>2
  <2> QED BY <2>2, <2>3, <2>4, <2>5 DEF Lease!Start, Lease!Next
<1>2. CASE ~\E w \in Workers : Boot(w)
  <2> DEFINE stopped == {l \in running : qemu'[l] # "up"}
  <2>1. ASSUME NEW l \in Launches
        PROVE  \/ qemu'[l] = qemu[l]
               \/ qemu[l] \in {"up", "term"} /\ qemu'[l] \in {"term", "gone"}
    BY <1>2, QemuFrame DEF OwnInv, IndexInv
  <2>2. running' = running \ stopped
    BY <2>1
  <2>3. ended' = ended \cup stopped
    BY <2>1
  <2> QED BY <2>2, <2>3 DEF Lease!End, Lease!Next
<1> QED BY <1>1, <1>2

(* The launch handlers and the cleanups implement OneVmLease: a VM starts   *)
(* only when its owner has none at work, once, and ends for good.           *)
THEOREM ImplementsLease ==
    ASSUME Fresh, SingleWorker, CleanLaunches
    PROVE  Spec => LeaseSpec
<1>1. Init => LeaseInv /\ Lease!Init
  <2>1. Init => Lease!Init
    BY DEF Init, Lease!Init
  <2> QED BY <2>1, LeaseInvInit
<1>2. LeaseInv /\ [Next]_vars => LeaseInv' /\ [Lease!Next]_(Lease!lease)
  BY LeaseInvStep, LeaseStep
<1> QED BY <1>1, <1>2, PTL DEF Spec, LeaseSpec, Lease!Spec

(***************************************************************************)
(* What a shutdown leaves behind, under the assumptions of the lease.        *)
(***************************************************************************)

(* Worker w still has to clean VM v: it is on its list, or being cleaned.   *)
Awaits(w, v) == v \in todo[w] \/ (thr[w].pc \in CleaningPc /\ thr[w].vm = v)

(* A worker that drains runs no launch and knows of every session.          *)
DrainsAll ==
    \A w \in Workers : mode[w] = "draining" =>
        /\ job[w] = NoLaunch
        /\ \A v \in Vmids : vm[v] \in Launches => Awaits(w, v)

ShutdownInv == LeaseInv /\ DrainsAll

(* What happens to the list and the thread of a worker that drains.         *)
DrainStep(w) ==
    \/ Shutdown(w)
    \/ mode[w] = "draining" /\ ShutdownNext(w)
    \/ mode[w] = "draining" /\ CleanupStep(w) /\ UNCHANGED todo
    \/ mode[w] = "draining" /\ thr'[w] = thr[w] /\ todo'[w] = todo[w]

LEMMA DrainFrame ==
    ASSUME TypeOK, SingleWorker, [Next]_vars, NEW w \in Workers, mode'[w] = "draining"
    PROVE  DrainStep(w)
<1> USE DEF TypeOK
<1>1. w \notin Launches /\ w \notin Users /\ w \in Threads
  BY LifecycleAssumption DEF Threads
<1>2. ASSUME NEW x \in Workers, LaunchStep(x) PROVE DrainStep(w)
  <2>1. UNCHANGED todo
    BY <1>2, LaunchFrame
  <2>2. mode' = mode
    BY <1>2 DEF LaunchStep, CreateOverlay, CreateOverlayFails, Boot, BootFails, StartBridge,
       StartBridgeFails, WaitListen, SetSession, SetSessionFails, Advance
  <2>3. thr'[w] = thr[w]
    <3>1. job[x] \in Launches
      BY <1>2, LaunchFrame
    <3>2. CASE StartBridge(x)
      BY <1>1, <3>1, <3>2 DEF StartBridge
    <3>3. CASE ~StartBridge(x)
      BY <1>2, <3>3 DEF LaunchStep, CreateOverlay, CreateOverlayFails, Boot, BootFails,
         StartBridgeFails, WaitListen, SetSession, SetSessionFails
    <3> QED BY <3>2, <3>3
  <2> QED BY <2>1, <2>2, <2>3 DEF DrainStep
<1>3. ASSUME NEW t \in Threads, CleanupStep(t) PROVE DrainStep(w)
  <2>1. UNCHANGED <<todo, mode>>
    BY <1>3 DEF CleanupStep, CleanGet, CleanKill, CleanFiles, DeleteRead, DeletePipe
  <2>2. t = w \/ thr'[w] = thr[w]
    BY <1>1, <1>3, CleanupFrame
  <2> QED BY <1>3, <2>1, <2>2 DEF DrainStep
<1>4. ASSUME NEW l \in Launches,
             \/ MonitorLine(l) \/ MonitorEof(l)
             \/ TargetCloses(l) \/ BridgeReaped(l) \/ QemuExits(l)
             \/ Connect(l) \/ Disconnect(l) \/ BridgeExits(l)
      PROVE  DrainStep(w)
  <2>1. UNCHANGED <<todo, mode>>
    BY <1>4 DEF MonitorLine, MonitorEof, TargetCloses, BridgeReaped, QemuExits, Connect,
       Disconnect, BridgeExits
  <2>2. thr'[w] = thr[w]
    BY <1>1, <1>4 DEF MonitorLine, MonitorEof, TargetCloses, BridgeReaped, QemuExits, Connect,
       Disconnect, BridgeExits
  <2> QED BY <2>1, <2>2 DEF DrainStep
<1>5. ASSUME NEW x \in Workers,
             \/ \E l \in Launches : Request(x, l)
             \/ \E u \in Users : Logout(u, x)
             \/ Shutdown(x) \/ ShutdownNext(x) \/ ShutdownDone(x) \/ Crash(x) \/ Restart(x)
      PROVE  DrainStep(w)
  <2>1. x = w
    BY DEF SingleWorker
  <2>2. ASSUME NEW l \in Launches, Request(x, l) PROVE DrainStep(w)
    BY <2>2 DEF Request, DrainStep
  <2>3. ASSUME NEW u \in Users, Logout(u, x) PROVE DrainStep(w)
    BY <1>1, <2>3 DEF Logout, DrainStep
  <2>4. CASE ShutdownNext(x)
    BY <2>1, <2>4 DEF ShutdownNext, DrainStep
  <2>5. CASE ShutdownDone(x) \/ Crash(x) \/ Restart(x)
    BY <2>1, <2>5 DEF ShutdownDone, Crash, Restart, Stop
  <2> QED BY <1>5, <2>1, <2>2, <2>3, <2>4, <2>5 DEF DrainStep
<1>6. ASSUME NEW u \in Users, UploadIso(u) PROVE DrainStep(w)
  BY <1>6 DEF UploadIso, DrainStep
<1>7. CASE UNCHANGED vars
  BY <1>7 DEF vars, DrainStep
<1> QED BY <1>2, <1>3, <1>4, <1>5, <1>6, <1>7 DEF Next, Environment

(* Handlers and shutdown exclude each other within a worker.                *)
LEMMA NoJobStep ==
    ASSUME SingleWorker, ShutdownInv, [Next]_vars, NEW w \in Workers, mode'[w] = "draining"
    PROVE  job'[w] = NoLaunch /\ ~\E x \in Workers : SetSession(x)
<1>1. TypeOK
  BY DEF ShutdownInv, LeaseInv, OwnInv, IndexInv
<1>2. mode[w] \in {"serving", "draining"} /\ job[w] = NoLaunch
  BY <1>1, DrainFrame DEF DrainStep, Shutdown, ShutdownInv, DrainsAll
<1>3. ~\E x \in Workers : LaunchStep(x)
  BY <1>1, <1>2, LaunchFrame, NoLaunchIsNone DEF SingleWorker
<1>4. ASSUME NEW x \in Workers, NEW l \in Launches, Request(x, l) PROVE FALSE
  BY <1>4 DEF Request, SingleWorker
<1>5. ASSUME NEW x \in Workers, Crash(x) PROVE job'[w] = NoLaunch
  BY <1>1, <1>5 DEF Crash, SingleWorker, TypeOK
<1> QED BY <1>2, <1>3, <1>4, <1>5, StageFrame DEF LaunchStep

LEMMA DrainsAllStep ==
    ASSUME Fresh, SingleWorker, ShutdownInv, [Next]_vars
    PROVE  DrainsAll'
<1> SUFFICES ASSUME NEW w \in Workers, mode'[w] = "draining",
                    NEW v \in Vmids, vm'[v] \in Launches
             PROVE  Awaits(w, v)'
  BY NoJobStep DEF DrainsAll
<1>1. TypeOK /\ OwnInv /\ w \in Threads
  BY DEF ShutdownInv, LeaseInv, OwnInv, IndexInv, Threads
<1>2. vm[v] \in Launches
  <2>1. vm \in [Vmids -> Launches \cup {NoSession, Ghost}]
    BY <1>1 DEF TypeOK, StoreTypeOK
  <2>2. ~\E x \in Workers : SetSession(x)
    BY NoJobStep
  <2>3. CASE UNCHANGED store
    BY <2>3 DEF store
  <2>4. ASSUME NEW t \in Threads, thr[t].vm \in Vmids,
               vm' = [vm EXCEPT ![thr[t].vm] = NoSession]
        PROVE  vm[v] \in Launches
    BY <2>1, <2>4, StoreAssumption
  <2>5. ASSUME NEW k \in Launches,
               \A x \in Vmids : (vm[x] \in Launches \/ vm'[x] \in Launches) => vm'[x] = vm[x]
        PROVE  vm[v] \in Launches
    BY <2>5
  <2> QED BY <1>1, <2>2, <2>3, <2>4, <2>5, StoreWrites
<1>3. CASE Shutdown(w)
  <2>1. v \in Items
    BY <1>1, <1>2, StoreAssumption DEF OwnInv, IndexInv, SessionIndexed, Items
  <2> QED BY <1>1, <1>3, <2>1 DEF Shutdown, Awaits, TypeOK
<1>4. mode[w] = "draining" => Awaits(w, v)
  BY <1>2 DEF ShutdownInv, DrainsAll
<1>5. CASE mode[w] = "draining" /\ ShutdownNext(w)
  <2>1. PICK x \in todo[w] : todo' = [todo EXCEPT ![w] = @ \ {x}]
                             /\ thr' = [thr EXCEPT ![w] = Cleanup(x, "again")]
    BY <1>5 DEF ShutdownNext
  <2>2. v \in todo[w]
    BY <1>4, <1>5 DEF Awaits, ShutdownNext, CleaningPc
  <2>3. Cleanup(x, "again").pc = "get" /\ Cleanup(x, "again").vm = x
    BY DEF Cleanup
  <2> QED BY <1>1, <2>1, <2>2, <2>3 DEF Awaits, TypeOK, CleaningPc
<1>6. CASE mode[w] = "draining" /\ CleanupStep(w) /\ UNCHANGED todo
  <2>1. CASE v \in todo[w]
    BY <1>6, <2>1 DEF Awaits
  <2>2. CASE thr[w].vm = v
    <3>1. ~DeletePipe(w)
      <4> SUFFICES ASSUME DeletePipe(w) PROVE FALSE
        OBVIOUS
      <4>1. vm' = [vm EXCEPT ![v] = NoSession]
        BY <2>2 DEF DeletePipe, StoreDelete
      <4> QED BY <1>1, <4>1, StoreAssumption DEF TypeOK, StoreTypeOK
    <3>2. vm[v] # NoSession
      BY <1>2, StoreAssumption
    <3>3. thr'[w].vm = v /\ thr'[w].pc \in {"kill", "files", "dget", "dpipe"}
      BY <1>1, <1>6, <2>2, <3>1, <3>2, CleanupFrame
    <3> QED BY <3>3 DEF Awaits, CleaningPc
  <2> QED BY <1>4, <1>6, <2>1, <2>2 DEF Awaits
<1>7. CASE mode[w] = "draining" /\ thr'[w] = thr[w] /\ todo'[w] = todo[w]
  BY <1>4, <1>7 DEF Awaits
<1> QED BY <1>1, <1>3, <1>5, <1>6, <1>7, DrainFrame DEF DrainStep

(* The end of a shutdown. *)
LEMMA NothingLeft ==
    ASSUME SingleWorker, CleanLaunches, ShutdownInv, [Next]_vars,
           NEW w \in Workers, mode[w] = "draining", mode'[w] = "down"
    PROVE  (\A l \in Launches : qemu[l] # "up") /\ active = {}
<1>1. TypeOK
  BY DEF ShutdownInv, LeaseInv, OwnInv, IndexInv
<1>2. ShutdownDone(w)
  <2> USE <1>1 DEF TypeOK
  <2>1. ASSUME NEW x \in Workers, LaunchStep(x) PROVE mode' = mode
    BY <2>1 DEF LaunchStep, CreateOverlay, CreateOverlayFails, Boot, BootFails, StartBridge,
       StartBridgeFails, WaitListen, SetSession, SetSessionFails, Advance
  <2>2. ASSUME NEW t \in Threads, CleanupStep(t) PROVE mode' = mode
    BY <2>2 DEF CleanupStep, CleanGet, CleanKill, CleanFiles, DeleteRead, DeletePipe
  <2>3. ASSUME NEW l \in Launches,
               \/ MonitorLine(l) \/ MonitorEof(l)
               \/ TargetCloses(l) \/ BridgeReaped(l) \/ QemuExits(l)
               \/ Connect(l) \/ Disconnect(l) \/ BridgeExits(l)
        PROVE  mode' = mode
    BY <2>3 DEF MonitorLine, MonitorEof, TargetCloses, BridgeReaped, QemuExits, Connect,
       Disconnect, BridgeExits
  <2>4. ASSUME NEW x \in Workers,
               \/ \E l \in Launches : Request(x, l)
               \/ \E u \in Users : Logout(u, x)
               \/ ShutdownNext(x)
        PROVE  mode' = mode
    BY <2>4 DEF Request, Logout, ShutdownNext
  <2>5. ASSUME NEW x \in Workers, Shutdown(x) \/ Crash(x) \/ Restart(x) PROVE FALSE
    BY <2>5 DEF Shutdown, Crash, Restart, SingleWorker, CleanLaunches
  <2>6. ASSUME NEW x \in Workers, ShutdownDone(x) PROVE x = w
    BY DEF SingleWorker
  <2>7. ASSUME NEW u \in Users, UploadIso(u) PROVE mode' = mode
    BY <2>7 DEF UploadIso
  <2>8. CASE UNCHANGED vars
    BY <2>8 DEF vars
  <2> QED BY <2>1, <2>2, <2>3, <2>4, <2>5, <2>6, <2>7, <2>8 DEF Next, Environment
<1>3. job[w] = NoLaunch /\ \A v \in Vmids : vm[v] \notin Launches
  BY <1>2 DEF ShutdownDone, ShutdownInv, DrainsAll, Awaits, CleaningPc
<1>4. active = {}
  BY <1>1, <1>3 DEF ShutdownInv, LeaseInv, OwnInv, IndexInv, ActiveHasSession, TypeOK, StoreTypeOK
<1>5. ASSUME NEW l \in Launches, qemu[l] = "up" PROVE FALSE
  <2>1. stage[l] \notin Busy
    BY <1>3, NoLaunchIsNone DEF ShutdownInv, LeaseInv, BusyHasJob, SingleWorker
  <2>2. stage[l] # "failed"
    BY <1>5 DEF ShutdownInv, LeaseInv, FailedBeforeBoot
  <2>3. vm[VmidOf[l]] # l
    BY <1>3, LifecycleAssumption
  <2> QED BY <1>5, <2>1, <2>2, <2>3 DEF ShutdownInv, LeaseInv, OwnInv, SessionTracksVm
<1> QED BY <1>4, <1>5

(* A server that completed its shutdown has left no VM running and no       *)
(* session in Redis, whatever was being launched, cleaned or logged out     *)
(* when it began.                                                           *)
THEOREM ShutdownIsComplete ==
    ASSUME Fresh, SingleWorker, CleanLaunches
    PROVE  Spec => ShutdownLeavesNothing
<1>1. Init => ShutdownInv
  BY LeaseInvInit DEF Init, ShutdownInv, DrainsAll
<1>2. ShutdownInv /\ [Next]_vars => ShutdownInv'
  <2>1. LeaseInv /\ [Next]_vars => LeaseInv'
    BY LeaseInvStep
  <2> QED BY <2>1, DrainsAllStep DEF ShutdownInv
<1>3. ShutdownInv /\ [Next]_vars =>
        [\A w \in Workers : mode[w] = "draining" /\ mode'[w] = "down" =>
           /\ \A l \in Launches : qemu[l] # "up"
           /\ active = {}]_vars
  BY NothingLeft
<1> QED BY <1>1, <1>2, <1>3, PTL DEF Spec, ShutdownLeavesNothing
=============================================================================
