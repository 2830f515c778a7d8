---------------------------- MODULE VmLifecycle -----------------------------
(***************************************************************************)
(* The life of a VM: the launch handlers of app/routers/vm.py, the         *)
(* websockify monitor threads of WebsockifyService, cleanup_vm of utils.py *)
(* as those threads, logout and the shutdown of a worker run it, and the   *)
(* operating-system processes, files and sockets they all act on.  The     *)
(* session keys are those of SessionStore.                                 *)
(*                                                                         *)
(* Concurrency.  A launch handler is an async def with no await: within    *)
(* one server process (worker) it excludes every other launch, but other   *)
(* workers, the monitor threads and logout (a sync def, run in a thread    *)
(* pool) interleave with it.  cleanup_vm interleaves with everything,      *)
(* another cleanup_vm of the same VM included.                             *)
(***************************************************************************)
EXTENDS SessionStore, Sequences

CONSTANTS
    Workers,       \* server processes
    VmidOf,        \* [Launches -> Vmids]: a new token, or the one a snapshot names
    FromSnapshot,  \* the launches made by /run_snapshot
    Custom,        \* the os_type of /run-iso
    Events,        \* the failures and process events that may happen
    MaxConns,      \* bound: websocket connections made to one websockify
    NoLaunch,      \* a worker that runs no launch
    NoWorker       \* a thread that was never started

AllEvents ==
    {"image", "qemu", "pidfile", "start", "listen", "store",
     "exit", "poweroff", "shutdown", "crash"}

(* Threads that may run cleanup_vm: the monitor of a launch, the logout of *)
(* a user, the shutdown of a worker.                                       *)
Threads == Launches \cup Users \cup Workers

ASSUME LifecycleAssumption ==
    /\ VmidOf \in [Launches -> Vmids]
    /\ FromSnapshot \subseteq Launches
    /\ \A l \in FromSnapshot : Os[l] # Custom
    /\ Events \subseteq AllEvents
    /\ MaxConns \in Nat
    /\ NoLaunch \notin Launches /\ NoWorker \notin Workers /\ NoVmid \notin Vmids
    /\ Launches \cap Users = {}
    /\ Launches \cap Workers = {}
    /\ Users \cap Workers = {}

IsIso(l) == Os[l] = Custom
HasOverlay(l) == Os[l] # Custom /\ l \notin FromSnapshot

VARIABLES
    mode,    \* [Workers -> "serving" | "draining" | "down"]
    job,     \* [Workers -> Launches + NoLaunch]: the launch the handler is running
    stage,   \* [Launches -> Stage]: how far each launch got
    host,    \* [Threads -> Workers + NoWorker]: the server process of a thread
    thr,     \* [Threads -> Thread]: where each thread stands
    todo,    \* [Workers -> SUBSET Vmids]: what a shutdown still has to clean
    image,   \* the vmids with an overlay file
    iso,     \* the users with an uploaded ISO file
    sock,    \* the vmids with VNC and QMP socket files
    qemu,    \* [Launches -> "off" | "up" | "term" | "gone"]
    bridge,  \* [Launches -> "off" | "up" | "closing" | "dead"]: websockify
    lines,   \* [Launches -> Seq(Line)]: websockify output not read yet
    conns,   \* [Launches -> 0..MaxConns]: connections made so far
    open     \* [Launches -> Nat]: connections proxied now

files == <<image, iso, sock>>
clients == <<lines, conns, open>>
vars == <<store, mode, job, stage, host, thr, todo, files, qemu, bridge, clients>>

Busy == {"image", "boot", "bridge", "listen", "set"}
Stage == Busy \cup {"new", "ok", "failed"}
Line == {"open", "closed"}

(* A thread is idle, reads websockify output, or is inside cleanup_vm(vm) or *)
(* store.delete(vm), with the hash it read last and what it does afterwards.*)
At(pc) == [pc |-> pc, vm |-> NoVmid, sess |-> NoSession, ret |-> "idle"]

CleaningPc == {"get", "kill", "files", "dget", "dpipe"}

Thread ==
    {At("idle"), At("watch")} \cup
    [pc : CleaningPc,
     vm : Vmids,
     sess : Launches \cup {NoSession, Ghost},
     ret : {"idle", "watch", "again"}]

TypeOK ==
    /\ StoreTypeOK
    /\ mode \in [Workers -> {"serving", "draining", "down"}]
    /\ job \in [Workers -> Launches \cup {NoLaunch}]
    /\ stage \in [Launches -> Stage]
    /\ host \in [Threads -> Workers \cup {NoWorker}]
    /\ thr \in [Threads -> Thread]
    /\ todo \in [Workers -> SUBSET Vmids]
    /\ image \subseteq Vmids /\ iso \subseteq Users /\ sock \subseteq Vmids
    /\ qemu \in [Launches -> {"off", "up", "term", "gone"}]
    /\ bridge \in [Launches -> {"off", "up", "closing", "dead"}]
    /\ lines \in [Launches -> Seq(Line)]
    /\ conns \in [Launches -> 0..MaxConns]
    /\ open \in [Launches -> Nat]

Init ==
    /\ StoreInit
    /\ mode = [w \in Workers |-> "serving"]
    /\ job = [w \in Workers |-> NoLaunch]
    /\ stage = [l \in Launches |-> "new"]
    /\ host = [t \in Threads |-> NoWorker]
    /\ thr = [t \in Threads |-> At("idle")]
    /\ todo = [w \in Workers |-> {}]
    /\ image = {} /\ iso = {} /\ sock = {}
    /\ qemu = [l \in Launches |-> "off"]
    /\ bridge = [l \in Launches |-> "off"]
    /\ lines = [l \in Launches |-> <<>>]
    /\ conns = [l \in Launches |-> 0]
    /\ open = [l \in Launches |-> 0]

-----------------------------------------------------------------------------
(* Launching.  job[w] = l while worker w is inside the handler of launch l. *)

(* Faulty variant: the handler starts a VM without looking for another one. *)
RequestUnchecked(w, l) ==
    /\ mode[w] = "serving" /\ job[w] = NoLaunch /\ stage[l] = "new"
    /\ IsIso(l) => Owner[l] \in iso
    /\ job' = [job EXCEPT ![w] = l]
    /\ stage' = [stage EXCEPT ![l] = IF HasOverlay(l) THEN "image" ELSE "boot"]
    /\ host' = [host EXCEPT ![l] = w]
    /\ UNCHANGED <<store, mode, thr, todo, files, qemu, bridge, clients>>

(* The handler's check.  When the user has a running VM the request is      *)
(* answered with it, and without an uploaded ISO /run-iso answers 404; both *)
(* change nothing.                                                          *)
Request(w, l) ==
    /\ mode[w] = "serving" /\ job[w] = NoLaunch /\ stage[l] = "new"
    /\ Running(Owner[l]) = {}
    /\ IsIso(l) => Owner[l] \in iso
    /\ job' = [job EXCEPT ![w] = l]
    /\ stage' = [stage EXCEPT ![l] = IF HasOverlay(l) THEN "image" ELSE "boot"]
    /\ host' = [host EXCEPT ![l] = w]
    /\ UNCHANGED <<store, mode, thr, todo, files, qemu, bridge, clients>>

(* Worker w leaves stage s of its launch for stage next. *)
Advance(w, s, next) ==
    /\ job[w] # NoLaunch /\ stage[job[w]] = s
    /\ stage' = [stage EXCEPT ![job[w]] = next]
    /\ job' = IF next \in Busy THEN job ELSE [job EXCEPT ![w] = NoLaunch]
    /\ UNCHANGED <<mode, host, todo>>

(* create_overlay: qemu-img creates the file, or an existing one is reused. *)
CreateOverlay(w) ==
    /\ Advance(w, "image", "boot")
    /\ image' = image \cup {VmidOf[job[w]]}
    /\ UNCHANGED <<store, thr, iso, sock, qemu, bridge, clients>>

CreateOverlayFails(w) ==
    /\ "image" \in Events
    /\ Advance(w, "image", "failed")
    /\ UNCHANGED <<store, thr, files, qemu, bridge, clients>>

(* What boot_vm and boot_from_iso require before they touch anything. *)
ImageExists(l) ==
    /\ HasOverlay(l) => VmidOf[l] \in image
    /\ IsIso(l) => Owner[l] \in iso

(* boot_vm, boot_from_iso: drop the old sockets, start a daemonized QEMU,   *)
(* which creates its own, and read its pid.  When the pidfile does not show *)
(* up in time the handler fails and QEMU stays.                             *)
Boot(w) ==
    LET l == job[w] IN
    /\ \/ Advance(w, "boot", "bridge")
       \/ "pidfile" \in Events /\ Advance(w, "boot", "failed")
    /\ ImageExists(l)
    /\ qemu' = [qemu EXCEPT ![l] = "up"]
    /\ sock' = sock \cup {VmidOf[l]}
    /\ UNCHANGED <<store, thr, image, iso, bridge, clients>>

(* QEMU refuses to start, after the old sockets are gone, or the image was  *)
(* removed since the handler looked.                                        *)
BootFails(w) ==
    LET l == job[w] IN
    /\ Advance(w, "boot", "failed")
    /\ \/ /\ "qemu" \in Events /\ ImageExists(l)
          /\ sock' = sock \ {VmidOf[l]}
       \/ ~ImageExists(l) /\ UNCHANGED sock
    /\ UNCHANGED <<store, thr, image, iso, qemu, bridge, clients>>

(* WebsockifyService.start: spawn websockify and its monitor thread. *)
StartBridge(w) ==
    LET l == job[w] IN
    /\ Advance(w, "bridge", IF IsIso(l) THEN "listen" ELSE "set")
    /\ bridge' = [bridge EXCEPT ![l] = "up"]
    /\ thr' = [thr EXCEPT ![l] = At("watch")]
    /\ UNCHANGED <<store, files, qemu, clients>>

StartBridgeFails(w) ==
    /\ "start" \in Events
    /\ Advance(w, "bridge", "failed")
    /\ UNCHANGED <<store, thr, files, qemu, bridge, clients>>

(* Faulty variant: the wait has no deadline. *)
WaitListenForever(w) ==
    /\ Advance(w, "listen", "set") /\ bridge[job[w]] = "up"
    /\ UNCHANGED <<store, thr, files, qemu, bridge, clients>>

(* _wait_listen, in /run-iso only. *)
WaitListen(w) ==
    /\ \/ Advance(w, "listen", "set") /\ bridge[job[w]] = "up"
       \/ /\ Advance(w, "listen", "failed")
          /\ "listen" \in Events \/ bridge[job[w]] # "up"
    /\ UNCHANGED <<store, thr, files, qemu, bridge, clients>>

(* store.set: from here on the session exists and the client is redirected. *)
SetSession(w) ==
    /\ Advance(w, "set", "ok")
    /\ StoreSet(VmidOf[job[w]], job[w])
    /\ UNCHANGED <<thr, files, qemu, bridge, clients>>

SetSessionFails(w) ==
    /\ "store" \in Events
    /\ Advance(w, "set", "failed")
    /\ UNCHANGED <<store, thr, files, qemu, bridge, clients>>

LaunchStep(w) ==
    \/ CreateOverlay(w) \/ CreateOverlayFails(w)
    \/ Boot(w) \/ BootFails(w)
    \/ StartBridge(w) \/ StartBridgeFails(w)
    \/ WaitListen(w)
    \/ SetSession(w) \/ SetSessionFails(w)

(* /api/post stores the user's ISO, here in one step. *)
UploadIso(u) ==
    /\ u \notin iso
    /\ iso' = iso \cup {u}
    /\ UNCHANGED <<store, mode, job, stage, host, thr, todo, image, sock, qemu, bridge, clients>>
-----------------------------------------------------------------------------
(* The processes outside the program: browsers, websockify and QEMU. *)

(* The VM behind the VNC socket of v answers. *)
Reachable(v) ==
    /\ v \in sock
    /\ \E l \in Launches : VmidOf[l] = v /\ qemu[l] \in {"up", "term"}

(* A browser that was redirected connects, or noVNC connects again.         *)
(* websockify announces the connection before it knows whether QEMU answers.*)
Connect(l) ==
    /\ stage[l] = "ok" /\ bridge[l] = "up" /\ conns[l] < MaxConns
    /\ conns' = [conns EXCEPT ![l] = @ + 1]
    /\ open' = [open EXCEPT ![l] = IF Reachable(VmidOf[l]) THEN @ + 1 ELSE @]
    /\ lines' = [lines EXCEPT ![l] = Append(@, "open")]
    /\ UNCHANGED <<store, mode, job, stage, host, thr, todo, files, qemu, bridge>>

(* The browser closes the tab; websockify reports it. *)
Disconnect(l) ==
    /\ bridge[l] = "up" /\ open[l] > 0
    /\ open' = [open EXCEPT ![l] = @ - 1]
    /\ lines' = [lines EXCEPT ![l] = Append(@, "closed")]
    /\ UNCHANGED <<store, mode, job, stage, host, thr, todo, files, qemu, bridge, conns>>

(* QEMU went away under the connections: no line the monitor looks for. *)
TargetCloses(l) ==
    /\ open[l] > 0 /\ \A k \in Launches : VmidOf[k] = VmidOf[l] => qemu[k] \in {"off", "gone"}
    /\ open' = [open EXCEPT ![l] = 0]
    /\ UNCHANGED <<store, mode, job, stage, host, thr, todo, files, qemu, bridge, lines, conns>>

(* websockify exits by itself, a port lost to another process included. *)
BridgeExits(l) ==
    /\ "exit" \in Events /\ bridge[l] = "up"
    /\ bridge' = [bridge EXCEPT ![l] = "closing"]
    /\ open' = [open EXCEPT ![l] = 0]
    /\ UNCHANGED <<store, mode, job, stage, host, thr, todo, files, qemu, lines, conns>>

(* An exiting process closes its output before it can be waited for. *)
BridgeReaped(l) ==
    /\ bridge[l] = "closing"
    /\ bridge' = [bridge EXCEPT ![l] = "dead"]
    /\ UNCHANGED <<store, mode, job, stage, host, thr, todo, files, qemu, clients>>

(* QEMU ends: after SIGTERM, or because the guest powered off. *)
QemuExits(l) ==
    /\ qemu[l] = "term" \/ ("poweroff" \in Events /\ qemu[l] = "up")
    /\ qemu' = [qemu EXCEPT ![l] = "gone"]
    /\ UNCHANGED <<store, mode, job, stage, host, thr, todo, files, bridge, clients>>
-----------------------------------------------------------------------------
(* cleanup_vm(v), run by thread t; ret says what follows it: the monitor    *)
(* reads on ("watch") or ends ("idle"), logout and shutdown call            *)
(* store.delete once more ("again").                                        *)
Cleanup(v, ret) == [pc |-> "get", vm |-> v, sess |-> NoSession, ret |-> ret]

Return(t) ==
    CASE thr[t].ret = "again" -> [thr[t] EXCEPT !.pc = "dget", !.sess = NoSession, !.ret = "idle"]
      [] thr[t].ret = "watch" -> At("watch")
      [] thr[t].ret = "idle" -> At("idle")

(* Faulty variant: the files go first and nothing is killed. *)
CleanGetFilesOnly(t) ==
    /\ thr[t].pc = "get"
    /\ thr' = [thr EXCEPT ![t] =
                 IF vm[thr[t].vm] = NoSession THEN Return(t)
                 ELSE [@ EXCEPT !.pc = "files", !.sess = vm[thr[t].vm]]]
    /\ UNCHANGED <<store, mode, job, stage, host, todo, files, qemu, bridge, clients>>

(* store.get; cleanup_vm returns at once when there is no session. *)
CleanGet(t) ==
    /\ thr[t].pc = "get"
    /\ thr' = [thr EXCEPT ![t] =
                 IF vm[thr[t].vm] = NoSession THEN Return(t)
                 ELSE [@ EXCEPT !.pc = "kill", !.sess = vm[thr[t].vm]]]
    /\ UNCHANGED <<store, mode, job, stage, host, todo, files, qemu, bridge, clients>>

(* Faulty variant: a pid that the session names is not signalled. *)
CleanKillNothing(t) ==
    /\ thr[t].pc = "kill"
    /\ thr' = [thr EXCEPT ![t].pc = "files"]
    /\ UNCHANGED <<store, mode, job, stage, host, todo, files, qemu, bridge, clients>>

(* SIGTERM to the pid of the session.  No handler stores websockify_pid, so *)
(* websockify gets none.  A hash without a pid falls back on pkill -f vmid, *)
(* which matches the command lines of QEMU and of websockify alike.         *)
CleanKill(t) ==
    LET d == thr[t].sess
        named == {l \in Launches : VmidOf[l] = thr[t].vm}
        hit == IF d \in Launches THEN {d} ELSE named
        hitBridge == IF d \in Launches THEN {} ELSE {l \in named : bridge[l] = "up"}
    IN
    /\ thr[t].pc = "kill"
    /\ thr' = [thr EXCEPT ![t].pc = "files"]
    /\ qemu' = [l \in Launches |-> IF l \in hit /\ qemu[l] = "up" THEN "term" ELSE qemu[l]]
    /\ bridge' = [l \in Launches |-> IF l \in hitBridge THEN "closing" ELSE bridge[l]]
    /\ open' = [l \in Launches |-> IF l \in hitBridge THEN 0 ELSE open[l]]
    /\ UNCHANGED <<store, mode, job, stage, host, todo, files, lines, conns>>

(* Faulty variant: the overlay is taken for an ISO and stays. *)
CleanFilesKeepsOverlay(t) ==
    LET d == thr[t].sess IN
    /\ thr[t].pc = "files"
    /\ thr' = [thr EXCEPT ![t].pc = "dget"]
    /\ iso' = IF d \in Launches /\ IsIso(d) THEN iso \ {Owner[d]} ELSE iso
    /\ sock' = sock \ {thr[t].vm}
    /\ UNCHANGED <<store, mode, job, stage, host, todo, image, qemu, bridge, clients>>

(* Unlink the ISO or the overlay of the vmid, then the sockets. *)
CleanFiles(t) ==
    LET d == thr[t].sess IN
    /\ thr[t].pc = "files"
    /\ thr' = [thr EXCEPT ![t].pc = "dget"]
    /\ iso' = IF d \in Launches /\ IsIso(d) THEN iso \ {Owner[d]} ELSE iso
    /\ image' = IF d \in Launches /\ ~IsIso(d) THEN image \ {thr[t].vm} ELSE image
    /\ sock' = sock \ {thr[t].vm}
    /\ UNCHANGED <<store, mode, job, stage, host, todo, qemu, bridge, clients>>

(* store.delete: first the hash is read, then the pipeline clears what the  *)
(* hash named.                                                              *)
DeleteRead(t) ==
    /\ thr[t].pc = "dget"
    /\ thr' = [thr EXCEPT ![t].pc = "dpipe", ![t].sess = vm[thr[t].vm]]
    /\ UNCHANGED <<store, mode, job, stage, host, todo, files, qemu, bridge, clients>>

DeletePipe(t) ==
    /\ thr[t].pc = "dpipe"
    /\ StoreDelete(thr[t].vm, thr[t].sess)
    /\ thr' = [thr EXCEPT ![t] = Return(t)]
    /\ UNCHANGED <<mode, job, stage, host, todo, files, qemu, bridge, clients>>

CleanupStep(t) ==
    CleanGet(t) \/ CleanKill(t) \/ CleanFiles(t) \/ DeleteRead(t) \/ DeletePipe(t)
-----------------------------------------------------------------------------
(* The monitor thread of launch l, reading the output of its websockify.    *)

(* Faulty variant: a client that left counts only when it was the last one. *)
MonitorLineLastClient(l) ==
    /\ thr[l].pc = "watch" /\ lines[l] # <<>>
    /\ lines' = [lines EXCEPT ![l] = Tail(@)]
    /\ StoreUpdate(VmidOf[l])
    /\ thr' = [thr EXCEPT ![l] =
                 IF Head(lines[l]) = "closed" /\ open[l] = 0
                 THEN Cleanup(VmidOf[l], "watch") ELSE @]
    /\ UNCHANGED <<mode, job, stage, host, todo, files, qemu, bridge, conns, open>>

(* A line that tells of a connection, or of a client that left, bumps       *)
(* last_seen; the latter also starts cleanup_vm.                            *)
MonitorLine(l) ==
    /\ thr[l].pc = "watch" /\ lines[l] # <<>>
    /\ lines' = [lines EXCEPT ![l] = Tail(@)]
    /\ StoreUpdate(VmidOf[l])
    /\ thr' = [thr EXCEPT ![l] =
                 IF Head(lines[l]) = "closed" THEN Cleanup(VmidOf[l], "watch") ELSE @]
    /\ UNCHANGED <<mode, job, stage, host, todo, files, qemu, bridge, conns, open>>

(* End of output.  The finally block cleans up only when poll() already     *)
(* sees the exit status.                                                    *)
MonitorEof(l) ==
    /\ thr[l].pc = "watch" /\ lines[l] = <<>> /\ bridge[l] \in {"closing", "dead"}
    /\ thr' = [thr EXCEPT ![l] =
                 IF bridge[l] = "dead" THEN Cleanup(VmidOf[l], "idle") ELSE At("idle")]
    /\ UNCHANGED <<store, mode, job, stage, host, todo, files, qemu, bridge, clients>>

(* /logout of user u, in the thread pool of worker w; with no VM it only    *)
(* drops the cookie.                                                        *)
Logout(u, w) ==
    /\ mode[w] = "serving" /\ thr[u].pc = "idle"
    /\ \E v \in Running(u) :
         /\ IsRunningByUser(u, v)
         /\ thr' = [thr EXCEPT ![u] = Cleanup(v, "again")]
    /\ host' = [host EXCEPT ![u] = w]
    /\ UNCHANGED <<store, mode, job, stage, todo, files, qemu, bridge, clients>>
-----------------------------------------------------------------------------
(* The end of a server process. *)

(* Threads of worker w. *)
ThreadsOf(w) == {t \in Launches \cup Users : host[t] = w} \cup {w}

(* Faulty variant: the sessions are listed while a launch is in progress. *)
ShutdownAtOnce(w) ==
    /\ "shutdown" \in Events
    /\ mode[w] = "serving"
    /\ \A u \in Users : host[u] = w => thr[u].pc = "idle"
    /\ mode' = [mode EXCEPT ![w] = "draining"]
    /\ todo' = [todo EXCEPT ![w] = Items]
    /\ UNCHANGED <<store, job, stage, host, thr, files, qemu, bridge, clients>>

(* Shutdown waits for the requests in progress, then lifespan lists the     *)
(* sessions of every worker and cleans them one after the other.            *)
Shutdown(w) ==
    /\ "shutdown" \in Events
    /\ mode[w] = "serving" /\ job[w] = NoLaunch
    /\ \A u \in Users : host[u] = w => thr[u].pc = "idle"
    /\ mode' = [mode EXCEPT ![w] = "draining"]
    /\ todo' = [todo EXCEPT ![w] = Items]
    /\ UNCHANGED <<store, job, stage, host, thr, files, qemu, bridge, clients>>

ShutdownNext(w) ==
    /\ mode[w] = "draining" /\ thr[w].pc = "idle"
    /\ \E v \in todo[w] :
         /\ todo' = [todo EXCEPT ![w] = @ \ {v}]
         /\ thr' = [thr EXCEPT ![w] = Cleanup(v, "again")]
    /\ UNCHANGED <<store, mode, job, stage, host, files, qemu, bridge, clients>>

(* The process ends, and its daemon threads with it, wherever they stand.   *)
Stop(w) ==
    /\ mode' = [mode EXCEPT ![w] = "down"]
    /\ thr' = [t \in Threads |-> IF t \in ThreadsOf(w) THEN At("idle") ELSE thr[t]]
    /\ todo' = [todo EXCEPT ![w] = {}]
    /\ UNCHANGED <<store, host, files, qemu, bridge, clients>>

ShutdownDone(w) ==
    /\ mode[w] = "draining" /\ thr[w].pc = "idle" /\ todo[w] = {}
    /\ Stop(w)
    /\ UNCHANGED <<job, stage>>

(* The server process dies; QEMU, websockify and Redis outlive it. *)
Crash(w) ==
    /\ "crash" \in Events /\ mode[w] # "down"
    /\ Stop(w)
    /\ job' = [job EXCEPT ![w] = NoLaunch]
    /\ stage' = [l \in Launches |-> IF l = job[w] THEN "failed" ELSE stage[l]]

(* A new process starts from nothing: it looks at no earlier session. *)
Restart(w) ==
    /\ mode[w] = "down"
    /\ mode' = [mode EXCEPT ![w] = "serving"]
    /\ UNCHANGED <<store, job, stage, host, thr, todo, files, qemu, bridge, clients>>
-----------------------------------------------------------------------------
Environment ==
    \/ \E u \in Users : UploadIso(u)
    \/ \E l \in Launches : Connect(l) \/ Disconnect(l) \/ BridgeExits(l)
    \/ \E w \in Workers : Restart(w) \/ Crash(w)

Next ==
    \/ \E w \in Workers, l \in Launches : Request(w, l)
    \/ \E w \in Workers : LaunchStep(w)
    \/ \E u \in Users, w \in Workers : Logout(u, w)
    \/ \E t \in Threads : CleanupStep(t)
    \/ \E l \in Launches : MonitorLine(l) \/ MonitorEof(l)
    \/ \E l \in Launches : TargetCloses(l) \/ BridgeReaped(l) \/ QemuExits(l)
    \/ \E w \in Workers : Shutdown(w) \/ ShutdownNext(w) \/ ShutdownDone(w)
    \/ Environment

(* A handler that started runs to its end, a runnable thread is scheduled,  *)
(* and a process that was sent SIGTERM or is exiting is gone at some point. *)
(* Requests, browsers, failures, crashes and restarts are owed nothing.     *)
Fairness ==
    /\ \A w \in Workers : WF_vars(LaunchStep(w)) /\ WF_vars(ShutdownNext(w) \/ ShutdownDone(w))
    /\ \A t \in Threads : WF_vars(CleanupStep(t))
    /\ \A l \in Launches :
         /\ WF_vars(MonitorLine(l) \/ MonitorEof(l))
         /\ WF_vars(BridgeReaped(l))
         /\ WF_vars(qemu[l] = "term" /\ QemuExits(l))

Spec == Init /\ [][Next]_vars
FairSpec == Spec /\ Fairness

-----------------------------------------------------------------------------
(* Safety. *)

(* A QEMU process nobody told to stop is in the hands of the handler that   *)
(* starts it, or is named by a session, so that a disconnect, a logout or a *)
(* shutdown can find it; the only other ones are those of launches that     *)
(* failed after boot, or whose worker died.                                 *)
SessionTracksVm ==
    \A l \in Launches : qemu[l] = "up" =>
        stage[l] \in Busy \cup {"failed"} \/ vm[VmidOf[l]] = l

(* One VM per user: no user has two QEMU processes at work at a time.       *)
OneVmPerUser ==
    \A k, l \in Launches :
        Owner[k] = Owner[l] /\ qemu[k] = "up" /\ qemu[l] = "up" => k = l

(* No cleanup takes the overlay or the sockets from under a QEMU that was   *)
(* not told to stop, however many cleanups of however many threads overlap. *)
RunningVmKeepsFiles ==
    \A l \in Launches : qemu[l] = "up" =>
        /\ VmidOf[l] \in sock
        /\ HasOverlay(l) => VmidOf[l] \in image

(* An overlay file on disk belongs to a launch in progress, to a session,   *)
(* or to a launch that failed after create_overlay, which removes nothing:  *)
(* a VM that had a session leaves no overlay behind.                        *)
NoStrayOverlay ==
    \A v \in image : \E l \in Launches :
        VmidOf[l] = v /\ (stage[l] \in Busy \cup {"failed"} \/ vm[v] = l)

(* The sorted set of a user names live sessions only, and at most one of    *)
(* them, so that the six entries get_running_by_user reads always hold the  *)
(* session when there is one.                                               *)
UserIndexExact ==
    \A u \in Users : \A v \in Vmids : userVms[u][v] > 0 =>
        /\ vm[v] \in Launches /\ Owner[vm[v]] = u
        /\ \A w \in Vmids : userVms[u][w] > 0 => w = v

(* The system is OneVmLease: a VM starts only when its owner has none, once,*)
(* and one that was told to stop never counts as running again.             *)
Lease == INSTANCE OneVmLease WITH
    running <- {l \in Launches : qemu[l] = "up"},
    ended <- {l \in Launches : qemu[l] \in {"term", "gone"}}

LeaseSpec == Lease!Spec

(* When the only worker has completed its shutdown, no VM is left running   *)
(* and no session is left in Redis.                                         *)
ShutdownLeavesNothing ==
    [][\A w \in Workers : mode[w] = "draining" /\ mode'[w] = "down" =>
         /\ \A l \in Launches : qemu[l] # "up"
         /\ active = {}]_vars

-----------------------------------------------------------------------------
(* Liveness. *)

(* A launch handler answers, whatever fails and unless its process dies.    *)
LaunchEnds ==
    \A l \in Launches : stage[l] \in Busy ~> stage[l] \in {"ok", "failed"}

(* A websockify line that tells of a client that left ends the VM and its   *)
(* session, whatever else runs.                                             *)
DisconnectEndsVm ==
    \A l \in Launches :
        (thr[l].pc # "idle" /\ \E i \in 1..Len(lines[l]) : lines[l][i] = "closed")
            ~> (qemu[l] = "gone" /\ vm[VmidOf[l]] # l)

(* So does a logout that found the VM.                                      *)
LogoutEndsVm ==
    \A u \in Users, l \in Launches :
        (thr[u].pc = "get" /\ thr[u].vm = VmidOf[l] /\ vm[VmidOf[l]] = l)
            ~> (qemu[l] = "gone" /\ vm[VmidOf[l]] # l)
=============================================================================
