--------------------------- MODULE SnapshotQuota ----------------------------
(***************************************************************************)
(* The snapshots of one user and the quota they are charged to:            *)
(* create_snapshot and remove_snapshot of app/routers/vm.py with           *)
(* create_disk_snapshot of OverlayManager, between the database row, the   *)
(* snapshot files and the QEMU processes that are backed up.               *)
(*                                                                         *)
(* Both handlers are async defs without an await: a worker runs one of     *)
(* them, or one launch, at a time, while the monitors stop VMs and the     *)
(* guests write.  What a file takes on the disk (charged) and how long it  *)
(* is (refunded) are independent of each other: qcow2 files are sparse,    *)
(* and a full backup merges the base image with the overlay.               *)
(***************************************************************************)
EXTENDS Integers

CONSTANTS
    Vmids,      \* the user's VMs; each one has at most one snapshot file
    Workers,    \* server processes
    Capacity,   \* snapshot_storage_capacity of the user
    Megabyte,   \* bytes of one, as _bytes_to_mb has it
    Base,       \* bytes the base image takes on the disk, 0 without one
    Sizes,      \* bound: bytes a file may take or be long
    Events,     \* what may go wrong
    NoVmid, NoFile

AllEvents == {"qmp", "abort", "timeout", "write"}

ASSUME QuotaAssumption ==
    /\ Capacity \in Nat /\ Base \in Nat
    /\ Megabyte \in Nat \ {0}
    /\ Sizes \subseteq Nat
    /\ Events \subseteq AllEvents
    /\ NoVmid \notin Vmids
    /\ NoFile \notin [takes : Nat, long : Nat]

VARIABLES
    stored,    \* snapshot_stored in the user's row
    snap,      \* [Vmids -> File \cup {NoFile}]: the snapshot files
    overlay,   \* [Vmids -> File \cup {NoFile}]: the overlay files
    drive,     \* [Vmids -> Drive]: what the running QEMU has for a disk
    req        \* [Workers -> Request]

vms == <<overlay, drive>>
vars == <<stored, snap, overlay, drive, req>>

(* st_blocks * 512 and st_size. *)
File == [takes : Sizes, long : Sizes]

(* No QEMU, one on the overlay, one on the snapshot file, and one whose      *)
(* snapshot file was unlinked.                                              *)
Drive == {"none", "overlay", "file", "unlinked"}

(* Where the handler of a worker stands, with the snapshot_stored it read   *)
(* and the megabytes it charges or frees.                                   *)
Stage == {"charge", "drop", "backup", "wait", "bill", "unlink", "refund"}

Idle == [at |-> "idle", vm |-> NoVmid, used |-> 0, mb |-> 0]
Request == {Idle} \cup [at : Stage, vm : Vmids, used : Nat, mb : Nat]

TypeOK ==
    /\ stored \in Nat
    /\ snap \in [Vmids -> File \cup {NoFile}]
    /\ overlay \in [Vmids -> File \cup {NoFile}]
    /\ drive \in [Vmids -> Drive]
    /\ req \in [Workers -> Request]

Init ==
    /\ stored = 0
    /\ snap = [v \in Vmids |-> NoFile]
    /\ overlay = [v \in Vmids |-> NoFile]
    /\ drive = [v \in Vmids |-> "none"]
    /\ req = [w \in Workers |-> Idle]

Answer(w) == req' = [req EXCEPT ![w] = Idle]
Goto(w, at) == req' = [req EXCEPT ![w].at = at]

(* Bytes in megabytes, rounded up. *)
ToMb(bytes) == (bytes + Megabyte - 1) \div Megabyte

(* _alloc_bytes: a file without blocks counts with its length. *)
AllocBytes(f) == IF f.takes > 0 THEN f.takes ELSE f.long

(* The commit of a request.  SQLAlchemy sends no UPDATE when the new value  *)
(* is the one that was read.                                                *)
Commit(w, total) == stored' = IF total # req[w].used THEN total ELSE stored

(* The drive of v after its snapshot file was unlinked: QEMU keeps it open. *)
Unlinked(v) == [drive EXCEPT ![v] = IF @ = "file" THEN "unlinked" ELSE @]

-----------------------------------------------------------------------------
(* create_snapshot. *)

(* The vmid comes with the request or from the session; the row is read.    *)
Snapshot(w, v) ==
    /\ req[w].at = "idle"
    /\ req' = [req EXCEPT ![w] = [at |-> "charge", vm |-> v, used |-> stored, mb |-> 0]]
    /\ UNCHANGED <<stored, snap, vms>>

Chargeable(v) == overlay[v] # NoFile \/ snap[v] # NoFile

(* What the quota is charged: base image and overlay, or else the snapshot  *)
(* file there is.                                                           *)
ToCharge(v) ==
    ToMb(IF overlay[v] # NoFile THEN Base + AllocBytes(overlay[v]) ELSE AllocBytes(snap[v]))

(* Faulty variant: the quota is not compared with what is to be charged. *)
ChargeUnchecked(w) ==
    LET v == req[w].vm IN
    /\ req[w].at = "charge"
    /\ IF Chargeable(v)
         THEN req' = [req EXCEPT ![w].at = "drop", ![w].mb = ToCharge(v)]
         ELSE Answer(w)
    /\ UNCHANGED <<stored, snap, vms>>

(* 409 when there is neither file, 413 when the quota does not allow it. *)
Charge(w) ==
    LET v == req[w].vm IN
    /\ req[w].at = "charge"
    /\ IF Chargeable(v) /\ req[w].used + ToCharge(v) <= Capacity
         THEN req' = [req EXCEPT ![w].at = "drop", ![w].mb = ToCharge(v)]
         ELSE Answer(w)
    /\ UNCHANGED <<stored, snap, vms>>

(* create_disk_snapshot removes the previous snapshot of this VM before it  *)
(* looks for the QMP socket.                                                *)
DropOld(w) ==
    LET v == req[w].vm IN
    /\ req[w].at = "drop"
    /\ snap' = [snap EXCEPT ![v] = NoFile]
    /\ drive' = Unlinked(v)
    /\ IF drive[v] = "none" THEN Answer(w) ELSE Goto(w, "backup")
    /\ UNCHANGED <<stored, overlay>>

BackupRuns(v) == \E w \in Workers : req[w].at = "wait" /\ req[w].vm = v

(* drive-backup: QEMU copies its disk, as the guest leaves it, into a new   *)
(* file, whatever was charged before.  It refuses a second job on a disk,   *)
(* and the socket may be gone by now.                                       *)
StartBackup(w) ==
    LET v == req[w].vm IN
    /\ req[w].at = "backup"
    /\ drive[v] # "none" /\ ~BackupRuns(v)
    /\ \E f \in File : snap' = [snap EXCEPT ![v] = f]
    /\ Goto(w, "wait")
    /\ UNCHANGED <<stored, vms>>

StartBackupFails(w) ==
    LET v == req[w].vm IN
    /\ req[w].at = "backup"
    /\ drive[v] = "none" \/ BackupRuns(v) \/ "qmp" \in Events
    /\ Answer(w)
    /\ UNCHANGED <<stored, snap, vms>>

(* The job is not listed any more; the file is there and is not empty, or   *)
(* else the handler fails.  A QEMU that ends while it is asked sends an     *)
(* empty answer, which lists no job either.                                 *)
EndBackup(w) ==
    LET v == req[w].vm IN
    /\ req[w].at = "wait"
    /\ IF snap[v] # NoFile /\ snap[v].long > 0 THEN Goto(w, "bill") ELSE Answer(w)
    /\ UNCHANGED <<stored, snap, vms>>

(* QEMU is gone, or the 300 seconds are over: the handler fails, and what   *)
(* was written so far stays.                                                *)
EndBackupFails(w) ==
    /\ req[w].at = "wait"
    /\ drive[req[w].vm] = "none" \/ "timeout" \in Events
    /\ Answer(w)
    /\ UNCHANGED <<stored, snap, vms>>

(* The row gets the sum of what was read at the start and the charge. *)
Bill(w) ==
    /\ req[w].at = "bill"
    /\ Commit(w, req[w].used + req[w].mb)
    /\ Answer(w)
    /\ UNCHANGED <<snap, vms>>

-----------------------------------------------------------------------------
(* remove_snapshot. *)

Remove(w, v) ==
    /\ req[w].at = "idle"
    /\ req' = [req EXCEPT ![w] = [at |-> "unlink", vm |-> v, used |-> stored, mb |-> 0]]
    /\ UNCHANGED <<stored, snap, vms>>

(* Without the file nothing is freed; with it its length is. *)
Unlink(w) ==
    LET v == req[w].vm IN
    /\ req[w].at = "unlink"
    /\ snap' = [snap EXCEPT ![v] = NoFile]
    /\ drive' = Unlinked(v)
    /\ IF snap[v] = NoFile
         THEN Answer(w)
         ELSE req' = [req EXCEPT ![w].at = "refund", ![w].mb = ToMb(snap[v].long)]
    /\ UNCHANGED <<stored, overlay>>

(* The row never goes below zero. *)
Refund(w) ==
    LET r == req[w] IN
    /\ r.at = "refund"
    /\ Commit(w, IF r.used >= r.mb THEN r.used - r.mb ELSE 0)
    /\ Answer(w)
    /\ UNCHANGED <<snap, vms>>

-----------------------------------------------------------------------------
(* The VMs, as VmLifecycle models them. *)

(* A worker that is in no handler runs a launch when the user has no VM. *)
CanLaunch ==
    /\ \A v \in Vmids : drive[v] = "none"
    /\ \E w \in Workers : req[w].at = "idle"

(* /run-script under a new vmid: no file and no request knows it. *)
Launch(v) ==
    /\ CanLaunch
    /\ overlay[v] = NoFile /\ snap[v] = NoFile /\ \A w \in Workers : req[w].vm # v
    /\ \E f \in File : overlay' = [overlay EXCEPT ![v] = f]
    /\ drive' = [drive EXCEPT ![v] = "overlay"]
    /\ UNCHANGED <<stored, snap, req>>

(* /run_snapshot: QEMU works on the snapshot file itself. *)
RunSnapshot(v) ==
    /\ CanLaunch /\ snap[v] # NoFile
    /\ drive' = [drive EXCEPT ![v] = "file"]
    /\ UNCHANGED <<stored, snap, overlay, req>>

(* QEMU ends; when a cleanup ended it the overlay goes as well. *)
Stops(v) ==
    /\ drive[v] # "none"
    /\ BackupRuns(v) => "abort" \in Events
    /\ drive' = [drive EXCEPT ![v] = "none"]
    /\ \E left \in {NoFile, overlay[v]} : overlay' = [overlay EXCEPT ![v] = left]
    /\ UNCHANGED <<stored, snap, req>>

(* The guest writes, or discards, what its disk's file holds. *)
Writes(v) ==
    /\ "write" \in Events
    /\ \E f \in File :
         \/ /\ drive[v] = "overlay"
            /\ overlay' = [overlay EXCEPT ![v] = f]
            /\ UNCHANGED snap
         \/ /\ drive[v] = "file"
            /\ snap' = [snap EXCEPT ![v] = f]
            /\ UNCHANGED overlay
    /\ UNCHANGED <<stored, drive, req>>

Handler(w) ==
    \/ Charge(w) \/ DropOld(w)
    \/ StartBackup(w) \/ StartBackupFails(w) \/ EndBackup(w) \/ EndBackupFails(w)
    \/ Bill(w)
    \/ Unlink(w) \/ Refund(w)

Next ==
    \/ \E w \in Workers, v \in Vmids : Snapshot(w, v) \/ Remove(w, v)
    \/ \E w \in Workers : Handler(w)
    \/ \E v \in Vmids : Launch(v) \/ RunSnapshot(v) \/ Stops(v) \/ Writes(v)

Spec == Init /\ [][Next]_vars

-----------------------------------------------------------------------------
(* The row never exceeds the capacity, however many workers read it, wait   *)
(* for a backup and write it back: the CHECK of the users table, which      *)
(* would turn a finished snapshot into a 500, never fires.                  *)
StoredWithinCapacity == stored <= Capacity

(* docs/API.md:358, `snapshot_stored` (used MB): a user who has no snapshot *)
(* file and no request on its way uses nothing.                             *)
NothingKeptNothingUsed ==
    (\A w \in Workers : req[w].at = "idle") /\ (\A v \in Vmids : snap[v] = NoFile)
      => stored = 0
=============================================================================
