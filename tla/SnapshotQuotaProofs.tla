------------------------- MODULE SnapshotQuotaProofs ------------------------
(* The quota row stays within its bounds, for any number of workers, any     *)
(* sizes of the files and every failure of SnapshotQuota.                   *)
EXTENDS SnapshotQuota, TLAPS

(* A request that passed the check will write a total within the capacity.  *)
Allowed ==
    \A w \in Workers :
        /\ req[w].used <= Capacity
        /\ req[w].at \in {"drop", "backup", "wait", "bill"} =>
             req[w].used + req[w].mb <= Capacity

QuotaInv == TypeOK /\ Allowed /\ StoredWithinCapacity

LEMMA ToMbNat == ASSUME NEW n \in Nat PROVE ToMb(n) \in Nat
<1>1. Megabyte \in Nat /\ Megabyte > 0
  BY QuotaAssumption
<1> QED BY <1>1 DEF ToMb

(* What a file counts in megabytes, charged or freed. *)
LEMMA FileMb ==
    ASSUME NEW f \in File
    PROVE  AllocBytes(f) \in Nat /\ ToMb(f.long) \in Nat
<1>1. f.takes \in Nat /\ f.long \in Nat
  BY QuotaAssumption DEF File
<1> QED BY <1>1, ToMbNat DEF AllocBytes

LEMMA IdleFields ==
    Idle \in Request /\ Idle.at = "idle" /\ Idle.used = 0 /\ Idle.mb = 0
BY DEF Idle, Request

(* A request in progress names a VM. *)
LEMMA RequestFields ==
    ASSUME NEW r \in Request, r.at # "idle"
    PROVE  r \in [at : Stage, vm : Vmids, used : Nat, mb : Nat]
BY DEF Request, Idle

LEMMA InitQuotaInv == Init => QuotaInv
BY IdleFields, QuotaAssumption DEF Init, QuotaInv, TypeOK, Allowed, StoredWithinCapacity, Drive

(* A step that moves one request on. *)
LEMMA HandlerStep ==
    ASSUME QuotaInv, NEW w \in Workers, NEW r \in Request, req' = [req EXCEPT ![w] = r],
           r.used <= Capacity,
           r.at \in {"drop", "backup", "wait", "bill"} => r.used + r.mb <= Capacity,
           stored' \in Nat, stored' <= Capacity,
           snap' \in [Vmids -> File \cup {NoFile}], drive' \in [Vmids -> Drive], UNCHANGED overlay
    PROVE  QuotaInv'
BY DEF QuotaInv, TypeOK, Allowed, StoredWithinCapacity

LEMMA AnswerStep ==
    ASSUME QuotaInv, NEW w \in Workers, Answer(w), stored' \in Nat, stored' <= Capacity,
           snap' \in [Vmids -> File \cup {NoFile}], drive' \in [Vmids -> Drive], UNCHANGED overlay
    PROVE  QuotaInv'
<1>1. req' = [req EXCEPT ![w] = Idle]
  BY DEF Answer
<1>2. 0 <= Capacity
  BY QuotaAssumption
<1> QED BY <1>1, <1>2, IdleFields, HandlerStep

(* The handler goes on to stage s, with n megabytes. *)
LEMMA AdvanceStep ==
    ASSUME QuotaInv, NEW w \in Workers, req[w].at # "idle", NEW s \in Stage, NEW n \in Nat,
           req' = [req EXCEPT ![w].at = s, ![w].mb = n],
           s \in {"drop", "backup", "wait", "bill"} => req[w].used + n <= Capacity,
           snap' \in [Vmids -> File \cup {NoFile}], drive' \in [Vmids -> Drive],
           UNCHANGED <<stored, overlay>>
    PROVE  QuotaInv'
<1> DEFINE r == [req[w] EXCEPT !.at = s, !.mb = n]
<1>1. req[w] \in Request /\ req[w].used <= Capacity
  BY DEF QuotaInv, TypeOK, Allowed
<1>2. stored' \in Nat /\ stored' <= Capacity /\ UNCHANGED overlay
  BY DEF QuotaInv, TypeOK, StoredWithinCapacity
<1>3. r \in Request /\ r.at = s /\ r.used = req[w].used /\ r.mb = n
  <2>1. req[w] \in [at : Stage, vm : Vmids, used : Nat, mb : Nat]
    BY <1>1, RequestFields
  <2>2. /\ r \in [at : Stage, vm : Vmids, used : Nat, mb : Nat]
        /\ r.at = s /\ r.used = req[w].used /\ r.mb = n
    BY <2>1
  <2> HIDE DEF r
  <2> QED BY <2>2 DEF Request
<1>4. req' = [req EXCEPT ![w] = r]
  OBVIOUS
<1>5. r.used <= Capacity /\ (r.at \in {"drop", "backup", "wait", "bill"} => r.used + r.mb <= Capacity)
  BY <1>1, <1>3
<1> HIDE DEF r
<1> QED BY <1>2, <1>3, <1>4, <1>5, HandlerStep

(* Without a change of the megabytes. *)
LEMMA GotoStep ==
    ASSUME QuotaInv, NEW w \in Workers, req[w].at # "idle", NEW s \in Stage, Goto(w, s),
           s \in {"drop", "backup", "wait", "bill"} => req[w].used + req[w].mb <= Capacity,
           snap' \in [Vmids -> File \cup {NoFile}], drive' \in [Vmids -> Drive],
           UNCHANGED <<stored, overlay>>
    PROVE  QuotaInv'
<1>1. req \in [Workers -> Request]
  BY DEF QuotaInv, TypeOK
<1>2. req[w] \in [at : Stage, vm : Vmids, used : Nat, mb : Nat]
  BY <1>1, RequestFields
<1>3. [req[w] EXCEPT !.at = s] = [req[w] EXCEPT !.at = s, !.mb = req[w].mb]
  BY <1>2
<1>4. req' = [req EXCEPT ![w].at = s, ![w].mb = req[w].mb]
  BY <1>1, <1>3 DEF Goto
<1>5. req[w].mb \in Nat
  BY <1>2
<1> QED BY <1>4, <1>5, AdvanceStep

LEMMA StepQuotaInv == QuotaInv /\ [Next]_vars => QuotaInv'
<1> SUFFICES ASSUME QuotaInv, [Next]_vars PROVE QuotaInv'
  OBVIOUS
<1>1. TypeOK /\ Allowed /\ stored <= Capacity /\ Capacity \in Nat
  BY QuotaAssumption DEF QuotaInv, StoredWithinCapacity
<1>2. ASSUME NEW w \in Workers, req[w].at # "idle"
      PROVE  /\ req[w].vm \in Vmids /\ req[w].used \in Nat /\ req[w].mb \in Nat
             /\ req[w].used <= Capacity
             /\ req[w].at \in {"drop", "backup", "wait", "bill"} =>
                  req[w].used + req[w].mb <= Capacity
  <2>1. req[w] \in Request
    BY <1>1 DEF TypeOK
  <2>2. req[w] \in [at : Stage, vm : Vmids, used : Nat, mb : Nat]
    BY <1>2, <2>1, RequestFields
  <2> QED BY <1>1, <2>2 DEF Allowed
<1>3. ASSUME NEW v \in Vmids PROVE Unlinked(v) \in [Vmids -> Drive]
  BY <1>1 DEF Unlinked, Drive, TypeOK
<1>4. ASSUME NEW w \in Workers, NEW v \in Vmids, Snapshot(w, v) \/ Remove(w, v)
      PROVE  QuotaInv'
  <2>1. PICK s \in {"charge", "unlink"} :
           req' = [req EXCEPT ![w] = [at |-> s, vm |-> v, used |-> stored, mb |-> 0]]
    BY <1>4 DEF Snapshot, Remove
  <2> DEFINE r == [at |-> s, vm |-> v, used |-> stored, mb |-> 0]
  <2>2. r \in Request /\ r.used = stored /\ r.at = s
    BY <1>1 DEF TypeOK, Request, Stage
  <2>3. UNCHANGED <<stored, snap, vms>>
    BY <1>4 DEF Snapshot, Remove
  <2> HIDE DEF r
  <2> QED BY <1>1, <2>1, <2>2, <2>3, HandlerStep DEF TypeOK, vms, r
<1>5. ASSUME NEW w \in Workers, Charge(w) PROVE QuotaInv'
  <2> DEFINE n == ToCharge(req[w].vm)
  <2>1. Chargeable(req[w].vm) => n \in Nat
    <3> DEFINE v == req[w].vm
               bytes == IF overlay[v] # NoFile THEN Base + AllocBytes(overlay[v]) ELSE AllocBytes(snap[v])
    <3>1. HAVE Chargeable(v)
    <3>2. /\ overlay[v] # NoFile => overlay[v] \in File
          /\ overlay[v] = NoFile => snap[v] \in File
      BY <1>1, <1>2, <1>5, <3>1 DEF Charge, TypeOK, Chargeable
    <3>3. bytes \in Nat
      BY <3>2, FileMb, QuotaAssumption
    <3> HIDE DEF bytes
    <3>4. ToMb(bytes) \in Nat
      BY <3>3, ToMbNat
    <3> QED BY <3>4 DEF ToCharge, bytes
  <2>5. "drop" \in Stage
    BY DEF Stage
  <2>2. UNCHANGED <<stored, snap, vms>>
    BY <1>5 DEF Charge
  <2>3. CASE Answer(w)
    BY <1>1, <2>2, <2>3, AnswerStep DEF TypeOK, vms
  <2>4. CASE ~Answer(w)
    <3>1. /\ Chargeable(req[w].vm) /\ req[w].used + n <= Capacity
          /\ req' = [req EXCEPT ![w].at = "drop", ![w].mb = n]
      BY <1>5, <2>4 DEF Charge
    <3> HIDE DEF n
    <3> QED BY <1>1, <1>5, <2>1, <2>2, <2>5, <3>1, AdvanceStep DEF TypeOK, vms, Charge
  <2> QED BY <2>3, <2>4
<1>6. ASSUME NEW w \in Workers, DropOld(w) \/ Unlink(w) PROVE QuotaInv'
  <2> DEFINE v == req[w].vm
  <2>1. /\ v \in Vmids /\ snap[v] \in File \cup {NoFile}
        /\ {"backup", "refund"} \subseteq Stage
    BY <1>1, <1>2, <1>6 DEF DropOld, Unlink, TypeOK, Stage
  <2>2. /\ snap' \in [Vmids -> File \cup {NoFile}] /\ drive' \in [Vmids -> Drive]
        /\ UNCHANGED <<stored, overlay>>
    BY <1>1, <1>3, <1>6, <2>1 DEF DropOld, Unlink, TypeOK
  <2>3. CASE Answer(w)
    BY <1>1, <2>2, <2>3, AnswerStep DEF TypeOK
  <2>4. CASE DropOld(w) /\ Goto(w, "backup")
    BY <1>1, <1>2, <2>1, <2>2, <2>4, GotoStep DEF DropOld
  <2>5. CASE /\ Unlink(w) /\ snap[v] # NoFile
             /\ req' = [req EXCEPT ![w].at = "refund", ![w].mb = ToMb(snap[v].long)]
    <3>1. ToMb(snap[v].long) \in Nat
      BY <2>1, <2>5, FileMb
    <3>2. req[w].at # "idle"
      BY <2>5 DEF Unlink
    <3> DEFINE n == ToMb(snap[v].long)
    <3>3. n \in Nat /\ req' = [req EXCEPT ![w].at = "refund", ![w].mb = n]
      BY <2>5, <3>1
    <3> HIDE DEF n, v
    <3> QED BY <2>1, <2>2, <3>2, <3>3, AdvanceStep
  <2> QED BY <1>6, <2>3, <2>4, <2>5 DEF DropOld, Unlink
<1>7. ASSUME NEW w \in Workers, StartBackup(w) PROVE QuotaInv'
  <2>1. req[w].vm \in Vmids /\ "wait" \in Stage /\ UNCHANGED <<stored, vms>>
    BY <1>2, <1>7 DEF StartBackup, Stage
  <2>2. snap' \in [Vmids -> File \cup {NoFile}]
    BY <1>1, <1>7, <2>1 DEF StartBackup, TypeOK
  <2>3. drive' \in [Vmids -> Drive] /\ UNCHANGED <<stored, overlay>>
    BY <1>1, <2>1 DEF TypeOK, vms
  <2>4. req[w].at # "idle" /\ Goto(w, "wait")
    BY <1>7 DEF StartBackup
  <2>5. req[w].used + req[w].mb <= Capacity
    BY <1>2, <1>7 DEF StartBackup
  <2> QED BY <2>1, <2>2, <2>3, <2>4, <2>5, GotoStep
<1>8. ASSUME NEW w \in Workers, EndBackup(w) PROVE QuotaInv'
  <2>1. "bill" \in Stage /\ UNCHANGED <<stored, snap, vms>>
    BY <1>8 DEF EndBackup, Stage
  <2>2. CASE Answer(w)
    BY <1>1, <2>1, <2>2, AnswerStep DEF TypeOK, vms
  <2>3. CASE Goto(w, "bill")
    BY <1>1, <1>2, <1>8, <2>1, <2>3, GotoStep DEF EndBackup, TypeOK, vms
  <2> QED BY <1>8, <2>2, <2>3 DEF EndBackup
<1>9. ASSUME NEW w \in Workers, StartBackupFails(w) \/ EndBackupFails(w) PROVE QuotaInv'
  BY <1>1, <1>9, AnswerStep DEF StartBackupFails, EndBackupFails, TypeOK, vms
<1>10. ASSUME NEW w \in Workers, Bill(w) PROVE QuotaInv'
  <2>1. /\ stored' \in {req[w].used + req[w].mb, stored}
        /\ Answer(w) /\ UNCHANGED <<snap, vms>>
    BY <1>10 DEF Bill, Commit
  <2>2. stored' \in Nat /\ stored' <= Capacity
    BY <1>1, <1>2, <1>10, <2>1 DEF Bill, TypeOK
  <2> QED BY <1>1, <2>1, <2>2, AnswerStep DEF TypeOK, vms
<1>11. ASSUME NEW w \in Workers, Refund(w) PROVE QuotaInv'
  <2>1. Answer(w) /\ UNCHANGED <<snap, vms>>
    BY <1>11 DEF Refund
  <2>2. req[w].used \in Nat /\ req[w].mb \in Nat /\ req[w].used <= Capacity
    BY <1>2, <1>11 DEF Refund
  <2>3. \/ stored' \in {0, stored}
        \/ req[w].used >= req[w].mb /\ stored' = req[w].used - req[w].mb
    BY <1>11 DEF Refund, Commit
  <2>4. stored' \in Nat /\ stored' <= Capacity
    BY <1>1, <2>2, <2>3 DEF TypeOK
  <2> QED BY <1>1, <2>1, <2>4, AnswerStep DEF TypeOK, vms
<1>12. ASSUME NEW v \in Vmids, Launch(v) \/ RunSnapshot(v) \/ Stops(v) \/ Writes(v)
       PROVE  QuotaInv'
  <2>1. UNCHANGED <<stored, req>>
    BY <1>12 DEF Launch, RunSnapshot, Stops, Writes
  <2>2. TypeOK'
    <3>1. CASE Launch(v)
      BY <1>1, <3>1, QuotaAssumption DEF Launch, TypeOK, Drive
    <3>2. CASE RunSnapshot(v)
      BY <1>1, <3>2 DEF RunSnapshot, TypeOK, Drive
    <3>3. CASE Stops(v)
      BY <1>1, <3>3 DEF Stops, TypeOK, Drive
    <3>4. CASE Writes(v)
      BY <1>1, <3>4 DEF Writes, TypeOK
    <3> QED BY <1>12, <3>1, <3>2, <3>3, <3>4
  <2> QED BY <1>1, <2>1, <2>2 DEF QuotaInv, Allowed, StoredWithinCapacity
<1>13. CASE UNCHANGED vars
  BY <1>1, <1>13 DEF vars, vms, QuotaInv, TypeOK, Allowed, StoredWithinCapacity
<1> QED
  BY <1>4, <1>5, <1>6, <1>7, <1>8, <1>9, <1>10, <1>11, <1>12, <1>13 DEF Next, Handler

(* The CHECK constraint on the users table never fails: whatever interleaves *)
(* with the read, the backup and the write of a request, the row it writes   *)
(* is between zero and the capacity.                                         *)
THEOREM QuotaRowInBounds == Spec => [](TypeOK /\ StoredWithinCapacity)
<1>1. QuotaInv => TypeOK /\ StoredWithinCapacity
  BY DEF QuotaInv
<1> QED BY <1>1, InitQuotaInv, StepQuotaInv, PTL DEF Spec
=============================================================================
