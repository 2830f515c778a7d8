---------------------------- MODULE SessionStore ----------------------------
(***************************************************************************)
(* The Redis-backed SessionStore of app/methods/manager/SessionManager.py: *)
(* its five groups of keys and the operations the program performs on      *)
(* them.  Each operator below that changes the keys is one command or one  *)
(* MULTI/EXEC pipeline, which Redis applies without interruption.          *)
(*                                                                         *)
(* The payload a handler stores under vm:{vmid} is abstracted to the       *)
(* launch that built it: Owner, Os and the launch itself stand for the     *)
(* fields user_id, os_type and pid (a launch starts one QEMU process, so   *)
(* the launch names its pid).                                              *)
(***************************************************************************)
EXTENDS Naturals, FiniteSets

CONSTANTS
    Users,      \* user ids
    Vmids,      \* VM ids
    OsTypes,    \* keys of VM_PROFILES
    Launches,   \* launches: each one builds one payload, with a pid of its own
    Owner,      \* [Launches -> Users], field user_id of the payload
    Os,         \* [Launches -> OsTypes], field os_type of the payload
    Window,     \* how many entries of user:{uid}:vms get_running_by_user reads
    NoSession,  \* HGETALL found no hash
    Ghost,      \* a hash that holds last_seen only: no user_id, os_type or pid
    NoVmid      \* no value under vm:by_pid:{pid}

ASSUME StoreAssumption ==
    /\ Owner \in [Launches -> Users]
    /\ Os \in [Launches -> OsTypes]
    /\ Window \in Nat \ {0}
    /\ NoSession \notin Launches /\ Ghost \notin Launches
    /\ NoSession # Ghost

VARIABLES
    vm,         \* vm:{vmid}         hash  -> NoSession, Ghost or a payload
    active,     \* vms:active        set of vmids
    userVms,    \* user:{uid}:vms    sorted set: vmid -> score, 0 when absent
    byOs,       \* vms:by_os:{os}    set of vmids
    byPid,      \* vm:by_pid:{pid}   string -> vmid
    clock       \* the latest now_ms() used as a score

store == <<vm, active, userVms, byOs, byPid, clock>>

StoreTypeOK ==
    /\ vm \in [Vmids -> Launches \cup {NoSession, Ghost}]
    /\ active \subseteq Vmids
    /\ userVms \in [Users -> [Vmids -> Nat]]
    /\ byOs \in [OsTypes -> SUBSET Vmids]
    /\ byPid \in [Launches -> Vmids \cup {NoVmid}]
    /\ clock \in Nat

StoreInit ==
    /\ vm = [v \in Vmids |-> NoSession]
    /\ active = {}
    /\ userVms = [u \in Users |-> [v \in Vmids |-> 0]]
    /\ byOs = [o \in OsTypes |-> {}]
    /\ byPid = [l \in Launches |-> NoVmid]
    /\ clock = 0

-----------------------------------------------------------------------------
(* Faulty variants of set: the sorted set of the user is left out, and a     *)
(* hash that is already there is taken for an indexed session.               *)
StoreSetNoUser(v, l) ==
    /\ vm' = [vm EXCEPT ![v] = l]
    /\ active' = active \cup {v}
    /\ byOs' = [byOs EXCEPT ![Os[l]] = @ \cup {v}]
    /\ byPid' = [byPid EXCEPT ![l] = v]
    /\ UNCHANGED <<userVms, clock>>

StoreSetOverwrites(v, l) ==
    /\ vm' = [vm EXCEPT ![v] = l]
    /\ clock' = clock + 1
    /\ byPid' = [byPid EXCEPT ![l] = v]
    /\ IF vm[v] = NoSession
         THEN /\ active' = active \cup {v}
              /\ userVms' = [userVms EXCEPT ![Owner[l]] = [@ EXCEPT ![v] = clock + 1]]
              /\ byOs' = [byOs EXCEPT ![Os[l]] = @ \cup {v}]
         ELSE UNCHANGED <<active, userVms, byOs>>

(* set(vmid, payload): the hash and every index in one pipeline.  No caller *)
(* passes created_at, so the score is the time of the call; the clock is    *)
(* taken to advance between two calls.                                      *)
StoreSet(v, l) ==
    /\ vm' = [vm EXCEPT ![v] = l]
    /\ active' = active \cup {v}
    /\ userVms' = [userVms EXCEPT ![Owner[l]] = [@ EXCEPT ![v] = clock + 1]]
    /\ byOs' = [byOs EXCEPT ![Os[l]] = @ \cup {v}]
    /\ byPid' = [byPid EXCEPT ![l] = v]
    /\ clock' = clock + 1

(* Faulty variant: update puts the vmid back among the active ones. *)
StoreUpdateActive(v) ==
    /\ vm' = [vm EXCEPT ![v] = IF @ = NoSession THEN Ghost ELSE @]
    /\ active' = active \cup {v}
    /\ UNCHANGED <<userVms, byOs, byPid, clock>>

(* update(vmid, last_seen=...): one HSET, which creates the hash when there *)
(* is none and leaves every index alone.                                    *)
StoreUpdate(v) ==
    /\ vm' = [vm EXCEPT ![v] = IF @ = NoSession THEN Ghost ELSE @]
    /\ UNCHANGED <<active, userVms, byOs, byPid, clock>>

(* Faulty variant: delete forgets the sorted set of the user. *)
StoreDeleteKeepsUser(v, d) ==
    /\ vm' = [vm EXCEPT ![v] = NoSession]
    /\ active' = active \ {v}
    /\ IF d \in Launches
         THEN /\ byOs' = [byOs EXCEPT ![Os[d]] = @ \ {v}]
              /\ byPid' = [byPid EXCEPT ![d] = NoVmid]
         ELSE UNCHANGED <<byOs, byPid>>
    /\ UNCHANGED <<userVms, clock>>

(* The pipeline of delete(vmid), given the hash d that delete read before   *)
(* it: the indices it clears are those d names, whatever the hash holds by  *)
(* the time the pipeline runs.                                              *)
StoreDelete(v, d) ==
    /\ vm' = [vm EXCEPT ![v] = NoSession]
    /\ active' = active \ {v}
    /\ IF d \in Launches
         THEN /\ userVms' = [userVms EXCEPT ![Owner[d]] = [@ EXCEPT ![v] = 0]]
              /\ byOs' = [byOs EXCEPT ![Os[d]] = @ \ {v}]
              /\ byPid' = [byPid EXCEPT ![d] = NoVmid]
         ELSE UNCHANGED <<userVms, byOs, byPid>>
    /\ UNCHANGED clock

-----------------------------------------------------------------------------
(* zrevrange(user:{uid}:vms, 0, Window - 1): the newest entries of u. *)
Newest(u) ==
    {v \in Vmids :
        /\ userVms[u][v] > 0
        /\ Cardinality({w \in Vmids : userVms[u][w] > userVms[u][v]}) < Window}

(* The entries of that window whose hash is not empty, a ghost included. *)
Running(u) == {v \in Newest(u) : vm[v] # NoSession}

(* get_running_by_user(u) is the newest of them, or None. *)
IsRunningByUser(u, v) ==
    /\ v \in Running(u)
    /\ \A w \in Running(u) : userVms[u][w] <= userVms[u][v]

(* items(): the active vmids whose hash is not empty. *)
Items == {v \in active : vm[v] # NoSession}

-----------------------------------------------------------------------------
(* Every stored session is reachable through every index it should be in:   *)
(* /api/sessions/active and the shutdown cleanup find it in vms:active, and *)
(* logout finds it through the sorted set of the user who owns it.  The     *)
(* readers and the deleters use these keys in separate round trips, and     *)
(* overlapping deletes of one vmid act on hashes they read earlier.         *)
SessionIndexed ==
    \A v \in Vmids : vm[v] \in Launches =>
        /\ v \in active
        /\ userVms[Owner[vm[v]]][v] > 0
        /\ v \in byOs[Os[vm[v]]]
        /\ byPid[vm[v]] = v

(* Conversely vms:active never lists a VM whose hash is gone or is a ghost. *)
ActiveHasSession == \A v \in active : vm[v] \in Launches
=============================================================================
