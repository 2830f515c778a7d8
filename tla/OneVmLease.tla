----------------------------- MODULE OneVmLease -----------------------------
(***************************************************************************)
(* What the launch and cleanup machinery promises a user, with none of its *)
(* threads, files or keys: a launch gets to run when its owner has nothing *)
(* running, runs once, and ends for good.                                  *)
(***************************************************************************)
CONSTANTS Users, Launches, Owner

VARIABLES
    running,   \* the launches whose VM is at work
    ended      \* the launches whose VM was told to stop, or stopped

lease == <<running, ended>>

Init == running = {} /\ ended = {}

Start(l) ==
    /\ l \notin running \cup ended
    /\ \A k \in running : Owner[k] # Owner[l]
    /\ running' = running \cup {l}
    /\ UNCHANGED ended

End(stopped) ==
    /\ running' = running \ stopped
    /\ ended' = ended \cup stopped

Next ==
    \/ \E l \in Launches : Start(l)
    \/ \E stopped \in SUBSET running : End(stopped)

Spec == Init /\ [][Next]_lease
=============================================================================
