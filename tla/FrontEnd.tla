------------------------------ MODULE FrontEnd ------------------------------
(***************************************************************************)
(* The documents of the site and the ways between them: a script lives as  *)
(* long as its document, and goes on until the document is really left.    *)
(***************************************************************************)
EXTENDS LandingPage, ProfilePage

VARIABLE
    doc  \* "landing", "profile", "signup" or "console"

vars == <<lvars, pvars, doc>>

Init ==
    /\ \E p \in PerViews : LInit(p)
    /\ role = "user" /\ PInit /\ hash = ""
    /\ doc = "landing"

\* A new document, with scripts that start anew, for a user who may be another one by then.
Load(d) ==
    /\ doc' = d
    /\ \E p \in (IF d = "landing" THEN PerViews ELSE {Total}) : car' = CarInit(p)
    /\ flows' = [f \in Clicks |-> Free] /\ dest' = "none" /\ acts' = 0
    /\ role' \in (IF d = "profile" THEN {"admin", "user"} ELSE {"user"})
    /\ me' = "unasked" /\ hash' \in (IF d = "profile" THEN Routes \cup {""} ELSE {""})
    /\ events' = FALSE /\ shown' = {} /\ lists' = [l \in Lists |-> ListInit] /\ rows' = {}
    /\ server' = Snapshots /\ removed' = {}

Leaves == dest # "none" /\ Load(dest)

\* The profile's logout, and runSnapshot with an address to go to.
LogOut == doc = "profile" /\ dest = "none" /\ dest' = "landing" /\ UNCHANGED <<car, flows, acts, pvars, doc>>
RunAnswered(r) ==
    /\ doc = "profile" /\ r \in rows /\ r.what = "run" /\ r.got = "ok"
    /\ rows' = rows \ {r} /\ dest' = "console"
    /\ UNCHANGED <<car, flows, acts, role, me, hash, events, shown, lists, server, removed, doc>>

\* signup.js goes to the landing page after a login or a registration; so does the console in the end.
SignedIn == doc \in {"signup", "console"} /\ Load("landing")

Next ==
    \/ doc = "landing" /\ (CarouselNext \/ LaunchNext) /\ UNCHANGED <<pvars, doc>>
    \/ doc = "profile" /\ PNext /\ UNCHANGED <<lvars, doc>>
    \/ \E r \in rows : RunAnswered(r)
    \/ LogOut \/ Leaves \/ SignedIn

Spec == Init /\ [][Next]_vars
=============================================================================
