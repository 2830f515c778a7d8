----------------------------- MODULE ProfilePage -----------------------------
(***************************************************************************)
(* static/scripts/profile.js: sections chosen by the hash and the role,    *)
(* and tables that are emptied when a request is sent and filled when its  *)
(* answer comes, whatever other requests are under way.                    *)
(***************************************************************************)
EXTENDS Integers, FiniteSets

CONSTANTS Snapshots,   \* names of snapshots
          MaxRequests  \* bound: requests of tables and of rows that a page sends

VARIABLES
    role,    \* the user's role, at the server
    me,      \* CURRENT_USER.role, "unasked" while /auth/me has not answered (it counts as "user")
    hash,    \* location.hash
    events,  \* a hashchange event is under way
    shown,   \* the sections that are not hidden
    lists,   \* the tables, see ListInit
    rows,    \* requests of buttons in rows: the row, what is asked, and what became of it
    server,  \* the snapshots there are
    removed  \* ... and those whose removal was confirmed

pvars == <<role, me, hash, events, shown, lists, rows, server, removed>>

Routes == {"overview", "payments", "snapshots"}
Lists  == {"snapshots", "metrics"}

\* started: requests so far; waiting: those without an answer, and the rows the server
\* gave; tables: what is shown, by the number of the request; failed: requests that failed.
ListInit == [started |-> 0, waiting |-> {}, tables |-> {}, failed |-> {}]

\* fetchSnapshots and fetchAppMetrics begin alike (and so does the form of Prometheus).
Fetch(ls, l) ==
    LET n == ls[l].started + 1 IN
    [ls EXCEPT ![l] = [ls[l] EXCEPT !.started = n, !.tables = {},
                                    !.waiting = @ \cup {[n |-> n, served |-> FALSE, rows |-> {}]}]]

\* Faulty variant: the overview is not kept from users.
ShowRouteOpen(route, r) ==
    /\ shown' = {route} /\ hash' = hash
    /\ lists' = CASE route = "snapshots" -> Fetch(lists, "snapshots")
                  [] route = "overview"  -> Fetch(lists, "metrics")
                  [] OTHER               -> lists

\* showRoute; a user who asks for the overview gets the payments, in the hash too.
ShowRoute(route, r) ==
    LET kept == route = "overview" /\ r # "admin"
        to   == IF kept THEN "payments" ELSE route
    IN /\ shown' = {to}
       /\ hash' = IF kept THEN "payments" ELSE hash
       /\ lists' = CASE to = "snapshots" -> Fetch(lists, "snapshots")
                     [] to = "overview"  -> Fetch(lists, "metrics")
                     [] OTHER            -> lists

Route(h) == IF h \in Routes THEN h ELSE "overview"

InitialRoute(r) ==
    ShowRoute(IF Route(hash) = "overview" /\ r # "admin" THEN "payments" ELSE Route(hash), r)

\* The user follows a link; the event comes later.
Follow(h) ==
    /\ hash # h /\ hash' = h /\ events' = TRUE
    /\ UNCHANGED <<role, me, shown, lists, rows, server, removed>>

HashChanged ==
    /\ events /\ events' = FALSE
    /\ ShowRoute(Route(hash), me)
    /\ UNCHANGED <<role, me, rows, server, removed>>

\* fetchMe and the rest of boot; without a good answer the user is a plain one.
Boot(ok) ==
    /\ me = "unasked"
    /\ me' = IF ok THEN role ELSE "user"
    /\ InitialRoute(me')
    /\ UNCHANGED <<role, events, rows, server, removed>>

\* The refresh buttons, the tab of the metrics and the form.
Refresh(l) ==
    /\ lists' = Fetch(lists, l)
    /\ UNCHANGED <<role, me, hash, events, shown, rows, server, removed>>

\* An answer in JSON that has no list, as an error has none, is shown as a table without rows.
Serve(l, w) ==
    /\ w \in lists[l].waiting /\ ~w.served
    /\ \E got \in (IF l = "snapshots" THEN {server, {}} ELSE {{}}) :
          lists' = [lists EXCEPT ![l].waiting = (@ \ {w}) \cup {[w EXCEPT !.served = TRUE, !.rows = got]}]
    /\ UNCHANGED <<role, me, hash, events, shown, rows, server, removed>>

\* An answer is appended to what is shown, whichever request it answers.
Arrives(l, w) ==
    /\ w \in lists[l].waiting /\ w.served
    /\ lists' = [lists EXCEPT ![l] = [lists[l] EXCEPT !.waiting = @ \ {w},
                                                      !.tables = @ \cup {[n |-> w.n, rows |-> w.rows]}]]
    /\ UNCHANGED <<role, me, hash, events, shown, rows, server, removed>>

\* No answer, or one that is not in JSON; for the metrics also one that is no success.
Fails(l, w) ==
    /\ w \in lists[l].waiting
    /\ lists' = [lists EXCEPT ![l] = [lists[l] EXCEPT !.waiting = @ \ {w}, !.failed = @ \cup {w.n}]]
    /\ UNCHANGED <<role, me, hash, events, shown, rows, server, removed>>

\* deleteSnapshot and runSnapshot disable their own button, in their own table, and ask.
RowClicked(t, s, what) ==
    /\ t \in lists["snapshots"].tables /\ s \in t.rows
    /\ \A r \in rows : ~(r.n = t.n /\ r.snapshot = s /\ r.what = what)
    /\ rows' = rows \cup {[n |-> t.n, snapshot |-> s, what |-> what, got |-> "none"]}
    /\ UNCHANGED <<role, me, hash, events, shown, lists, server, removed>>

RowServed(r) ==
    /\ r \in rows /\ r.got = "none"
    /\ rows' = (rows \ {r}) \cup {[r EXCEPT !.got = IF r.snapshot \in server THEN "ok" ELSE "error"]}
    /\ server' = IF r.what = "delete" THEN server \ {r.snapshot} ELSE server
    /\ UNCHANGED <<role, me, hash, events, shown, lists, removed>>

\* Faulty variant: the table is left as it is after a removal.
DeletedUnrefreshed(r) ==
    /\ r \in rows /\ r.what = "delete"
    /\ \/ r.got = "ok" /\ removed' = removed \cup {r.snapshot}
       \/ UNCHANGED removed
    /\ rows' = rows \ {r}
    /\ UNCHANGED <<role, me, hash, events, shown, server, lists>>

\* The answer to a removal, or none: the button is enabled again.
Deleted(r) ==
    /\ r \in rows /\ r.what = "delete"
    /\ \/ r.got = "ok" /\ removed' = removed \cup {r.snapshot} /\ lists' = Fetch(lists, "snapshots")
       \/ UNCHANGED <<removed, lists>>
    /\ rows' = rows \ {r}
    /\ UNCHANGED <<role, me, hash, events, shown, server>>

\* The answer to a launch that gives no address to go to.
RunFailed(r) ==
    /\ r \in rows /\ r.what = "run"
    /\ rows' = rows \ {r}
    /\ UNCHANGED <<role, me, hash, events, shown, lists, server, removed>>

\* The profile is opened, with a hash or without.
PInit ==
    /\ me = "unasked" /\ hash \in Routes \cup {""} /\ events = FALSE /\ shown = {}
    /\ lists = [l \in Lists |-> ListInit] /\ rows = {}
    /\ server = Snapshots /\ removed = {}

Sent == lists["snapshots"].started + lists["metrics"].started

PNext ==
    /\ \/ \E h \in Routes \cup {""} : Follow(h)
       \/ HashChanged
       \/ \E ok \in BOOLEAN : Boot(ok)
       \/ \E l \in Lists :
            \/ Refresh(l)
            \/ \E w \in lists[l].waiting : Serve(l, w) \/ Arrives(l, w) \/ Fails(l, w)
       \/ \E t \in lists["snapshots"].tables, s \in Snapshots, what \in {"delete", "run"} : RowClicked(t, s, what)
       \/ \E r \in rows : RowServed(r) \/ Deleted(r) \/ RunFailed(r)
    /\ Sent' + Cardinality(rows') <= MaxRequests
-----------------------------------------------------------------------------
\* Once /auth/me has answered and no hashchange is under way, exactly the section of
\* the hash is shown; the overview is never shown to one who is not an administrator,
\* though sections are shown before the role is known (profile.js "Gate Overview").
RouteShown ==
    /\ me # "unasked" /\ ~events =>
          shown = {IF Route(hash) = "overview" /\ me # "admin" THEN "payments" ELSE Route(hash)}
    /\ "overview" \in shown => role = "admin"

\* A table that shows a snapshot whose removal was confirmed is the late answer of an
\* earlier request, never that of the last one; and when no request is under way, the
\* answer of the last one is among what is shown, if it came, although earlier ones may
\* have come after it (profile.js fetchSnapshots, "refresh table").
ListsCurrent ==
    \A l \in Lists :
        /\ \A t \in lists[l].tables :
              t.n <= lists[l].started /\ (t.rows \cap removed # {} => t.n < lists[l].started)
        /\ lists[l].waiting = {} /\ lists[l].started \notin {0} \cup lists[l].failed =>
              \E t \in lists[l].tables : t.n = lists[l].started

\* What the comment "refresh table" after a removal (profile.js deleteSnapshot) says: once
\* every answer has come, no snapshot that was removed is shown.  The code breaks it: an
\* earlier request's answer is appended below the new table, with the row that is gone.
RefreshedAfterRemoval ==
    lists["snapshots"].waiting = {} /\ lists["snapshots"].started \notin lists["snapshots"].failed =>
        \A t \in lists["snapshots"].tables : t.rows \cap removed = {}
=============================================================================
