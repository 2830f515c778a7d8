--------------------------- MODULE FrontEndProofs ---------------------------
(* Theorems about the pages, for every number of slides, clicks, requests    *)
(* and snapshots: the sections of the profile, the tables whose answers come *)
(* in any order, the carousel, and the copies of the own image's button.     *)
EXTENDS FrontEnd, TLAPS, SequenceTheorems

-----------------------------------------------------------------------------
(* Which part of the state a step belongs to. *)

LEMMA PageFrame ==
    ASSUME [Next]_vars
    PROVE  \/ (CarouselNext \/ LaunchNext) /\ UNCHANGED pvars
           \/ PNext /\ UNCHANGED lvars
           \/ UNCHANGED <<car, flows, pvars>>
           \/ (\E r \in rows : RunAnswered(r))
           \/ (\E d : Load(d))
<1>1. CASE LogOut
  BY <1>1 DEF LogOut
<1>2. CASE Leaves \/ SignedIn
  BY <1>2 DEF Leaves, SignedIn
<1>3. CASE UNCHANGED vars
  BY <1>3 DEF vars, lvars
<1> QED BY <1>1, <1>2, <1>3 DEF Next

-----------------------------------------------------------------------------
(* The sections of the profile.                                              *)

RouteInv == RouteShown /\ (me = "admin" => role = "admin") /\ role \in {"admin", "user"}

LEMMA ShowRouteShown ==
    ASSUME NEW route \in Routes, NEW r, r = "admin" => role = "admin", ShowRoute(route, r), UNCHANGED role
    PROVE  /\ "overview" \in shown' => role' = "admin"
           /\ route = Route(hash) => shown' = {IF Route(hash') = "overview" /\ r # "admin" THEN "payments" ELSE Route(hash')}
           /\ route # "overview" => shown' = {route} /\ hash' = hash
BY DEF ShowRoute, Route, Routes

LEMMA RouteStep ==
    ASSUME RouteInv, [Next]_vars
    PROVE  RouteInv'
<1>0. Route(hash) \in Routes
  BY DEF Route, Routes
<1>1. CASE UNCHANGED <<role, me, hash, events, shown>>
  BY <1>1 DEF RouteInv, RouteShown, Route
<1>2. ASSUME NEW d, Load(d) PROVE RouteInv'
  BY <1>2 DEF Load, RouteInv, RouteShown
<1>3. CASE PNext
  <2>1. ASSUME NEW k \in Routes \cup {""}, Follow(k) PROVE RouteInv'
    BY <2>1 DEF Follow, RouteInv, RouteShown
  <2>2. CASE HashChanged
    <3>1. ShowRoute(Route(hash), me) /\ UNCHANGED <<role, me>>
      BY <2>2 DEF HashChanged
    <3>2. /\ "overview" \in shown' => role' = "admin"
          /\ shown' = {IF Route(hash') = "overview" /\ me # "admin" THEN "payments" ELSE Route(hash')}
      BY <1>0, <3>1, ShowRouteShown DEF RouteInv
    <3> QED BY <3>1, <3>2 DEF RouteInv, RouteShown, Route
  <2>3. ASSUME NEW ok \in BOOLEAN, Boot(ok) PROVE RouteInv'
    <3>1. me' = (IF ok THEN role ELSE "user") /\ InitialRoute(me') /\ UNCHANGED role
      BY <2>3 DEF Boot
    <3>2. me' = "admin" => role = "admin"
      BY <3>1
    <3>3. CASE Route(hash) = "overview" /\ me' # "admin"
      <4>1. ShowRoute("payments", me')
        BY <3>1, <3>3 DEF InitialRoute
      <4>2. "payments" \in Routes /\ "payments" # "overview"
        BY DEF Routes
      <4>3. shown' = {"payments"} /\ hash' = hash
        BY <3>1, <3>2, <4>1, <4>2, ShowRouteShown
      <4> QED BY <3>1, <3>2, <3>3, <4>3 DEF RouteInv, RouteShown, Route
    <3>4. CASE ~(Route(hash) = "overview" /\ me' # "admin")
      <4>1. ShowRoute(Route(hash), me')
        BY <3>1, <3>4 DEF InitialRoute
      <4>2. /\ "overview" \in shown' => role' = "admin"
            /\ shown' = {IF Route(hash') = "overview" /\ me' # "admin" THEN "payments" ELSE Route(hash')}
        BY <1>0, <3>1, <3>2, <4>1, ShowRouteShown
      <4> QED BY <3>1, <3>2, <4>2 DEF RouteInv, RouteShown, Route
    <3> QED BY <3>3, <3>4
  <2>4. ASSUME NEW l \in Lists,
               Refresh(l) \/ \E w \in lists[l].waiting : Serve(l, w) \/ Arrives(l, w) \/ Fails(l, w)
        PROVE  RouteInv'
    BY <1>1, <2>4 DEF Refresh, Serve, Arrives, Fails
  <2>5. ASSUME \/ \E t \in lists["snapshots"].tables, s \in Snapshots, what \in {"delete", "run"} : RowClicked(t, s, what)
               \/ \E r \in rows : RowServed(r) \/ Deleted(r) \/ RunFailed(r)
        PROVE  RouteInv'
    BY <1>1, <2>5 DEF RowClicked, RowServed, Deleted, RunFailed
  <2> QED BY <1>3, <2>1, <2>2, <2>3, <2>4, <2>5 DEF PNext
<1>4. ASSUME NEW r \in rows, RunAnswered(r) PROVE RouteInv'
  BY <1>1, <1>4 DEF RunAnswered
<1> QED BY <1>1, <1>2, <1>3, <1>4, PageFrame DEF pvars

(* The section shown is the one of the hash once the user is known, and      *)
(* the overview is shown to administrators only, at every moment.            *)
THEOREM SectionFollowsRoute == Spec => []RouteShown
<1>1. Init => RouteInv
  BY DEF Init, PInit, RouteInv, RouteShown
<1>2. RouteInv /\ [Next]_vars => RouteInv'
  BY RouteStep
<1>3. RouteInv => RouteShown
  BY DEF RouteInv
<1> QED BY <1>1, <1>2, <1>3, PTL DEF Spec

-----------------------------------------------------------------------------
(* The tables of the profile.                                                *)

Answer == [n: Nat, served: BOOLEAN, rows: SUBSET Snapshots]
Table  == [n: Nat, rows: SUBSET Snapshots]
State  == [started: Nat, waiting: SUBSET Answer, tables: SUBSET Table, failed: SUBSET Nat]
Row    == [n: Nat, snapshot: Snapshots, what: {"delete", "run"}, got: {"none", "ok", "error"}]

\* The last request of a table is waited for, or shown, or failed, and what it brings has no snapshot
\* whose removal was confirmed: a removal starts another request.
Current(x) ==
    /\ x \in State
    /\ \A w \in x.waiting : w.n <= x.started /\ (w.n = x.started => w.rows \cap removed = {})
    /\ \A t \in x.tables : t.n <= x.started /\ (t.n = x.started => t.rows \cap removed = {})
    /\ x.started \notin {0} \cup x.failed =>
          (\E w \in x.waiting : w.n = x.started) \/ (\E t \in x.tables : t.n = x.started)

RowsInv ==
    /\ rows \subseteq Row /\ server \subseteq Snapshots /\ removed \subseteq Snapshots
    /\ server \cap removed = {}
    /\ \A r \in rows : r.what = "delete" /\ r.got = "ok" => r.snapshot \notin server

\* The table of the metrics holds no snapshots.
ListsInv ==
    /\ DOMAIN lists = Lists /\ lists = [l \in Lists |-> lists[l]]
    /\ \A l \in Lists : Current(lists[l])
    /\ \A w \in lists["metrics"].waiting : w.rows = {}
    /\ \A t \in lists["metrics"].tables : t.rows = {}
    /\ RowsInv

\* What there is to show when one table is changed and no removal is confirmed.
LEMMA TableStep ==
    ASSUME ListsInv, NEW l \in Lists, NEW x, lists' = [lists EXCEPT ![l] = x], Current(x),
           l = "metrics" => (\A w \in x.waiting : w.rows = {}) /\ (\A t \in x.tables : t.rows = {}),
           UNCHANGED <<rows, server, removed>>
    PROVE  ListsInv'
<1>1. \A k \in Lists : lists'[k] = IF k = l THEN x ELSE lists[k]
  BY DEF ListsInv
<1>2. DOMAIN lists' = Lists /\ lists' = [k \in Lists |-> lists'[k]]
  BY DEF ListsInv
<1>3. \A k \in Lists : Current(lists'[k])
  BY <1>1 DEF ListsInv
<1>4. \A k \in Lists : Current(lists[k])'
  BY <1>3 DEF Current
<1>5. RowsInv'
  BY DEF ListsInv, RowsInv
<1>6. "metrics" \in Lists
  BY DEF Lists
<1>7. (\A w \in lists'["metrics"].waiting : w.rows = {}) /\ \A t \in lists'["metrics"].tables : t.rows = {}
  BY <1>1, <1>6 DEF ListsInv
<1> QED BY <1>2, <1>4, <1>5, <1>7 DEF ListsInv

\* A request makes what was shown and what is waited for old.
LEMMA FetchCurrent ==
    ASSUME ListsInv, NEW l \in Lists
    PROVE  \E x \in State :
             /\ Fetch(lists, l) = [lists EXCEPT ![l] = x]
             /\ x.started = lists[l].started + 1 /\ x.tables = {}
             /\ x.waiting = lists[l].waiting \cup {[n |-> x.started, served |-> FALSE, rows |-> {}]}
             /\ \A w \in lists[l].waiting : w.n < x.started
<1> DEFINE n == lists[l].started + 1
           q == lists[l].waiting \cup {[n |-> n, served |-> FALSE, rows |-> {}]}
           x == [lists[l] EXCEPT !.started = n, !.tables = {}, !.waiting = q]
<1>1. lists[l] \in State /\ \A w \in lists[l].waiting : w \in Answer /\ w.n <= lists[l].started
  BY DEF ListsInv, Current, State
<1>2. n \in Nat /\ \A w \in lists[l].waiting : w.n < n
  BY <1>1 DEF State, Answer
<1>3. q \subseteq Answer
  <2>1. [n |-> n, served |-> FALSE, rows |-> {}] \in Answer
    BY <1>2 DEF Answer
  <2>2. lists[l].waiting \subseteq Answer
    BY <1>1
  <2> QED BY <2>1, <2>2, Zenon
<1>4. Fetch(lists, l) = [lists EXCEPT ![l] = x]
  BY Zenon DEF Fetch
<1> HIDE DEF q, n
<1>5. x \in State /\ x.started = n /\ x.tables = {} /\ x.waiting = q
  BY <1>1, <1>2, <1>3 DEF State
<1> HIDE DEF x
<1>6. x.started = lists[l].started + 1
  BY <1>5 DEF n
<1>7. x.waiting = lists[l].waiting \cup {[n |-> x.started, served |-> FALSE, rows |-> {}]}
  BY <1>5 DEF q
<1> QED BY <1>2, <1>4, <1>5, <1>6, <1>7

LEMMA FetchStep ==
    ASSUME ListsInv, NEW l \in Lists, lists' = Fetch(lists, l), UNCHANGED <<rows, server, removed>>
    PROVE  ListsInv'
<1>1. PICK x \in State :
             /\ Fetch(lists, l) = [lists EXCEPT ![l] = x]
             /\ x.started = lists[l].started + 1 /\ x.tables = {}
             /\ x.waiting = lists[l].waiting \cup {[n |-> x.started, served |-> FALSE, rows |-> {}]}
             /\ \A w \in lists[l].waiting : w.n < x.started
  BY FetchCurrent
<1> DEFINE new == [n |-> x.started, served |-> FALSE, rows |-> {}]
<1>2. x.started \in Nat /\ \A w \in lists[l].waiting : w.n \in Nat
  BY DEF State, Answer, ListsInv, Current
<1>3. \A w \in x.waiting : w = new \/ (w \in lists[l].waiting /\ w.n < x.started)
  BY <1>1
<1>4. new \in x.waiting /\ new.n = x.started /\ new.rows = {}
  BY <1>1
<1> HIDE DEF new
<1>5. \A w \in x.waiting : w.n <= x.started /\ (w.n = x.started => w.rows \cap removed = {})
  BY <1>2, <1>3, <1>4
<1>6. Current(x)
  BY <1>1, <1>4, <1>5 DEF Current
<1>7. l = "metrics" => (\A w \in x.waiting : w.rows = {}) /\ (\A t \in x.tables : t.rows = {})
  BY <1>1, <1>3, <1>4 DEF ListsInv
<1> QED BY <1>1, <1>6, <1>7, TableStep

LEMMA ShowRouteLists ==
    ASSUME ListsInv, NEW route, NEW r, ShowRoute(route, r), UNCHANGED <<rows, server, removed>>
    PROVE  ListsInv'
<1>1. \/ lists' = Fetch(lists, "snapshots")
      \/ lists' = Fetch(lists, "metrics")
      \/ lists' = lists
  BY DEF ShowRoute
<1>2. "snapshots" \in Lists /\ "metrics" \in Lists
  BY DEF Lists
<1>3. CASE lists' = lists
  BY <1>3 DEF ListsInv, Current, RowsInv
<1> QED BY <1>1, <1>2, <1>3, FetchStep

LEMMA ServeLists ==
    ASSUME ListsInv, NEW l \in Lists, NEW w, Serve(l, w)
    PROVE  ListsInv'
<1>0. PICK got \in (IF l = "snapshots" THEN {server, {}} ELSE {{}}) :
             lists' = [lists EXCEPT ![l].waiting = (@ \ {w}) \cup {[w EXCEPT !.served = TRUE, !.rows = got]}]
  BY DEF Serve
<1> DEFINE v   == [w EXCEPT !.served = TRUE, !.rows = got]
           q   == (lists[l].waiting \ {w}) \cup {v}
           x   == [lists[l] EXCEPT !.waiting = q]
<1>1. w \in lists[l].waiting /\ lists' = [lists EXCEPT ![l] = x] /\ UNCHANGED <<rows, server, removed>>
  BY <1>0 DEF Serve, ListsInv
<1>2. lists[l] \in State /\ w \in Answer /\ Current(lists[l])
  BY <1>1 DEF ListsInv, Current, State
<1>3. got \in SUBSET Snapshots /\ got \cap removed = {} /\ (l = "metrics" => got = {})
  BY DEF ListsInv, RowsInv
<1>4. v \in Answer /\ v.n = w.n /\ v.rows = got
  BY <1>2, <1>3 DEF Answer
<1> HIDE DEF v
<1>5. q \subseteq Answer /\ v \in q /\ \A a \in q : a = v \/ a \in lists[l].waiting
  BY <1>2, <1>4 DEF State
<1>6. \A a \in lists[l].waiting : a = w \/ a \in q
  OBVIOUS
<1> HIDE DEF q
<1>7. /\ x \in State /\ x.waiting = q /\ x.started = lists[l].started
      /\ x.tables = lists[l].tables /\ x.failed = lists[l].failed
  BY <1>2, <1>5 DEF State
<1> HIDE DEF x
<1>8. \A a \in q : a.n <= x.started /\ (a.n = x.started => a.rows \cap removed = {})
  BY <1>1, <1>2, <1>3, <1>4, <1>5, <1>7 DEF Current
<1>9. (\E a \in lists[l].waiting : a.n = x.started) => \E a \in q : a.n = x.started
  BY <1>4, <1>5, <1>6
<1>10. Current(x)
  BY <1>2, <1>7, <1>8, <1>9 DEF Current
<1>11. l = "metrics" => (\A a \in x.waiting : a.rows = {}) /\ (\A t \in x.tables : t.rows = {})
  BY <1>3, <1>4, <1>5, <1>7 DEF ListsInv
<1> QED BY <1>1, <1>10, <1>11, TableStep

LEMMA ArrivesLists ==
    ASSUME ListsInv, NEW l \in Lists, NEW w, Arrives(l, w)
    PROVE  ListsInv'
<1> DEFINE q == lists[l].waiting \ {w}
           b == [n |-> w.n, rows |-> w.rows]
           u == lists[l].tables \cup {b}
           x == [lists[l] EXCEPT !.waiting = q, !.tables = u]
<1>1. w \in lists[l].waiting /\ lists' = [lists EXCEPT ![l] = x] /\ UNCHANGED <<rows, server, removed>>
  BY Zenon DEF Arrives
<1>2. lists[l] \in State /\ w \in Answer /\ Current(lists[l])
  BY <1>1 DEF ListsInv, Current, State
<1>3. b \in Table /\ b.n = w.n /\ b.rows = w.rows
  BY <1>2 DEF Answer, Table
<1> HIDE DEF b
<1>4. u \subseteq Table /\ b \in u /\ lists[l].tables \subseteq u /\ \A t \in u : t = b \/ t \in lists[l].tables
  BY <1>2, <1>3 DEF State
<1>5. q \subseteq Answer /\ q \subseteq lists[l].waiting /\ \A a \in lists[l].waiting : a = w \/ a \in q
  BY <1>2 DEF State
<1> HIDE DEF q, u
<1>6. x \in State /\ x.waiting = q /\ x.started = lists[l].started /\ x.tables = u /\ x.failed = lists[l].failed
  BY <1>2, <1>4, <1>5 DEF State
<1> HIDE DEF x
<1>7. \A a \in q : a.n <= x.started /\ (a.n = x.started => a.rows \cap removed = {})
  BY <1>2, <1>5, <1>6 DEF Current
<1>8. \A t \in u : t.n <= x.started /\ (t.n = x.started => t.rows \cap removed = {})
  BY <1>1, <1>2, <1>3, <1>4, <1>6 DEF Current
<1>9. x.started \notin {0} \cup x.failed => (\E a \in q : a.n = x.started) \/ (\E t \in u : t.n = x.started)
  BY <1>2, <1>3, <1>4, <1>5, <1>6 DEF Current
<1>10. Current(x)
  BY <1>6, <1>7, <1>8, <1>9 DEF Current
<1>11. l = "metrics" => (\A a \in x.waiting : a.rows = {}) /\ (\A t \in x.tables : t.rows = {})
  BY <1>1, <1>3, <1>4, <1>5, <1>6 DEF ListsInv
<1> QED BY <1>1, <1>10, <1>11, TableStep

LEMMA FailsLists ==
    ASSUME ListsInv, NEW l \in Lists, NEW w, Fails(l, w)
    PROVE  ListsInv'
<1> DEFINE q == lists[l].waiting \ {w}
           e == lists[l].failed \cup {w.n}
           x == [lists[l] EXCEPT !.waiting = q, !.failed = e]
<1>1. w \in lists[l].waiting /\ lists' = [lists EXCEPT ![l] = x] /\ UNCHANGED <<rows, server, removed>>
  BY Zenon DEF Fails
<1>2. lists[l] \in State /\ w \in Answer /\ Current(lists[l])
  BY <1>1 DEF ListsInv, Current, State
<1>3. q \subseteq Answer /\ q \subseteq lists[l].waiting /\ \A a \in lists[l].waiting : a = w \/ a \in q
  BY <1>2 DEF State
<1>4. e \subseteq Nat /\ w.n \in e /\ lists[l].failed \subseteq e
  BY <1>2 DEF State, Answer
<1> HIDE DEF q, e
<1>5. x \in State /\ x.waiting = q /\ x.started = lists[l].started /\ x.tables = lists[l].tables /\ x.failed = e
  BY <1>2, <1>3, <1>4 DEF State
<1> HIDE DEF x
<1>6. Current(x)
  BY <1>2, <1>3, <1>4, <1>5 DEF Current
<1>7. l = "metrics" => (\A a \in x.waiting : a.rows = {}) /\ (\A t \in x.tables : t.rows = {})
  BY <1>3, <1>5 DEF ListsInv
<1> QED BY <1>1, <1>6, <1>7, TableStep

LEMMA DeletedLists ==
    ASSUME ListsInv, NEW r \in rows, Deleted(r)
    PROVE  ListsInv'
<1>0. r \in Row /\ rows' \subseteq rows /\ UNCHANGED server
  BY DEF Deleted, ListsInv, RowsInv
<1>1. CASE UNCHANGED <<removed, lists>>
  BY <1>0, <1>1 DEF ListsInv, RowsInv, Current
<1>2. CASE r.got = "ok" /\ removed' = removed \cup {r.snapshot} /\ lists' = Fetch(lists, "snapshots")
  <2>0. "snapshots" \in Lists /\ "metrics" \in Lists /\ \A k \in Lists : k = "snapshots" \/ k = "metrics"
    BY DEF Lists
  <2>1. PICK x \in State :
             /\ Fetch(lists, "snapshots") = [lists EXCEPT !["snapshots"] = x]
             /\ x.started = lists["snapshots"].started + 1 /\ x.tables = {}
             /\ x.waiting = lists["snapshots"].waiting \cup {[n |-> x.started, served |-> FALSE, rows |-> {}]}
             /\ \A w \in lists["snapshots"].waiting : w.n < x.started
    BY <2>0, FetchCurrent
  <2> DEFINE new == [n |-> x.started, served |-> FALSE, rows |-> {}]
  <2>2. RowsInv'
    BY <1>0, <1>2 DEF Deleted, ListsInv, RowsInv, Row
  <2>3. x.started \in Nat /\ \A w \in lists["snapshots"].waiting : w.n \in Nat
    BY <2>0 DEF State, Answer, ListsInv, Current
  <2>4. /\ \A w \in x.waiting : w = new \/ (w \in lists["snapshots"].waiting /\ w.n < x.started)
        /\ new \in x.waiting /\ new.n = x.started /\ new.rows = {}
    BY <2>1
  <2> HIDE DEF new
  <2>5. \A w \in x.waiting : w.n <= x.started /\ (w.n = x.started => w.rows \cap removed' = {})
    BY <2>3, <2>4
  <2>6. lists'["snapshots"] = x /\ lists'["metrics"] = lists["metrics"] /\ DOMAIN lists' = Lists
        /\ lists' = [l \in Lists |-> lists'[l]]
    BY <1>2, <2>0, <2>1 DEF ListsInv
  <2>7. Current(lists["snapshots"])'
    BY <2>1, <2>4, <2>5, <2>6 DEF Current
  <2>8. Current(lists["metrics"])'
    <3>1. Current(lists["metrics"])
      BY <2>0 DEF ListsInv
    <3>2. \A w \in lists["metrics"].waiting : w.rows \cap removed' = {}
      BY DEF ListsInv
    <3>3. \A t \in lists["metrics"].tables : t.rows \cap removed' = {}
      BY DEF ListsInv
    <3> QED BY <2>6, <3>1, <3>2, <3>3 DEF Current
  <2>9. \A l \in Lists : Current(lists[l])'
    BY <2>0, <2>7, <2>8
  <2> QED BY <2>2, <2>6, <2>9 DEF ListsInv
<1> QED BY <1>1, <1>2 DEF Deleted

\* A row can be clicked, and a request served, without any table being changed.
LEMMA RowLists ==
    ASSUME ListsInv, UNCHANGED <<lists, removed>>, rows' \subseteq Row, server' \subseteq server,
           \A r \in rows' : r.what = "delete" /\ r.got = "ok" => r.snapshot \notin server'
    PROVE  ListsInv'
BY DEF ListsInv, RowsInv, Current

LEMMA ListsStep ==
    ASSUME ListsInv, [Next]_vars
    PROVE  ListsInv'
<1>0. rows \subseteq Row /\ RowsInv
  BY DEF ListsInv, RowsInv
<1>1. CASE UNCHANGED <<lists, rows, server, removed>>
  BY <1>1 DEF ListsInv, RowsInv, Current
<1>2. ASSUME NEW d, Load(d) PROVE ListsInv'
  <2>1. lists' = [l \in Lists |-> ListInit] /\ rows' = {} /\ server' = Snapshots /\ removed' = {}
    BY <1>2 DEF Load
  <2>2. ListInit \in State /\ ListInit.waiting = {} /\ ListInit.tables = {} /\ ListInit.started = 0
    BY DEF ListInit, State
  <2>3. \A l \in Lists : lists'[l] = ListInit
    BY <2>1
  <2>4. \A l \in Lists : Current(lists[l])'
    BY <2>2, <2>3 DEF Current
  <2>5. "metrics" \in Lists /\ RowsInv'
    BY <2>1 DEF Lists, RowsInv
  <2>6. DOMAIN lists' = Lists /\ lists' = [l \in Lists |-> lists'[l]]
    BY <2>1
  <2>7. lists'["metrics"].waiting = {} /\ lists'["metrics"].tables = {}
    BY <2>2, <2>3, <2>5
  <2> QED BY <2>4, <2>5, <2>6, <2>7 DEF ListsInv
<1>3. CASE PNext
  <2>1. ASSUME NEW k \in Routes \cup {""}, Follow(k) PROVE ListsInv'
    BY <1>1, <2>1 DEF Follow
  <2>2. CASE HashChanged
    BY <2>2, ShowRouteLists DEF HashChanged
  <2>3. ASSUME NEW ok \in BOOLEAN, Boot(ok) PROVE ListsInv'
    BY <2>3, ShowRouteLists DEF Boot, InitialRoute
  <2>4. ASSUME NEW l \in Lists, Refresh(l) PROVE ListsInv'
    BY <2>4, FetchStep DEF Refresh
  <2>5. ASSUME NEW l \in Lists, NEW w \in lists[l].waiting, Serve(l, w) \/ Arrives(l, w) \/ Fails(l, w)
        PROVE  ListsInv'
    BY <2>5, ServeLists, ArrivesLists, FailsLists
  <2>6. ASSUME NEW t \in lists["snapshots"].tables, NEW s \in Snapshots, NEW what \in {"delete", "run"},
               RowClicked(t, s, what)
        PROVE  ListsInv'
    <3> DEFINE new == [n |-> t.n, snapshot |-> s, what |-> what, got |-> "none"]
    <3>1. t \in Table
      BY DEF ListsInv, Current, State, Lists
    <3>2. new \in Row /\ new.got # "ok"
      BY <3>1 DEF Table, Row
    <3>3. rows' = rows \cup {new} /\ UNCHANGED <<lists, removed, server>>
      BY <2>6 DEF RowClicked
    <3> HIDE DEF new
    <3> QED BY <1>0, <3>2, <3>3, RowLists DEF RowsInv
  <2>7. ASSUME NEW r \in rows, RowServed(r) PROVE ListsInv'
    <3> DEFINE new == [r EXCEPT !.got = IF r.snapshot \in server THEN "ok" ELSE "error"]
    <3>1. r \in Row
      BY <1>0
    <3>2. new \in Row /\ new.snapshot = r.snapshot /\ new.what = r.what
      BY <3>1 DEF Row
    <3>3. /\ rows' = (rows \ {r}) \cup {new} /\ UNCHANGED <<lists, removed>>
          /\ server' = IF r.what = "delete" THEN server \ {r.snapshot} ELSE server
      BY <2>7 DEF RowServed
    <3> HIDE DEF new
    <3> QED BY <1>0, <3>2, <3>3, RowLists DEF RowsInv
  <2>8. ASSUME NEW r \in rows, Deleted(r) PROVE ListsInv'
    BY <2>8, DeletedLists
  <2>9. ASSUME NEW r \in rows, RunFailed(r) PROVE ListsInv'
    BY <1>0, <2>9, RowLists DEF RunFailed, RowsInv
  <2> QED BY <1>3, <2>1, <2>2, <2>3, <2>4, <2>5, <2>6, <2>7, <2>8, <2>9 DEF PNext
<1>4. ASSUME NEW r \in rows, RunAnswered(r) PROVE ListsInv'
  BY <1>0, <1>4, RowLists DEF RunAnswered, RowsInv
<1> QED BY <1>1, <1>2, <1>3, <1>4, PageFrame DEF pvars

(* A table that shows a snapshot whose removal was confirmed belongs to an   *)
(* earlier request than the last one, and when a table waits for nothing the *)
(* answer of its last request is shown if it came, whatever the order.       *)
THEOREM TablesCurrent == Spec => []ListsCurrent
<1>1. Init => ListsInv
  <2> SUFFICES ASSUME Init PROVE ListsInv
    OBVIOUS
  <2>1. lists = [l \in Lists |-> ListInit] /\ rows = {} /\ server = Snapshots /\ removed = {}
    BY DEF Init, PInit
  <2>2. ListInit \in State /\ ListInit.waiting = {} /\ ListInit.tables = {} /\ ListInit.started = 0
    BY DEF ListInit, State
  <2>3. \A l \in Lists : lists[l] = ListInit
    BY <2>1
  <2>4. \A l \in Lists : Current(lists[l])
    BY <2>2, <2>3 DEF Current
  <2>5. "metrics" \in Lists /\ RowsInv
    BY <2>1 DEF Lists, RowsInv
  <2>6. lists["metrics"].waiting = {} /\ lists["metrics"].tables = {}
    BY <2>2, <2>3, <2>5
  <2>7. DOMAIN lists = Lists /\ lists = [l \in Lists |-> lists[l]]
    BY <2>1
  <2> QED BY <2>4, <2>5, <2>6, <2>7 DEF ListsInv
<1>2. ListsInv /\ [Next]_vars => ListsInv'
  BY ListsStep
<1>3. ListsInv => ListsCurrent
  <2> SUFFICES ASSUME ListsInv, NEW l \in Lists
               PROVE  /\ \A t \in lists[l].tables :
                            t.n <= lists[l].started /\ (t.rows \cap removed # {} => t.n < lists[l].started)
                      /\ lists[l].waiting = {} /\ lists[l].started \notin {0} \cup lists[l].failed =>
                            \E t \in lists[l].tables : t.n = lists[l].started
    BY DEF ListsCurrent
  <2>1. Current(lists[l]) /\ lists[l].started \in Nat /\ \A t \in lists[l].tables : t.n \in Nat
    BY DEF ListsInv, Current, State, Table
  <2> QED BY <2>1 DEF Current
<1> QED BY <1>1, <1>2, <1>3, PTL DEF Spec

-----------------------------------------------------------------------------
(* The carousel.  What counts of the track is its length: after a resize    *)
(* fewer real slides than Total may be between the clones, but together     *)
(* with the clones of one side they are always more than Total.             *)

Says     == {"launch", "uploading", "launching"}
Card     == [n: 1..Total, file: BOOLEAN, disabled: BOOLEAN, text: Says, wrong: SUBSET {"state", "text"}]
Carousel == [per: 1..Total, track: Seq(Card), current: Int, pos: Int, moving: BOOLEAN]

Tracked(x) == x \in Carousel /\ Len(x.track) >= x.per + Total + 1

\* From the first real slide to the last one, or to where a resize may have left it; n slides further
\* while the track moves.
Between(p, len, k, n) == p - n <= k /\ (k < len - p + n \/ k < p + Total + n)
Within(x, n) == Between(x.per, Len(x.track), x.current, n)

Standing(x) == Tracked(x) /\ x.pos = x.current /\ (IF x.moving THEN Within(x, 1) ELSE Within(x, 0))

\* A clone of one of x's slides, the marked ones being those in busy.
Copied(x, busy, e) == \E i \in 1..Len(x.track) : e = CloneOf(x.track[i], i \in busy)

LEMMA BetweenSlides ==
    ASSUME NEW p \in 1..Total, NEW len \in Nat, NEW k \in Int, len >= p + Total + 1, Total \in Nat
    PROVE  /\ Between(p, len, k, 0) => Between(p, len, k, 1)
           /\ Between(p, len, k, 1) => k + 1 \in 1..len /\ (len = 2 * p + Total => k + p <= len)
           /\ Between(p, len, k, 0) => Between(p, len, k - 1, 1) /\ Between(p, len, k + 1, 1)
           /\ Between(p, len, k, 1) /\ p <= k /\ k < len - p => Between(p, len, k, 0)
           /\ Between(p, len, p, 0) /\ Between(p, len, len - p - 1, 0)
           /\ \A n \in 0..Total - 1 : Between(p, len, p + n, 0)
BY DEF Between

\* The numbers of a carousel.
LEMMA TrackedNumbers ==
    ASSUME NEW x, Tracked(x)
    PROVE  /\ x.per \in 1..Total /\ x.current \in Int /\ Len(x.track) \in Nat /\ Total \in Nat
           /\ Len(x.track) >= x.per + Total + 1 /\ x \in Carousel
           /\ x.track \in Seq(Card) /\ DOMAIN x.track = 1..Len(x.track)
BY LandingAssumption, LenProperties DEF Tracked, Carousel

LEMMA StandingFills ==
    ASSUME NEW x, Standing(x)
    PROVE  /\ x.pos = x.current /\ Slide(x) /\ Within(x, 1)
           /\ Len(x.track) = 2 * x.per + Total => x.current + x.per <= Len(x.track)
<1>1. Tracked(x) /\ x.pos = x.current
  BY DEF Standing
<1>2. Within(x, 1)
  BY <1>1, TrackedNumbers, BetweenSlides DEF Standing, Within
<1>3. /\ x.current + 1 \in 1..Len(x.track)
      /\ Len(x.track) = 2 * x.per + Total => x.current + x.per <= Len(x.track)
  BY <1>1, <1>2, TrackedNumbers, BetweenSlides DEF Within
<1> QED BY <1>1, <1>2, <1>3, TrackedNumbers DEF Slide

\* The position follows a current slide that exists.
LEMMA JumpStanding ==
    ASSUME NEW x, Tracked(x), IF x.moving THEN Within(x, 1) ELSE Within(x, 0)
    PROVE  /\ Standing(JumpTo(x)) /\ JumpTo(x).moving = x.moving
           /\ JumpTo(x).track = x.track /\ JumpTo(x).per = x.per
<1> DEFINE y == [x EXCEPT !.pos = x.current]
<1>1. /\ y \in Carousel /\ y.pos = y.current /\ y.moving = x.moving
      /\ y.track = x.track /\ y.per = x.per /\ y.current = x.current
  BY DEF Tracked, Carousel
<1> HIDE DEF y
<1>2. Tracked(y) /\ (y.moving => Within(y, 1)) /\ (~y.moving => Within(y, 0))
  BY <1>1 DEF Tracked, Within
<1>3. Standing(y)
  BY <1>1, <1>2 DEF Standing
<1>4. x.current + 1 \in DOMAIN x.track
  BY <1>1, <1>3, StandingFills DEF Slide
<1> QED BY <1>1, <1>3, <1>4 DEF JumpTo, Slide, y

\* A piece of a sequence that starts after the first p members, and three sequences joined.
LEMMA Piece ==
    ASSUME NEW S, NEW s \in Seq(S), NEW p \in Nat, NEW n \in Nat, NEW len \in Nat,
           Len(s) = len, n <= len, p <= n
    PROVE  /\ SubSeq(s, p + 1, n) \in Seq(S) /\ Len(SubSeq(s, p + 1, n)) = n - p
           /\ \A k \in 1..n - p : SubSeq(s, p + 1, n)[k] = s[p + k]
<1> PICK m \in Nat : m = p + 1
  OBVIOUS
<1>1. \A i \in m..n : i \in 1..len
  BY ONLY m \in Nat, m = p + 1, p \in Nat, n \in Nat, len \in Nat, n <= len
<1>2. \A i \in m..n : s[i] \in S
  BY <1>1, ElementOfSeq
<1>3. m \in Int /\ n \in Int
  OBVIOUS
<1>4. /\ SubSeq(s, m, n) \in Seq(S)
      /\ Len(SubSeq(s, m, n)) = IF m <= n THEN n - m + 1 ELSE 0
      /\ \A i \in 1..n - m + 1 : SubSeq(s, m, n)[i] = s[m + i - 1]
  BY <1>2, <1>3, SubSeqProperties
<1>5. (IF m <= n THEN n - m + 1 ELSE 0) = n - p /\ n - m + 1 = n - p /\ \A k \in 1..n - p : m + k - 1 = p + k
  BY ONLY m \in Nat, m = p + 1, p \in Nat, n \in Nat, p <= n
<1>6. \A k \in 1..n - p : SubSeq(s, m, n)[k] = s[p + k]
  BY ONLY <1>4, <1>5, Zenon
<1> QED BY <1>4, <1>5, <1>6, Zenon

\* t is a sequence of p members of a, n of b and p of c.
Joins(S, t, a, b, c, p, n) ==
    /\ t \in Seq(S) /\ Len(t) = p + n + p
    /\ \A j \in 1..p + n + p :
          \/ j \in 1..p /\ t[j] = a[j]
          \/ j \in p + 1..p + n /\ j - p \in 1..n /\ t[j] = b[j - p]
          \/ j > p + n /\ j - (p + n) \in 1..p /\ t[j] = c[j - (p + n)]

LEMMA Joined ==
    ASSUME NEW S, NEW p \in Nat, NEW n \in Nat,
           NEW a \in {s \in Seq(S) : Len(s) = p}, NEW b \in {s \in Seq(S) : Len(s) = n},
           NEW c \in {s \in Seq(S) : Len(s) = p}
    PROVE  Joins(S, a \o b \o c, a, b, c, p, n)
<1>1. /\ a \o b \in Seq(S) /\ Len(a \o b) = Len(a) + Len(b)
      /\ \A i \in 1..Len(a) + Len(b) : (a \o b)[i] = IF i <= Len(a) THEN a[i] ELSE b[i - Len(a)]
  BY ConcatProperties
<1> PICK d \in Seq(S) : d = a \o b
  BY <1>1
<1>2. Len(d) = p + n /\ \A i \in 1..p + n : d[i] = IF i <= p THEN a[i] ELSE b[i - p]
  BY <1>1
<1>3. /\ d \o c \in Seq(S) /\ Len(d \o c) = Len(d) + Len(c)
      /\ \A i \in 1..Len(d) + Len(c) : (d \o c)[i] = IF i <= Len(d) THEN d[i] ELSE c[i - Len(d)]
  BY ConcatProperties
<1> PICK e \in Seq(S) : e = d \o c
  BY <1>3
<1>4. Len(e) = p + n + p /\ \A i \in 1..p + n + p : e[i] = IF i <= p + n THEN d[i] ELSE c[i - (p + n)]
  BY <1>2, <1>3
<1>5. ASSUME NEW j \in 1..p + n + p
      PROVE  \/ j \in 1..p /\ e[j] = a[j]
             \/ j \in p + 1..p + n /\ j - p \in 1..n /\ e[j] = b[j - p]
             \/ j > p + n /\ j - (p + n) \in 1..p /\ e[j] = c[j - (p + n)]
  BY <1>2, <1>4
<1> QED BY <1>4, <1>5, Zenon DEF Joins

LEMMA CloneCard ==
    ASSUME NEW e \in Card, NEW b \in BOOLEAN
    PROVE  /\ CloneOf(e, b) \in Card /\ CloneOf(e, b).n = e.n
           /\ ~b => CloneOf(e, b) = e
           /\ b => "state" \in CloneOf(e, b).wrong /\ "text" \in CloneOf(e, b).wrong
BY DEF CloneOf, Card

\* What setupClones makes of a track: clones, the slides that are kept at their indices, clones, at least
\* one slide longer than Total.  A track of just Total slides is the first.
LEMMA Rebuilt ==
    ASSUME NEW x \in Carousel, NEW from \in Nat, NEW busy, NEW len \in Nat, len = Len(x.track),
           len >= Total, from + Total <= len
    PROVE  LET y == SetupClones(x, from, busy) IN
           /\ Tracked(y) /\ y.per = x.per /\ y.moving = x.moving /\ y.current = x.current
           /\ len > Total => /\ Kept(x, x.per) \subseteq 1..Len(y.track)
                             /\ \A j \in 1..Len(y.track) : IF j \in Kept(x, x.per) THEN y.track[j] = x.track[j]
                                                           ELSE Copied(x, busy, y.track[j])
           /\ len = Total => \A j \in 1..Len(y.track) : \/ Copied(x, busy, y.track[j])
                                                        \/ \E i \in 1..len : y.track[j] = x.track[i]
<1> DEFINE p      == x.per
           clones == [k \in 1..Total |-> CloneOf(x.track[from + k], from + k \in busy)]
           real   == IF len > Total THEN SubSeq(x.track, p + 1, Lesser(p + Total, len)) ELSE x.track
           left   == LastOf(clones, p)
           right  == SubSeq(clones, 1, p)
           all    == left \o real \o right
<1>1. x.track \in Seq(Card) /\ p = x.per
  BY DEF Carousel
<1>2. p \in 1..Total /\ Total \in Nat
  BY LandingAssumption DEF Carousel
<1>3. SetupClones(x, from, busy) = [x EXCEPT !.track = all]
  BY DEF SetupClones
<1> HIDE DEF p
<1>4. clones \in Seq(Card) /\ Len(clones) = Total /\ \A k \in 1..Total : Copied(x, busy, clones[k])
  <2>1. ASSUME NEW k \in 1..Total PROVE Copied(x, busy, clones[k]) /\ clones[k] \in Card
    <3>1. from + k \in 1..len
      BY <1>2
    <3> PICK i \in 1..len : i = from + k
      BY <3>1
    <3>2. x.track[i] \in Card /\ (i \in busy) \in BOOLEAN
      BY <1>1, ElementOfSeq
    <3>3. CloneOf(x.track[i], i \in busy) \in Card
      BY <3>2, CloneCard
    <3>4. clones[k] = CloneOf(x.track[i], i \in busy)
      OBVIOUS
    <3> QED BY <3>3, <3>4 DEF Copied
  <2>2. DOMAIN clones = 1..Total
    OBVIOUS
  <2> HIDE DEF clones
  <2>3. clones = [k \in 1..Total |-> clones[k]]
    BY DEF clones
  <2>4. [k \in 1..Total |-> clones[k]] \in Seq(Card) /\ Len([k \in 1..Total |-> clones[k]]) = Total
    BY <1>2, <2>1
  <2> QED BY <2>1, <2>3, <2>4, Zenon
<1> HIDE DEF clones
<1>5. left \in Seq(Card) /\ Len(left) = p /\ \A k \in 1..p : Copied(x, busy, left[k])
  <2> PICK q \in Nat : q = Total - p
    BY <1>2
  <2>1. /\ q <= Total /\ Total - q = p /\ Total - p + 1 = q + 1 /\ Total <= Total
        /\ \A k \in 1..p : q + k \in 1..Total
    BY ONLY <1>2, q \in Nat, q = Total - p
  <2>2. left = SubSeq(clones, q + 1, Total)
    BY <1>4, <2>1, Zenon DEF LastOf
  <2>3. /\ SubSeq(clones, q + 1, Total) \in Seq(Card) /\ Len(SubSeq(clones, q + 1, Total)) = Total - q
        /\ \A k \in 1..Total - q : SubSeq(clones, q + 1, Total)[k] = clones[q + k]
    <3>1. clones \in Seq(Card) /\ q \in Nat /\ Total \in Nat /\ Len(clones) = Total /\ Total <= Total /\ q <= Total
      BY <1>2, <1>4, <2>1
    <3> QED BY ONLY <3>1, Piece
  <2> HIDE DEF left
  <2> QED BY ONLY <1>4, <2>1, <2>2, <2>3, Zenon
<1>6. right \in Seq(Card) /\ Len(right) = p /\ \A k \in 1..p : Copied(x, busy, right[k])
  <2> PICK q \in Nat : q = 0
    OBVIOUS
  <2>1. q + 1 = 1 /\ p \in Nat /\ p <= Total /\ q <= p /\ p - q = p /\ \A k \in 1..p : q + k = k /\ k \in 1..Total
    BY ONLY <1>2, q \in Nat, q = 0
  <2>2. /\ SubSeq(clones, q + 1, p) \in Seq(Card) /\ Len(SubSeq(clones, q + 1, p)) = p - q
        /\ \A k \in 1..p - q : SubSeq(clones, q + 1, p)[k] = clones[q + k]
    BY <1>2, <1>4, <2>1, Piece
  <2>3. right = SubSeq(clones, q + 1, p)
    BY <2>1
  <2> HIDE DEF right
  <2>4. \A k \in 1..p : right[k] = clones[k]
    BY ONLY <2>1, <2>2, <2>3
  <2> QED BY ONLY <1>4, <2>1, <2>2, <2>3, <2>4, Zenon
<1> PICK last \in Nat : last = Lesser(p + Total, len)
  BY <1>2 DEF Lesser
<1> PICK n \in Nat : n = IF len > Total THEN last - p ELSE len
  BY ONLY <1>2, len \in Nat, last \in Nat, last = Lesser(p + Total, len) DEF Lesser
<1>7. /\ last <= len /\ p <= last /\ p + n >= Total + 1 /\ (len > Total => last - p = n /\ p + n = last)
      /\ (~(len > Total) => n = len) /\ (len > Total => \A j \in p + 1..last : p + (j - p) = j) /\ p \in Nat
  BY ONLY <1>2, len \in Nat, last \in Nat, last = Lesser(p + Total, len), n \in Nat, len >= Total,
          n = (IF len > Total THEN last - p ELSE len) DEF Lesser
<1>8. /\ real \in Seq(Card) /\ Len(real) = n
      /\ len > Total => \A k \in 1..n : real[k] = x.track[p + k]
      /\ ~(len > Total) => real = x.track
  <2>1. CASE len > Total
    <3>1. /\ SubSeq(x.track, p + 1, last) \in Seq(Card) /\ Len(SubSeq(x.track, p + 1, last)) = last - p
          /\ \A k \in 1..last - p : SubSeq(x.track, p + 1, last)[k] = x.track[p + k]
      <4>1. /\ x.track \in Seq(Card) /\ p \in Nat /\ last \in Nat /\ len \in Nat
            /\ Len(x.track) = len /\ last <= len /\ p <= last
        BY <1>1, <1>7
      <4> QED BY ONLY <4>1, Piece
    <3>2. real = SubSeq(x.track, p + 1, last)
      BY <2>1
    <3> HIDE DEF real
    <3> QED BY ONLY <1>7, <2>1, <3>1, <3>2, Zenon
  <2>2. CASE ~(len > Total)
    <3>1. real = x.track
      BY <2>2
    <3> HIDE DEF real
    <3> QED BY <1>1, <1>7, <2>2, <3>1, Zenon
  <2> QED BY <2>1, <2>2, Zenon
<1> HIDE DEF left, real, right
<1>9. /\ all \in Seq(Card) /\ Len(all) = p + n + p
      /\ \A j \in 1..p + n + p :
            \/ j \in 1..p /\ all[j] = left[j]
            \/ j \in p + 1..p + n /\ j - p \in 1..n /\ all[j] = real[j - p]
            \/ j > p + n /\ j - (p + n) \in 1..p /\ all[j] = right[j - (p + n)]
  <2>1. /\ left \in Seq(Card) /\ real \in Seq(Card) /\ right \in Seq(Card) /\ p \in Nat /\ n \in Nat
        /\ Len(left) = p /\ Len(real) = n /\ Len(right) = p
    BY <1>5, <1>6, <1>7, <1>8
  <2> PICK a, b, c : a = left /\ b = real /\ c = right
    OBVIOUS
  <2>2. /\ a \in {s \in Seq(Card) : Len(s) = p} /\ b \in {s \in Seq(Card) : Len(s) = n}
        /\ c \in {s \in Seq(Card) : Len(s) = p} /\ p \in Nat /\ n \in Nat
    BY <2>1
  <2>3. Joins(Card, a \o b \o c, a, b, c, p, n)
    BY ONLY <2>2, Joined, Zenon
  <2> QED BY ONLY <2>3, a = left /\ b = real /\ c = right, Zenon DEF all, Joins
<1> HIDE DEF all
<1>10. \A j \in 1..p + n + p : j \in p + 1..p + n \/ Copied(x, busy, all[j])
  BY ONLY <1>5, <1>6, <1>9, Zenon
<1>11. ASSUME len > Total
       PROVE  /\ p + 1..p + n \subseteq 1..p + n + p
              /\ \A j \in p + 1..p + n : all[j] = x.track[j]
  <2>1. p + 1..p + n \subseteq 1..p + n + p
    BY ONLY <1>7, n \in Nat
  <2>2. ASSUME NEW j \in p + 1..p + n PROVE all[j] = x.track[j]
    <3>1. j \in 1..p + n + p /\ ~(j \in 1..p) /\ ~(j > p + n) /\ j - p \in 1..n /\ p + (j - p) = j
      BY ONLY <1>7, n \in Nat, j \in p + 1..p + n
    <3>2. all[j] = real[j - p]
      BY ONLY <1>9, <3>1, Zenon
    <3>3. real[j - p] = x.track[p + (j - p)]
      BY ONLY <1>8, <1>11, <3>1, Zenon
    <3> QED BY <3>1, <3>2, <3>3, Zenon
  <2> QED BY <2>1, <2>2
<1>12. ASSUME ~(len > Total), NEW j \in p + 1..p + n, j \in 1..p + n + p
       PROVE  \E i \in 1..len : all[j] = x.track[i]
  <2>1. ~(j \in 1..p) /\ ~(j > p + n) /\ j - p \in 1..n
    BY ONLY <1>7, n \in Nat, j \in p + 1..p + n
  <2>2. all[j] = real[j - p]
    BY ONLY <1>9, <1>12, <2>1, Zenon
  <2> QED BY <1>7, <1>8, <1>12, <2>1, <2>2, Zenon
<1>13. LET y == [x EXCEPT !.track = all]
       IN y \in Carousel /\ y.per = p /\ y.moving = x.moving /\ y.current = x.current /\ y.track = all
  BY <1>1, <1>9 DEF Carousel
<1>14. Len(all) >= p + Total + 1
  <2>1. p + n + p >= p + Total + 1
    BY ONLY <1>7, <1>2, n \in Nat
  <2> QED BY <1>9, <2>1, Zenon
<1>15. len > Total => Kept(x, p) = p + 1..p + n
  BY ONLY <1>7, last = Lesser(p + Total, len), len = Len(x.track), Zenon DEF Kept
<1> PICK y : y = [x EXCEPT !.track = all]
  OBVIOUS
<1>16. Tracked(y)
  BY <1>1, <1>13, <1>14, Zenon DEF Tracked
<1>17. len > Total => /\ Kept(x, p) \subseteq 1..Len(y.track)
                      /\ \A j \in 1..Len(y.track) : IF j \in Kept(x, p) THEN y.track[j] = x.track[j]
                                                    ELSE Copied(x, busy, y.track[j])
  <2> SUFFICES ASSUME len > Total
               PROVE  /\ Kept(x, p) \subseteq 1..Len(y.track)
                      /\ \A j \in 1..Len(y.track) : IF j \in Kept(x, p) THEN y.track[j] = x.track[j]
                                                    ELSE Copied(x, busy, y.track[j])
    OBVIOUS
  <2>1. y.track = all /\ Len(y.track) = p + n + p /\ Kept(x, p) = p + 1..p + n
    BY <1>9, <1>13, <1>15, Zenon
  <2> QED BY ONLY <1>10, <1>11, len > Total, <2>1, Zenon
<1>18. len = Total => \A j \in 1..Len(y.track) : \/ Copied(x, busy, y.track[j])
                                                 \/ \E i \in 1..len : y.track[j] = x.track[i]
  <2>1. y.track = all /\ Len(y.track) = p + n + p
    BY <1>9, <1>13, Zenon
  <2>2. len = Total => ~(len > Total)
    BY <1>2
  <2> QED BY ONLY <1>10, <1>12, <2>1, <2>2, Zenon
<1>19. SetupClones(x, from, busy) = y /\ y.per = x.per /\ y.moving = x.moving /\ y.current = x.current /\ p = x.per
  BY <1>1, <1>3, <1>13, Zenon
<1> QED BY ONLY <1>16, <1>17, <1>18, <1>19

RightOwn(e) == e.n = Custom => Right(e)

LEMMA CarInitStanding ==
    ASSUME NEW p \in 1..Total
    PROVE  /\ Standing(CarInit(p))
           /\ \A i \in 1..Len(CarInit(p).track) : RightOwn(CarInit(p).track[i])
<1> DEFINE slides == [n \in 1..Total |-> NewSlide(n)]
           x == [per |-> p, track |-> slides, current |-> p, pos |-> 0, moving |-> FALSE]
           y == SetupClones(x, 0, {})
<1>0. Total \in Nat
  BY LandingAssumption
<1>1. slides \in Seq(Card) /\ Len(slides) = Total /\ \A i \in 1..Total : slides[i] \in Card /\ RightOwn(slides[i])
  <2>1. \A n \in 1..Total : NewSlide(n) \in Card /\ RightOwn(NewSlide(n))
    <3> TAKE n \in 1..Total
    <3> PICK b \in BOOLEAN : b = (n = Custom)
      OBVIOUS
    <3> DEFINE e == [n |-> n, file |-> FALSE, disabled |-> b, text |-> "launch", wrong |-> {}]
    <3>1. NewSlide(n) = e
      BY DEF NewSlide
    <3>2. e \in Card
      BY DEF Card, Says
    <3>3. RightOwn(e)
      BY DEF Right, RightOwn
    <3> QED BY <3>1, <3>2, <3>3
  <2>2. \A n \in 1..Total : slides[n] \in Card /\ RightOwn(slides[n])
    BY <2>1
  <2> HIDE DEF slides
  <2>3. slides = [n \in 1..Total |-> slides[n]]
    BY DEF slides
  <2>4. [n \in 1..Total |-> slides[n]] \in Seq(Card) /\ Len([n \in 1..Total |-> slides[n]]) = Total
    BY <1>0, <2>2
  <2> QED BY <2>2, <2>3, <2>4, Zenon
<1> HIDE DEF slides
<1>2. x \in Carousel /\ x.track = slides /\ x.per = p /\ x.current = p /\ x.moving = FALSE
  BY <1>1 DEF Carousel
<1>3. CarInit(p) = JumpTo(y)
  BY DEF CarInit, slides
<1> HIDE DEF x
<1>4. /\ Tracked(y) /\ y.per = p /\ y.current = p /\ ~y.moving
      /\ \A j \in 1..Len(y.track) : Copied(x, {}, y.track[j]) \/ \E i \in 1..Total : y.track[j] = x.track[i]
  <2>1. x \in Carousel /\ 0 \in Nat /\ Total \in Nat /\ Total = Len(x.track) /\ Total >= Total /\ 0 + Total <= Total
    BY <1>0, <1>1, <1>2
  <2>2. /\ Tracked(y) /\ y.per = x.per /\ y.moving = x.moving /\ y.current = x.current
        /\ Total = Total => \A j \in 1..Len(y.track) : \/ Copied(x, {}, y.track[j])
                                                       \/ \E i \in 1..Total : y.track[j] = x.track[i]
    BY ONLY <2>1, Rebuilt
  <2> HIDE DEF y
  <2> QED BY ONLY <1>2, <2>2
<1> HIDE DEF y
<1>5. Within(y, 0)
  BY <1>4, TrackedNumbers, BetweenSlides DEF Within
<1>6. Standing(JumpTo(y)) /\ JumpTo(y).track = y.track
  BY <1>4, <1>5, JumpStanding
<1>7. ASSUME NEW j \in 1..Len(y.track) PROVE RightOwn(y.track[j])
  <2>1. PICK i \in 1..Total : y.track[j] = CloneOf(slides[i], i \in {}) \/ y.track[j] = slides[i]
    BY <1>1, <1>2, <1>4 DEF Copied
  <2>2. CloneOf(slides[i], i \in {}) = slides[i]
    <3>1. (i \in {}) = FALSE
      OBVIOUS
    <3> QED BY <1>1, <3>1, CloneCard
  <2> QED BY <1>1, <2>1, <2>2
<1> QED BY <1>3, <1>6, <1>7

\* A track that is done moving is set back from the clones to the slides.
LEMMA CheckLoopStanding ==
    ASSUME NEW x, Tracked(x), Within(x, 1), ~x.moving
    PROVE  /\ Tracked(CheckLoop(x)) /\ ~CheckLoop(x).moving /\ Within(CheckLoop(x), 0)
           /\ CheckLoop(x).track = x.track
<1>1. /\ x.per \in 1..Total /\ x.current \in Int /\ Len(x.track) \in Nat /\ Total \in Nat
      /\ Len(x.track) >= x.per + Total + 1 /\ x \in Carousel
  BY TrackedNumbers
<1>2. ASSUME NEW k \in Int, Between(x.per, Len(x.track), k, 0)
      PROVE  LET y == JumpTo([x EXCEPT !.current = k]) IN Tracked(y) /\ ~y.moving /\ Within(y, 0) /\ y.track = x.track
  <2> DEFINE y == [x EXCEPT !.current = k]
  <2>1. y \in Carousel /\ y.current = k /\ y.per = x.per /\ y.track = x.track /\ ~y.moving
    BY DEF Tracked, Carousel
  <2> HIDE DEF y
  <2>2. Tracked(y) /\ Within(y, 0)
    BY <1>2, <2>1 DEF Tracked, Within
  <2>3. Standing(JumpTo(y)) /\ ~JumpTo(y).moving /\ JumpTo(y).track = x.track
    BY <2>1, <2>2, JumpStanding
  <2> QED BY <2>3 DEF Standing, y
<1>3. Between(x.per, Len(x.track), x.per, 0) /\ Between(x.per, Len(x.track), Len(x.track) - x.per - 1, 0)
  BY <1>1, BetweenSlides
<1>4. x.per \in Int /\ Len(x.track) - x.per - 1 \in Int
  BY <1>1
<1>5. CASE x.current >= Len(x.track) - x.per
  <2>0. ~(x.current < x.per)
    BY <1>1, <1>5
  <2>1. CheckLoop(x) = JumpTo([x EXCEPT !.current = x.per])
    BY <1>5, <2>0 DEF CheckLoop
  <2> QED BY <1>2, <1>3, <1>4, <2>1
<1>6. CASE ~(x.current >= Len(x.track) - x.per) /\ x.current < x.per
  <2>1. CheckLoop(x) = JumpTo([x EXCEPT !.current = Len(x.track) - x.per - 1])
    BY <1>6 DEF CheckLoop
  <2> QED BY <1>2, <1>3, <1>4, <2>1
<1>7. CASE ~(x.current >= Len(x.track) - x.per) /\ ~(x.current < x.per)
  <2>1. CheckLoop(x) = x
    BY <1>7 DEF CheckLoop
  <2>2. x.per <= x.current /\ x.current < Len(x.track) - x.per
    BY <1>1, <1>7
  <2>3. Within(x, 0)
    BY <1>1, <2>2, BetweenSlides DEF Within
  <2> QED BY <2>1, <2>3
<1> QED BY <1>5, <1>6, <1>7

\* The arrows and the end of a transition leave the slides as they are.
LEMMA CarouselStep ==
    ASSUME Standing(car), (\E step \in {-1, 1} : Arrow(step)) \/ OnTransitionDone
    PROVE  Standing(car') /\ car'.track = car.track /\ UNCHANGED flows
<1>1. /\ car \in Carousel /\ car.per \in 1..Total /\ car.current \in Int /\ Len(car.track) \in Nat
      /\ Total \in Nat /\ Len(car.track) >= car.per + Total + 1
  BY TrackedNumbers DEF Standing
<1>2. ASSUME NEW step \in {-1, 1}, Arrow(step) PROVE Standing(car') /\ car'.track = car.track /\ UNCHANGED flows
  <2> DEFINE x == [car EXCEPT !.current = @ + step]
             k == car.current + step
             y == [car EXCEPT !.current = k, !.pos = k, !.moving = TRUE]
  <2>1. ~car.moving /\ car' = GoTo(x) /\ Within(car, 0)
    BY <1>2 DEF Arrow, Standing
  <2>2. /\ x.current = k /\ x.track = car.track /\ ~x.moving
        /\ [x EXCEPT !.pos = x.current, !.moving = TRUE] = y /\ k \in Int
    BY <1>1, <2>1, SMTT(20) DEF Carousel
  <2>7. Between(car.per, Len(car.track), k, 1)
    <3>1. k = car.current - 1 \/ k = car.current + 1
      BY <1>1
    <3> HIDE DEF k, x
    <3> QED BY <1>1, <2>1, <3>1, BetweenSlides DEF Within
  <2>3. k + 1 \in 1..Len(car.track)
    BY <1>1, <2>2, <2>7, BetweenSlides
  <2>4. Slide(x)
    BY <1>1, <2>2, <2>3, LenProperties DEF Slide
  <2>5. car' = y
    BY <2>1, <2>2, <2>4 DEF GoTo
  <2> HIDE DEF k, x
  <2>6. /\ y \in Carousel /\ y.current = k /\ y.pos = k /\ y.moving = TRUE
        /\ y.per = car.per /\ y.track = car.track
    BY <1>1, <2>2 DEF Carousel
  <2> HIDE DEF y
  <2> QED BY <1>1, <1>2, <2>5, <2>6, <2>7 DEF Standing, Tracked, Within, Arrow
<1>3. CASE OnTransitionDone
  <2> DEFINE x == [car EXCEPT !.moving = FALSE]
  <2>1. /\ x \in Carousel /\ ~x.moving /\ x.current = car.current
        /\ x.per = car.per /\ x.track = car.track
    BY <1>1 DEF Carousel
  <2>2. Within(car, 1) /\ car' = JumpTo(CheckLoop(x))
    BY <1>3, StandingFills DEF OnTransitionDone
  <2> HIDE DEF x
  <2>3. Tracked(x) /\ Within(x, 1)
    BY <1>1, <2>1, <2>2 DEF Tracked, Within
  <2> QED BY <1>3, <2>1, <2>2, <2>3, CheckLoopStanding, JumpStanding DEF OnTransitionDone
<1> QED BY <1>2, <1>3

\* One slide is changed.
LEMMA SetStanding ==
    ASSUME NEW x, Standing(x), NEW i \in 1..Len(x.track), NEW e \in Card
    PROVE  LET y == [x EXCEPT !.track[i] = e] IN
           /\ Standing(y) /\ Len(y.track) = Len(x.track) /\ y.track[i] = e
           /\ \A j \in 1..Len(x.track) : j # i => y.track[j] = x.track[j]
<1> DEFINE s == [x.track EXCEPT ![i] = e]
           y == [x EXCEPT !.track[i] = e]
<1>1. Tracked(x) /\ x \in Carousel /\ x.track \in Seq(Card)
  BY TrackedNumbers DEF Standing
<1>2. /\ s \in Seq(Card) /\ Len(s) = Len(x.track) /\ s[i] = e
      /\ \A j \in 1..Len(x.track) : j # i => s[j] = x.track[j]
  BY <1>1, ExceptSeq
<1>3. y = [x EXCEPT !.track = s]
  BY <1>1 DEF Carousel
<1> HIDE DEF s
<1>4. /\ y \in Carousel /\ y.track = s /\ y.per = x.per /\ y.current = x.current
      /\ y.pos = x.pos /\ y.moving = x.moving
  BY <1>1, <1>2, <1>3 DEF Carousel
<1> HIDE DEF y
<1>5. Standing(y)
  BY <1>1, <1>2, <1>4 DEF Standing, Tracked, Within
<1> QED BY <1>2, <1>4, <1>5 DEF y

-----------------------------------------------------------------------------
(* The copies of the own image's slide, and the handlers that work on them.  *)

Flow == [stage: {"none", "auth", "script", "upload", "iso"}, kind: {"os", "custom"}, text: Says,
         at: Nat, file: BOOLEAN]

Staged(y)     == /\ y.stage = "upload" => y.kind = "custom"
                 /\ y.stage = "script" => y.kind = "os"
                 /\ y.kind = "os" => y.at = 0
Placed(y, t)  == y.at = 0 \/ (y.at \in 1..Len(t) /\ t[y.at].n = Custom)
PastAuth(y)   == y.kind = "custom" /\ y.stage \in {"upload", "iso"}
On(fl, i)     == {f \in Clicks : PastAuth(fl[f]) /\ fl[f].at = i}

\* As long as a slide's text is not marked, at most one handler is past its answer about the user there,
\* and it took "launch" for the text to set back.
SlideOk(e, fl, i) ==
    /\ "text" \notin e.wrong => /\ \A f, g \in On(fl, i) : f = g
                                /\ \A f \in On(fl, i) : fl[f].text = "launch"
    /\ On(fl, i) = {} => Right(e)

SlidesOk(t, fl) == \A i \in 1..Len(t) : t[i].n = Custom => SlideOk(t[i], fl, i)
FlowsOk(t, fl)  == fl \in [Clicks -> Flow] /\ \A f \in Clicks : Staged(fl[f]) /\ Placed(fl[f], t)

LandInv == Standing(car) /\ FlowsOk(car.track, flows) /\ SlidesOk(car.track, flows)

LEMMA LandFacts ==
    ASSUME LandInv
    PROVE  /\ car \in Carousel /\ car.track \in Seq(Card) /\ DOMAIN car.track = 1..Len(car.track)
           /\ Len(car.track) \in Nat /\ Len(car.track) > Total /\ Total \in Nat
           /\ \A i \in 1..Len(car.track) : car.track[i] \in Card
           /\ flows \in [Clicks -> Flow] /\ \A f \in Clicks : flows[f] \in Flow
<1>1. Tracked(car)
  BY DEF LandInv, Standing
<1>2. /\ car \in Carousel /\ car.track \in Seq(Card) /\ DOMAIN car.track = 1..Len(car.track)
      /\ Len(car.track) \in Nat /\ Total \in Nat /\ car.per \in 1..Total /\ Len(car.track) >= car.per + Total + 1
  BY <1>1, TrackedNumbers
<1>3. Len(car.track) > Total
  BY <1>2
<1>4. \A i \in 1..Len(car.track) : car.track[i] \in Card
  BY <1>2, ElementOfSeq
<1>5. flows \in [Clicks -> Flow] /\ \A f \in Clicks : flows[f] \in Flow
  BY DEF LandInv, FlowsOk
<1> QED BY <1>2, <1>3, <1>4, <1>5

LEMMA BusyOn ==
    ASSUME NEW i
    PROVE  i \in Busy <=> On(flows, i) # {}
BY DEF Busy, On, Past, PastAuth

\* Where nothing is changed of one handler's part, the others see nothing.
LEMMA OnOther ==
    ASSUME NEW f \in Clicks, NEW y \in Flow, flows \in [Clicks -> Flow], flows' = [flows EXCEPT ![f] = y],
           NEW i, flows[f].at # i \/ ~PastAuth(flows[f]), y.at # i \/ ~PastAuth(y)
    PROVE  On(flows', i) = On(flows, i) /\ \A g \in On(flows, i) : flows'[g].text = flows[g].text
<1>1. flows'[f] = y /\ \A g \in Clicks : g # f => flows'[g] = flows[g]
  OBVIOUS
<1>2. f \notin On(flows, i) /\ f \notin On(flows', i)
  BY <1>1 DEF On
<1>3. \A g \in Clicks : g \in On(flows', i) <=> g \in On(flows, i)
  BY <1>1, <1>2 DEF On
<1>4. On(flows', i) \subseteq Clicks /\ On(flows, i) \subseteq Clicks
  BY DEF On
<1> QED BY <1>1, <1>2, <1>3, <1>4

LEMMA SameSlide ==
    ASSUME NEW e, NEW i, SlideOk(e, flows, i), On(flows', i) = On(flows, i),
           \A g \in On(flows, i) : flows'[g].text = flows[g].text
    PROVE  SlideOk(e, flows', i)
BY DEF SlideOk

\* A slide on which the handler is not past its answer, neither before nor after.
LEMMA OtherSlide ==
    ASSUME NEW f \in Clicks, NEW y \in Flow, flows \in [Clicks -> Flow], flows' = [flows EXCEPT ![f] = y],
           NEW i, flows[f].at # i \/ ~PastAuth(flows[f]), y.at # i \/ ~PastAuth(y),
           NEW e, SlideOk(e, flows, i)
    PROVE  SlideOk(e, flows', i)
BY OnOther, SameSlide

\* A handler becomes y, and its slide, if it has one, becomes e.
LEMMA SlideStep ==
    ASSUME LandInv, NEW f \in Clicks, NEW y \in Flow, NEW e, flows' = [flows EXCEPT ![f] = y],
           Staged(y), y.at \in {0, flows[f].at}, SetSlide(f, e),
           flows[f].at # 0 => e \in Card /\ e.n = car.track[flows[f].at].n /\ SlideOk(e, flows', flows[f].at)
    PROVE  LandInv'
<1> DEFINE a == flows[f].at
<1>0. flows \in [Clicks -> Flow] /\ flows' \in [Clicks -> Flow] /\ flows'[f] = y
      /\ \A g \in Clicks : g # f => flows'[g] = flows[g]
  BY LandFacts
<1>1. \A g \in Clicks : Staged(flows'[g]) /\ Placed(flows'[g], car.track)
  BY <1>0 DEF LandInv, FlowsOk, Placed
<1>2. a = 0 \/ (a \in 1..Len(car.track) /\ car.track[a].n = Custom)
  BY DEF LandInv, FlowsOk, Placed
<1>3. \A i \in 1..Len(car.track) : i # 0
  OBVIOUS
<1>4. ASSUME NEW i \in 1..Len(car.track), i # a, car.track[i].n = Custom PROVE SlideOk(car.track[i], flows', i)
  <2>1. SlideOk(car.track[i], flows, i)
    BY <1>4 DEF LandInv, SlidesOk
  <2>2. y.at # i /\ flows[f].at # i
    BY <1>3, <1>4
  <2> QED BY <1>0, <2>1, <2>2, OtherSlide
<1>5. CASE a = 0
  <2>1. car' = car
    BY <1>5 DEF SetSlide
  <2>2. SlidesOk(car.track, flows')
    BY <1>3, <1>4, <1>5 DEF SlidesOk
  <2> QED BY <1>0, <1>1, <2>1, <2>2 DEF LandInv, FlowsOk
<1>6. CASE a # 0
  <2>0. a \in 1..Len(car.track) /\ e \in Card
    BY <1>2, <1>6
  <2>1. car' = [car EXCEPT !.track[a] = e]
    BY <1>6 DEF SetSlide, Update
  <2>2. /\ Standing(car') /\ Len(car'.track) = Len(car.track) /\ car'.track[a] = e
        /\ \A j \in 1..Len(car.track) : j # a => car'.track[j] = car.track[j]
    BY <2>0, <2>1, SetStanding DEF LandInv
  <2>3. SlideOk(e, flows', a) /\ e.n = car.track[a].n
    BY <1>6
  <2> HIDE DEF a
  <2>4. SlidesOk(car'.track, flows')
    BY <1>4, <2>2, <2>3 DEF SlidesOk
  <2>5. \A g \in Clicks : Placed(flows'[g], car'.track)
    BY <1>1, <2>2, <2>3 DEF Placed
  <2> QED BY <1>0, <1>1, <2>2, <2>4, <2>5 DEF LandInv, FlowsOk
<1> QED BY <1>5, <1>6

\* A handler that is not past its answer before and after changes no slide.
LEMMA AsideStep ==
    ASSUME LandInv, NEW f \in Clicks, NEW y \in Flow, flows' = [flows EXCEPT ![f] = y],
           Staged(y), Placed(y, car.track), ~PastAuth(flows[f]), ~PastAuth(y), UNCHANGED car
    PROVE  LandInv'
<1>0. flows \in [Clicks -> Flow] /\ flows' \in [Clicks -> Flow] /\ flows'[f] = y
      /\ \A g \in Clicks : g # f => flows'[g] = flows[g]
  BY LandFacts
<1>1. \A g \in Clicks : Staged(flows'[g]) /\ Placed(flows'[g], car.track)
  BY <1>0 DEF LandInv, FlowsOk
<1>2. ASSUME NEW i \in 1..Len(car.track), car.track[i].n = Custom PROVE SlideOk(car.track[i], flows', i)
  <2>1. SlideOk(car.track[i], flows, i)
    BY <1>2 DEF LandInv, SlidesOk
  <2> QED BY <1>0, <2>1, OtherSlide
<1> QED BY <1>0, <1>1, <1>2 DEF LandInv, FlowsOk, SlidesOk

LEMMA HandlerFacts ==
    ASSUME LandInv, NEW f \in Clicks
    PROVE  /\ flows[f] \in Flow /\ Staged(flows[f]) /\ Placed(flows[f], car.track) /\ HasFile(f) \in BOOLEAN
           /\ flows[f].at # 0 => /\ flows[f].at \in 1..Len(car.track) /\ car.track[flows[f].at] \in Card
                                 /\ car.track[flows[f].at].n = Custom /\ flows[f].kind = "custom"
                                 /\ SlideOk(car.track[flows[f].at], flows, flows[f].at)
                                 /\ HasFile(f) = car.track[flows[f].at].file
<1>1. flows[f] \in Flow /\ Staged(flows[f]) /\ Placed(flows[f], car.track)
  BY LandFacts DEF LandInv, FlowsOk
<1>2. ASSUME flows[f].at # 0
      PROVE  /\ flows[f].at \in 1..Len(car.track) /\ car.track[flows[f].at] \in Card
             /\ car.track[flows[f].at].n = Custom /\ flows[f].kind = "custom"
             /\ SlideOk(car.track[flows[f].at], flows, flows[f].at)
             /\ HasFile(f) = car.track[flows[f].at].file
  <2>1. flows[f].at \in 1..Len(car.track) /\ car.track[flows[f].at].n = Custom
    BY <1>1, <1>2 DEF Placed
  <2>2. car.track[flows[f].at] \in Card
    BY <2>1, LandFacts
  <2>3. flows[f].kind = "custom"
    BY <1>1, <1>2 DEF Staged, Flow
  <2>4. SlideOk(car.track[flows[f].at], flows, flows[f].at)
    BY <2>1 DEF LandInv, SlidesOk
  <2> QED BY <1>2, <2>1, <2>2, <2>3, <2>4 DEF HasFile
<1>3. HasFile(f) \in BOOLEAN
  BY <1>1, <1>2 DEF HasFile, Flow, Card
<1> QED BY <1>1, <1>2, <1>3

LEMMA FinallyLand ==
    ASSUME LandInv, NEW f \in Clicks, flows[f].stage \in {"upload", "iso"}, Finally(f)
    PROVE  LandInv'
<1> PICK a : a = flows[f].at
  OBVIOUS
<1> DEFINE e == [car.track[a] EXCEPT !.disabled = ~HasFile(f), !.text = flows[f].text, !.wrong = @ \ {"state"}]
<1>1. flows' = [flows EXCEPT ![f] = Free] /\ SetSlide(f, e)
  BY DEF Finally, Return
<1>2. Free \in Flow /\ Staged(Free) /\ Free.at = 0 /\ ~PastAuth(Free)
  BY DEF Free, Flow, Says, Staged, PastAuth
<1>3. ASSUME a # 0 PROVE e \in Card /\ e.n = car.track[a].n /\ SlideOk(e, flows', a)
  <2> PICK c \in Card, h \in BOOLEAN : c = car.track[a] /\ h = HasFile(f)
    BY <1>3, HandlerFacts
  <2>1. h = c.file /\ SlideOk(c, flows, a) /\ flows[f].kind = "custom" /\ flows[f] \in Flow
    BY <1>3, HandlerFacts
  <2>2. flows[f].text \in Says /\ f \in On(flows, a)
    BY <2>1 DEF Flow, On, PastAuth
  <2> PICK t \in Says : t = flows[f].text
    BY <2>2
  <2>3. e = [c EXCEPT !.disabled = ~h, !.text = t, !.wrong = @ \ {"state"}]
    OBVIOUS
  <2> HIDE DEF e
  <2>4. /\ e \in Card /\ e.n = c.n /\ e.file = c.file /\ e.disabled = ~h /\ e.text = t
        /\ "text" \notin e.wrong => "text" \notin c.wrong
    BY <2>3 DEF Card
  <2>5. On(flows', a) \subseteq On(flows, a) /\ \A g \in On(flows', a) : flows'[g].text = flows[g].text
    <3>1. flows'[f] = Free /\ \A g \in Clicks : g # f => flows'[g] = flows[g]
      BY <1>1, LandFacts
    <3>2. \A g \in On(flows', a) : g # f /\ g \in Clicks
      BY <1>2, <3>1 DEF On
    <3> QED BY <3>1, <3>2 DEF On
  <2>6. "text" \notin e.wrong => t = "launch"
    BY <2>1, <2>2, <2>4 DEF SlideOk
  <2>7. Right(e)
    BY <2>1, <2>4, <2>6 DEF Right
  <2>8. SlideOk(e, flows', a)
    BY <2>1, <2>4, <2>5, <2>7 DEF SlideOk
  <2> QED BY <2>4, <2>8
<1> HIDE DEF e
<1> QED BY <1>1, <1>2, <1>3, SlideStep

LEMMA AuthLand ==
    ASSUME LandInv, NEW f \in Clicks, NEW authed \in BOOLEAN, AuthAnswered(f, authed)
    PROVE  LandInv'
<1>0. flows[f].stage = "auth" /\ flows[f] \in Flow /\ ~PastAuth(flows[f]) /\ Placed(flows[f], car.track)
  BY HandlerFacts DEF AuthAnswered, PastAuth
<1>1. CASE Return(f) /\ UNCHANGED car
  <2>1. flows' = [flows EXCEPT ![f] = Free] /\ Free \in Flow /\ Staged(Free) /\ ~PastAuth(Free) /\ Placed(Free, car.track)
    BY <1>1 DEF Return, Free, Flow, Says, Staged, PastAuth, Placed
  <2> QED BY <1>0, <1>1, <2>1, AsideStep
<1>2. CASE flows[f].kind = "os" /\ flows' = [flows EXCEPT ![f].stage = "script"] /\ UNCHANGED car
  <2> DEFINE y == [flows[f] EXCEPT !.stage = "script"]
  <2>1. flows' = [flows EXCEPT ![f] = y] /\ y \in Flow /\ y.stage = "script" /\ y.kind = "os" /\ y.at = flows[f].at
    BY <1>0, <1>2, LandFacts DEF Flow
  <2> HIDE DEF y
  <2>2. Staged(y) /\ ~PastAuth(y) /\ Placed(y, car.track)
    BY <1>0, <1>2, <2>1, HandlerFacts DEF Staged, PastAuth, Placed
  <2> QED BY <1>0, <1>2, <2>1, <2>2, AsideStep
<1>3. CASE flows[f].kind = "custom" /\ ~(Return(f) /\ UNCHANGED car)
  <2> PICK a : a = flows[f].at
    OBVIOUS
  <2> DEFINE t == IF a = 0 THEN "launch" ELSE car.track[a].text
             y == [flows[f] EXCEPT !.stage = "upload", !.text = t]
             e == [car.track[a] EXCEPT !.disabled = TRUE, !.text = "uploading",
                                       !.wrong = @ \cup IF a \in Busy THEN {"text"} ELSE {}]
  <2>1. flows' = [flows EXCEPT ![f] = y] /\ SetSlide(f, e)
    BY <1>0, <1>3, LandFacts DEF AuthAnswered
  <2>2. t \in Says
    BY HandlerFacts DEF Says, Card
  <2> HIDE DEF t
  <2>3. y \in Flow /\ y.stage = "upload" /\ y.kind = "custom" /\ y.at = a /\ y.text = t
    BY <1>0, <1>3, <2>2 DEF Flow
  <2> HIDE DEF y
  <2>4. Staged(y) /\ PastAuth(y)
    BY <2>3 DEF Staged, PastAuth
  <2>5. ASSUME a # 0 PROVE e \in Card /\ e.n = car.track[a].n /\ SlideOk(e, flows', a)
    <3> PICK c \in Card : c = car.track[a]
      BY <2>5, HandlerFacts
    <3> PICK w \in SUBSET {"text"} : w = IF a \in Busy THEN {"text"} ELSE {}
      OBVIOUS
    <3>1. SlideOk(c, flows, a) /\ c.n = Custom
      BY <2>5, HandlerFacts
    <3>2. e = [c EXCEPT !.disabled = TRUE, !.text = "uploading", !.wrong = @ \cup w]
      OBVIOUS
    <3> HIDE DEF e
    <3>3. e \in Card /\ e.n = c.n /\ ("text" \notin e.wrong => a \notin Busy /\ "text" \notin c.wrong)
      BY <3>2 DEF Card, Says
    <3>4. flows'[f] = y /\ \A g \in Clicks : g # f => flows'[g] = flows[g]
      BY <2>1, LandFacts
    <3>5. f \in On(flows', a)
      BY <2>3, <2>4, <3>4 DEF On
    <3>6. ASSUME "text" \notin e.wrong
          PROVE  (\A g, k \in On(flows', a) : g = k) /\ \A g \in On(flows', a) : flows'[g].text = "launch"
      <4>1. On(flows, a) = {}
        BY <3>3, <3>6, BusyOn
      <4>2. c.text = "launch"
        BY <3>1, <3>3, <3>6, <4>1 DEF SlideOk, Right
      <4>3. t = "launch"
        BY <2>5, <4>2 DEF t
      <4>4. \A g \in On(flows', a) : g = f
        BY <3>4, <4>1 DEF On
      <4> QED BY <2>3, <3>4, <4>3, <4>4
    <3>7. SlideOk(e, flows', a)
      BY <3>5, <3>6 DEF SlideOk
    <3> QED BY <3>3, <3>7
  <2> HIDE DEF e
  <2> QED BY <2>1, <2>3, <2>4, <2>5, SlideStep
<1> QED BY <1>1, <1>2, <1>3 DEF AuthAnswered

LEMMA UploadedLand ==
    ASSUME LandInv, NEW f \in Clicks, NEW result, Uploaded(f, result)
    PROVE  LandInv'
<1>0. flows[f].stage = "upload" /\ flows[f] \in Flow /\ Staged(flows[f])
  BY HandlerFacts DEF Uploaded
<1>1. CASE Finally(f)
  BY <1>0, <1>1, FinallyLand
<1>2. CASE /\ flows' = [flows EXCEPT ![f].stage = "iso"]
           /\ SetSlide(f, [car.track[flows[f].at] EXCEPT !.text = "launching"])
  <2> PICK a : a = flows[f].at
    OBVIOUS
  <2> DEFINE y == [flows[f] EXCEPT !.stage = "iso"]
             e == [car.track[a] EXCEPT !.text = "launching"]
  <2>1. flows' = [flows EXCEPT ![f] = y] /\ SetSlide(f, e)
    BY <1>2, LandFacts
  <2>2. /\ y \in Flow /\ y.stage = "iso" /\ y.kind = flows[f].kind /\ y.at = a /\ y.text = flows[f].text
        /\ flows[f].kind = "custom"
    BY <1>0 DEF Flow, Staged
  <2> HIDE DEF y
  <2>3. Staged(y) /\ PastAuth(y) /\ PastAuth(flows[f])
    BY <1>0, <2>2 DEF Staged, PastAuth
  <2>4. ASSUME a # 0 PROVE e \in Card /\ e.n = car.track[a].n /\ SlideOk(e, flows', a)
    <3> PICK c \in Card : c = car.track[a]
      BY <2>4, HandlerFacts
    <3>1. SlideOk(c, flows, a)
      BY <2>4, HandlerFacts
    <3>2. e \in Card /\ e.n = c.n /\ e.wrong = c.wrong
      BY DEF Card, Says
    <3> HIDE DEF e
    <3>3. flows'[f] = y /\ \A g \in Clicks : g # f => flows'[g] = flows[g]
      BY <2>1, LandFacts
    <3>4. f \in On(flows', a) /\ f \in On(flows, a)
      BY <2>2, <2>3, <3>3 DEF On
    <3>5. \A g \in On(flows', a) : g \in On(flows, a) /\ flows'[g].text = flows[g].text
      BY <2>2, <3>3, <3>4 DEF On
    <3>6. SlideOk(e, flows', a)
      BY <3>1, <3>2, <3>4, <3>5 DEF SlideOk
    <3> QED BY <3>2, <3>6
  <2> HIDE DEF e
  <2> QED BY <2>1, <2>2, <2>3, <2>4, SlideStep
<1> QED BY <1>1, <1>2 DEF Uploaded

LEMMA LaunchLand ==
    ASSUME LandInv, LaunchNext
    PROVE  LandInv'
<1>1. ASSUME NEW i \in OwnSlides, NEW chosen \in BOOLEAN, Change(i, chosen) PROVE LandInv'
  <2>0. i \in 1..Len(car.track) /\ car.track[i].n = Custom
    BY LandFacts DEF OwnSlides
  <2> PICK c \in Card : c = car.track[i]
    BY <2>0, LandFacts
  <2> DEFINE e == [car.track[i] EXCEPT !.file = chosen, !.disabled = ~chosen, !.wrong = @ \ {"state"}]
  <2>1. Update(i, e) /\ UNCHANGED flows
    BY <1>1 DEF Change
  <2>2. e \in Card /\ e.n = c.n /\ e.disabled = ~e.file /\ e.text = c.text /\ ("text" \notin e.wrong <=> "text" \notin c.wrong)
    BY DEF Card
  <2> HIDE DEF e
  <2>3. /\ Standing(car') /\ Len(car'.track) = Len(car.track) /\ car'.track[i] = e
        /\ \A j \in 1..Len(car.track) : j # i => car'.track[j] = car.track[j]
    BY <2>0, <2>1, <2>2, SetStanding DEF LandInv, Update
  <2>4. SlideOk(c, flows, i)
    BY <2>0 DEF LandInv, SlidesOk
  <2>5. SlideOk(e, flows, i)
    BY <2>2, <2>4 DEF SlideOk, Right
  <2>6. SlidesOk(car'.track, flows)
    BY <2>3, <2>5 DEF LandInv, SlidesOk
  <2>7. FlowsOk(car'.track, flows)
    BY <2>0, <2>2, <2>3 DEF LandInv, FlowsOk, Placed
  <2> QED BY <2>1, <2>3, <2>6, <2>7 DEF LandInv
<1>2. ASSUME NEW f \in Clicks, NEW kind \in {"os", "custom"}, NEW i \in {0} \cup OwnSlides, Click(f, kind, i)
      PROVE  LandInv'
  <2> DEFINE y == [Free EXCEPT !.stage = "auth", !.kind = kind, !.at = i]
  <2>1. flows' = [flows EXCEPT ![f] = y] /\ UNCHANGED car /\ flows[f].stage = "none" /\ (kind = "os" => i = 0)
    BY <1>2 DEF Click
  <2>2. i \in Nat /\ (i = 0 \/ (i \in 1..Len(car.track) /\ car.track[i].n = Custom))
    BY LandFacts DEF OwnSlides
  <2>3. y \in Flow /\ y.stage = "auth" /\ y.kind = kind /\ y.at = i
    BY <2>2 DEF Free, Flow, Says
  <2> HIDE DEF y
  <2>4. Staged(y) /\ ~PastAuth(y) /\ Placed(y, car.track) /\ ~PastAuth(flows[f])
    BY <2>1, <2>2, <2>3 DEF Staged, PastAuth, Placed
  <2> QED BY <2>1, <2>3, <2>4, AsideStep
<1>3. ASSUME NEW f \in Clicks, NEW result, ScriptAnswered(f, result) PROVE LandInv'
  <2>0. flows[f].stage = "script" /\ flows[f] \in Flow /\ Staged(flows[f]) /\ Placed(flows[f], car.track) /\ UNCHANGED car
    BY <1>3, HandlerFacts DEF ScriptAnswered
  <2>1. ~PastAuth(flows[f]) /\ flows[f].kind = "os"
    BY <2>0 DEF PastAuth, Staged
  <2>2. CASE Return(f)
    <3>1. flows' = [flows EXCEPT ![f] = Free] /\ Free \in Flow /\ Staged(Free) /\ ~PastAuth(Free) /\ Placed(Free, car.track)
      BY <2>2 DEF Return, Free, Flow, Says, Staged, PastAuth, Placed
    <3> QED BY <2>0, <2>1, <3>1, AsideStep
  <2>3. CASE flows' = [flows EXCEPT ![f].stage = "iso"]
    <3> DEFINE y == [flows[f] EXCEPT !.stage = "iso"]
    <3>1. flows' = [flows EXCEPT ![f] = y] /\ y \in Flow /\ y.stage = "iso" /\ y.kind = "os" /\ y.at = flows[f].at
      BY <2>0, <2>1, <2>3, LandFacts DEF Flow
    <3> HIDE DEF y
    <3>2. Staged(y) /\ ~PastAuth(y) /\ Placed(y, car.track)
      BY <2>0, <2>1, <3>1 DEF Staged, PastAuth, Placed
    <3> QED BY <2>0, <2>1, <3>1, <3>2, AsideStep
  <2> QED BY <1>3, <2>2, <2>3 DEF ScriptAnswered
<1>4. ASSUME NEW f \in Clicks, NEW result, IsoAnswered(f, result) PROVE LandInv'
  BY <1>4, FinallyLand DEF IsoAnswered
<1>5. CASE ToProfile
  BY <1>5 DEF ToProfile, LandInv
<1> QED BY <1>1, <1>2, <1>3, <1>4, <1>5, AuthLand, UploadedLand DEF LaunchNext

LEMMA ResizeLand ==
    ASSUME LandInv, NEW p \in PerViews, Resize(p)
    PROVE  LandInv'
<1> DEFINE seen    == car.current - car.per
           x       == [car EXCEPT !.per = p]
           rebuilt == SetupClones(x, car.per, Busy)
           nearest == IF seen < 0 THEN 0 ELSE Lesser(Total - 1, seen)
           y       == [rebuilt EXCEPT !.current = p + nearest]
           kept    == Kept(car, p)
<1>0. /\ car \in Carousel /\ car.per \in 1..Total /\ car.current \in Int /\ Len(car.track) \in Nat
      /\ Total \in Nat /\ Len(car.track) >= car.per + Total + 1 /\ p \in 1..Total
  BY TrackedNumbers, LandingAssumption DEF Standing, LandInv
<1> PICK len \in Nat : len = Len(car.track)
  BY <1>0
<1>1. car.per \in Nat /\ len > Total /\ len >= Total /\ car.per + Total <= len
  BY <1>0
<1>2. x \in Carousel /\ x.per = p /\ x.track = car.track
  BY <1>0 DEF Carousel
<1>3. /\ car' = JumpTo(y)
      /\ flows' = [f \in Clicks |-> IF flows[f].at \in kept THEN flows[f]
                                    ELSE [flows[f] EXCEPT !.at = 0, !.file = HasFile(f)]]
  BY DEF Resize
<1>4. nearest \in 0..Total - 1
  <2>1. seen \in Int /\ Total \in Nat /\ Total > 0
    BY <1>0
  <2> HIDE DEF seen
  <2> QED BY ONLY <2>1 DEF Lesser
<1>5. Kept(x, x.per) = kept /\ kept \subseteq 1..len
  BY <1>0, <1>2 DEF Kept, Lesser
<1>6. \A e : Copied(x, Busy, e) => \E i \in 1..len : e = CloneOf(car.track[i], i \in Busy)
  BY <1>2 DEF Copied
<1> HIDE DEF x, nearest
<1>7. /\ Tracked(rebuilt) /\ rebuilt.per = x.per
      /\ len > Total => /\ Kept(x, x.per) \subseteq 1..Len(rebuilt.track)
                        /\ \A j \in 1..Len(rebuilt.track) : IF j \in Kept(x, x.per) THEN rebuilt.track[j] = x.track[j]
                                                            ELSE Copied(x, Busy, rebuilt.track[j])
  <2>1. x \in Carousel /\ car.per \in Nat /\ len \in Nat /\ len = Len(x.track) /\ len >= Total /\ car.per + Total <= len
    BY <1>1, <1>2
  <2> QED BY ONLY <2>1, Rebuilt
<1> HIDE DEF rebuilt, kept
<1>8. /\ kept \subseteq 1..Len(rebuilt.track)
      /\ \A j \in 1..Len(rebuilt.track) :
            \/ j \in kept /\ rebuilt.track[j] = car.track[j]
            \/ j \notin kept /\ \E i \in 1..len : rebuilt.track[j] = CloneOf(car.track[i], i \in Busy)
  BY ONLY <1>1, <1>2, <1>5, <1>6, <1>7, Zenon
<1>9. Standing(car') /\ car'.track = rebuilt.track
  <2>1. p + nearest \in Int
    BY <1>0, <1>4
  <2>2. /\ y \in Carousel /\ y.per = p /\ y.current = p + nearest /\ y.track = rebuilt.track
    BY <1>2, <1>7, <2>1 DEF Tracked, Carousel
  <2> HIDE DEF y
  <2>3. Tracked(y)
    BY <1>2, <1>7, <2>2 DEF Tracked
  <2>4. Within(y, 0) /\ Within(y, 1)
    BY <1>0, <1>4, <2>2, <2>3, TrackedNumbers, BetweenSlides DEF Within
  <2> QED BY <1>3, <2>2, <2>3, <2>4, JumpStanding
<1>10. ASSUME NEW f \in Clicks
       PROVE  /\ flows'[f] \in Flow /\ Staged(flows'[f])
              /\ \/ flows'[f].at \in kept /\ flows'[f] = flows[f] /\ car.track[flows[f].at].n = Custom
                 \/ flows'[f].at = 0 /\ flows[f].at \notin kept
              /\ PastAuth(flows'[f]) <=> PastAuth(flows[f])
              /\ flows'[f].text = flows[f].text
  <2>1. flows[f] \in Flow /\ HasFile(f) \in BOOLEAN /\ Staged(flows[f])
    BY HandlerFacts
  <2>2. CASE flows[f].at \in kept
    <3>1. flows'[f] = flows[f]
      BY <1>3, <2>2
    <3>2. flows[f].at \in 1..len
      BY <1>5, <2>2
    <3>3. flows[f].at # 0
      BY <3>2
    <3> QED BY <2>1, <2>2, <3>1, <3>3, HandlerFacts
  <2>3. CASE flows[f].at \notin kept
    <3> DEFINE v == [flows[f] EXCEPT !.at = 0, !.file = HasFile(f)]
    <3>1. flows'[f] = v
      BY <1>3, <2>3
    <3>2. /\ v \in Flow /\ v.at = 0 /\ v.stage = flows[f].stage /\ v.kind = flows[f].kind
          /\ v.text = flows[f].text
      BY <2>1 DEF Flow
    <3> HIDE DEF v
    <3> QED BY <2>1, <2>3, <3>1, <3>2 DEF Staged, PastAuth
  <2> QED BY <2>2, <2>3
<1>11. FlowsOk(car'.track, flows')
  <2>1. flows' \in [Clicks -> Flow]
    BY <1>3, <1>10
  <2>2. \A f \in Clicks : Placed(flows'[f], car'.track)
    BY <1>8, <1>9, <1>10 DEF Placed
  <2> QED BY <1>10, <2>1, <2>2 DEF FlowsOk
<1>12. ASSUME NEW j \in 1..Len(rebuilt.track), rebuilt.track[j].n = Custom
       PROVE  SlideOk(rebuilt.track[j], flows', j)
  <2>1. CASE j \in kept /\ rebuilt.track[j] = car.track[j]
    <3>1. SlideOk(car.track[j], flows, j)
      BY <1>5, <1>12, <2>1 DEF LandInv, SlidesOk
    <3>2. \A f \in Clicks : f \in On(flows', j) <=> f \in On(flows, j)
      BY <1>10, <2>1, j # 0 DEF On
    <3>3. On(flows', j) = On(flows, j) /\ \A g \in On(flows, j) : flows'[g].text = flows[g].text
      BY <1>10, <3>2 DEF On
    <3> QED BY <2>1, <3>1, <3>3, SameSlide
  <2>2. ASSUME j \notin kept, NEW i \in 1..len, rebuilt.track[j] = CloneOf(car.track[i], i \in Busy)
        PROVE  SlideOk(rebuilt.track[j], flows', j)
    <3>1. On(flows', j) = {}
      BY <1>10, <2>2, j # 0 DEF On
    <3> PICK c \in Card : c = car.track[i]
      BY LandFacts
    <3>2. CASE i \in Busy
      <4>1. (i \in Busy) = TRUE
        BY <3>2
      <4>2. rebuilt.track[j] = CloneOf(c, TRUE)
        BY <2>2, <4>1
      <4>3. "state" \in CloneOf(c, TRUE).wrong /\ "text" \in CloneOf(c, TRUE).wrong
        BY CloneCard
      <4> QED BY <3>1, <4>2, <4>3 DEF SlideOk, Right
    <3>3. CASE i \notin Busy
      <4>1. (i \in Busy) = FALSE
        BY <3>3
      <4>2. rebuilt.track[j] = CloneOf(c, FALSE)
        BY <2>2, <4>1
      <4>3. CloneOf(c, FALSE) = c
        BY CloneCard
      <4>4. SlideOk(c, flows, i) /\ On(flows, i) = {}
        BY <1>12, <3>3, <4>2, <4>3, BusyOn DEF LandInv, SlidesOk
      <4> QED BY <3>1, <4>2, <4>3, <4>4 DEF SlideOk
    <3> QED BY <3>2, <3>3
  <2> QED BY <1>8, <2>1, <2>2
<1>13. SlidesOk(car'.track, flows')
  BY <1>9, <1>12 DEF SlidesOk
<1> QED BY <1>9, <1>11, <1>13 DEF LandInv

\* What a new document starts with.
LEMMA LoadedLand ==
    ASSUME NEW p \in 1..Total, NEW c, NEW fl, c = CarInit(p), fl = [f \in Clicks |-> Free]
    PROVE  Standing(c) /\ FlowsOk(c.track, fl) /\ SlidesOk(c.track, fl)
<1>1. \A f \in Clicks : fl[f] = Free
  OBVIOUS
<1>2. Free \in Flow /\ Staged(Free) /\ Free.at = 0 /\ ~PastAuth(Free)
  BY DEF Free, Flow, Says, Staged, PastAuth
<1>3. FlowsOk(c.track, fl)
  BY <1>1, <1>2 DEF FlowsOk, Placed
<1>4. \A i : On(fl, i) = {}
  BY <1>1, <1>2 DEF On
<1>5. SlidesOk(c.track, fl)
  BY <1>4, CarInitStanding DEF SlidesOk, SlideOk, RightOwn
<1> QED BY <1>3, <1>5, CarInitStanding

LEMMA LandInit == Init => LandInv
<1> SUFFICES ASSUME Init PROVE LandInv
  OBVIOUS
<1>1. PICK p \in 1..Total : LInit(p)
  BY LandingAssumption DEF Init
<1> QED BY <1>1, LoadedLand DEF LInit, LandInv

LEMMA LandStep ==
    ASSUME LandInv, [Next]_vars
    PROVE  LandInv'
<1>1. CASE UNCHANGED <<car, flows>>
  BY <1>1 DEF LandInv
<1>2. ASSUME NEW d, Load(d) PROVE LandInv'
  <2>1. Total \in 1..Total
    BY LandingAssumption
  <2>2. PICK p \in 1..Total : car' = CarInit(p)
    BY <1>2, <2>1, LandingAssumption DEF Load
  <2>3. flows' = [f \in Clicks |-> Free]
    BY <1>2 DEF Load
  <2> QED BY <2>2, <2>3, LoadedLand DEF LandInv
<1>3. CASE CarouselNext
  <2>1. CASE (\E step \in {-1, 1} : Arrow(step)) \/ OnTransitionDone
    <3>1. Standing(car') /\ car'.track = car.track /\ UNCHANGED flows
      BY <2>1, CarouselStep DEF LandInv
    <3> QED BY <3>1 DEF LandInv
  <2> QED BY <1>3, <2>1, ResizeLand DEF CarouselNext
<1> QED BY <1>1, <1>2, <1>3, PageFrame, LaunchLand DEF lvars, RunAnswered

(* The carousel stands at a slide that exists, and fills the view as long as *)
(* no slide was lost, for every number of slides and every width.            *)
THEOREM CarouselFillsView == Spec => []SlidesFill
<1>1. LandInv /\ [Next]_vars => LandInv'
  BY LandStep
<1>2. LandInv => SlidesFill
  BY StandingFills DEF SlidesFill, LandInv
<1> QED BY <1>1, <1>2, LandInit, PTL DEF Spec

(* On every copy of the own image's slide that no upload has in progress,    *)
(* the button follows the copy's input and says so, unless the copy was made *)
(* during an upload, or, for the text, two uploads overlapped on it.         *)
THEOREM ButtonFollows == Spec => []ButtonFollowsFile
<1>1. LandInv /\ [Next]_vars => LandInv'
  BY LandStep
<1>2. LandInv => ButtonFollowsFile
  <2> SUFFICES ASSUME LandInv, NEW i \in OwnSlides \ Busy PROVE Right(car.track[i])
    BY DEF ButtonFollowsFile
  <2>1. i \in 1..Len(car.track) /\ car.track[i].n = Custom
    BY LandFacts DEF OwnSlides
  <2>2. On(flows, i) = {}
    BY BusyOn
  <2> QED BY <2>1, <2>2 DEF LandInv, SlidesOk, SlideOk
<1> QED BY <1>1, <1>2, LandInit, PTL DEF Spec
=============================================================================
