-------------------------- MODULE RfbResizeProofs ---------------------------
(* Theorems about a session and its size, for every list of security types, *)
(* every number of messages and every set of widths: the page is told of    *)
(* the session in order, the viewport stays inside the remote desktop, the  *)
(* desktop follows the window, and a session that ends lets go of its       *)
(* channel, its timer and the keyboard.                                     *)
EXTENDS RfbResize, TLAPS, FiniteSetTheorems, FunctionTheorems, SequenceTheorems

-----------------------------------------------------------------------------
(* The connection: every change of c goes through _updateConnectionState.   *)

Conns  == {"connecting", "connected", "disconnecting", "disconnected"}
Readys == {"connecting", "open", "closing", "closed"}
Tolds  == {<<>>, <<"connect">>, <<"disconnect">>, <<"connect", "disconnect">>}

Connection == [conn: Conns, timer: BOOLEAN, clean: BOOLEAN, ready: Readys, recv: BOOLEAN,
               onclose: BOOLEAN, grabbed: BOOLEAN, told: Tolds]

\* What was told of a connection in state x.conn.
ToldAs(x) ==
    CASE x.conn = "connecting"    -> {<<>>}
      [] x.conn = "connected"     -> {<<"connect">>}
      [] x.conn = "disconnecting" -> {<<>>, <<"connect">>}
      [] x.conn = "disconnected"  -> {<<"disconnect">>, <<"connect", "disconnect">>}

Over(x) == x.conn \in {"disconnecting", "disconnected"}

Sound(x) ==
    /\ x \in Connection
    /\ x.told \in ToldAs(x)
    /\ Over(x) => ~x.recv /\ x.ready \in {"closing", "closed"}
    /\ x.timer <=> x.conn = "disconnecting"

LEMMA AppendTwo ==
    ASSUME NEW S, NEW a \in S, NEW b \in S
    PROVE  Append(<<a>>, b) = <<a, b>>
<1>1. <<a>> \in Seq(S) /\ Len(<<a>>) = 1 /\ <<a, b>> \in Seq(S) /\ Len(<<a, b>>) = 2
  OBVIOUS
<1>2. Append(<<a>>, b) \in Seq(S) /\ Len(Append(<<a>>, b)) = 2
  BY <1>1, AppendProperties
<1>3. Append(<<a>>, b)[1] = a /\ Append(<<a>>, b)[2] = b
  BY <1>1, AppendProperties
<1>4. \A i \in 1..2 : Append(<<a>>, b)[i] = <<a, b>>[i]
  <2> TAKE i \in 1..2
  <2>1. i = 1 \/ i = 2
    OBVIOUS
  <2> QED BY <1>3, <2>1
<1> QED BY <1>1, <1>2, <1>4, SeqEqual

LEMMA UpdateSound ==
    ASSUME NEW x, Sound(x), NEW new \in {"connected", "disconnecting", "disconnected"}
    PROVE  Sound(UpdateConnectionState(x, new))
<1> DEFINE u == UpdateConnectionState(x, new)
<1>1. x \in Connection /\ x.conn \in Conns /\ x.ready \in Readys
  BY DEF Sound, Connection
<1>2. CASE ~Transition(x.conn, new)
  BY <1>2 DEF UpdateConnectionState
<1>3. CASE new = "connected" /\ x.conn = "connecting"
  <2>1. x.told = <<>> /\ ~x.timer
    BY <1>3 DEF Sound, ToldAs
  <2>2. Append(x.told, "connect") = <<"connect">>
    BY <2>1
  <2>3. \E b \in BOOLEAN :
           u = [x EXCEPT !.conn = "connected", !.timer = FALSE, !.onclose = b,
                         !.told = Append(x.told, "connect")]
    BY <1>1, <1>3 DEF UpdateConnectionState, Transition, Connection
  <2> QED BY <1>1, <1>3, <2>2, <2>3 DEF Sound, Connection, ToldAs, Over, Conns, Tolds
<1>4. CASE new = "disconnecting" /\ x.conn \in {"connecting", "connected"}
  <2>1. x.told \in {<<>>, <<"connect">>}
    BY <1>4 DEF Sound, ToldAs
  <2> DEFINE y == [x EXCEPT !.conn = new, !.onclose = @ /\ ~(x.timer /\ new # "disconnecting"),
                            !.timer = @ /\ new = "disconnecting"]
  <2>2. u = [Disconnect(y) EXCEPT !.timer = TRUE]
    BY <1>4 DEF UpdateConnectionState, Transition
  <2>3. y \in Connection /\ y.conn = "disconnecting" /\ y.told = x.told
    BY <1>1, <1>4 DEF Connection, Conns
  <2> HIDE DEF y
  <2>4. /\ Disconnect(y) \in Connection
        /\ Disconnect(y).conn = y.conn /\ Disconnect(y).told = y.told
        /\ ~Disconnect(y).recv /\ Disconnect(y).ready \in {"closing", "closed"}
    BY <2>3 DEF Disconnect, Connection, Readys
  <2> QED BY <2>1, <2>2, <2>3, <2>4 DEF Sound, Connection, ToldAs, Over
<1>5. CASE new = "disconnected" /\ x.conn = "disconnecting"
  <2>1. x.told \in {<<>>, <<"connect">>}
    BY <1>5 DEF Sound, ToldAs
  <2> DEFINE told == Append(x.told, "disconnect")
  <2>2. told \in {<<"disconnect">>, <<"connect", "disconnect">>}
    <3>1. Append(<<>>, "disconnect") = <<"disconnect">>
      OBVIOUS
    <3>2. Append(<<"connect">>, "disconnect") = <<"connect", "disconnect">>
      <4>1. "connect" \in {"connect", "disconnect"} /\ "disconnect" \in {"connect", "disconnect"}
        OBVIOUS
      <4> QED BY ONLY <4>1, AppendTwo, Zenon
    <3> QED BY ONLY <2>1, <3>1, <3>2, Zenon DEF told
  <2>3. \E b \in BOOLEAN :
           u = [x EXCEPT !.conn = "disconnected", !.timer = FALSE, !.onclose = b, !.told = told]
    BY <1>1, <1>5 DEF UpdateConnectionState, Transition, Connection
  <2>4. told \in Tolds
    BY <2>2, Zenon DEF Tolds
  <2> HIDE DEF told, u
  <2>5. /\ u \in Connection /\ u.conn = "disconnected" /\ u.told = told
        /\ u.recv = x.recv /\ u.ready = x.ready /\ ~u.timer
    BY <1>1, <2>3, <2>4 DEF Connection, Conns
  <2>6. ToldAs(u) = {<<"disconnect">>, <<"connect", "disconnect">>}
    BY <2>5 DEF ToldAs
  <2> QED BY <1>5, <2>2, <2>5, <2>6 DEF Sound, Over, u
<1> QED BY <1>1, <1>2, <1>3, <1>4, <1>5 DEF Transition

LEMMA EndedSound ==
    ASSUME NEW x, Sound(x)
    PROVE  Sound(Ended(x)) /\ Sound(Fail(x))
<1>1. ASSUME NEW y, Sound(y) PROVE Sound(Ended(y))
  BY <1>1, UpdateSound DEF Ended
<1>2. Sound([x EXCEPT !.clean = FALSE])
  BY DEF Sound, Connection, ToldAs, Over
<1> QED BY <1>1, <1>2 DEF Fail

LEMMA ClosedBySound ==
    ASSUME NEW x, Sound(x)
    PROVE  Sound(ClosedBy(x))
<1>1. ASSUME NEW y, Sound(y) PROVE Sound([y EXCEPT !.onclose = FALSE])
  BY <1>1 DEF Sound, Connection, ToldAs, Over
<1> QED BY <1>1, EndedSound DEF ClosedBy

-----------------------------------------------------------------------------
(* Steps of the session. *)

\* What a step does to c, apart from opening and the end of the handshake.
Keeps == c' = c \/ c' = Fail(c)

LEMMA InitMsgConnection ==
    ASSUME InitMsg
    PROVE  Keeps \/ NegotiateServerInit
<1>1. CASE NegotiateProtocolVersion
  BY <1>1 DEF NegotiateProtocolVersion, Waits, FailsWith, Quiet, Keeps
<1>2. CASE NegotiateSecurity
  BY <1>2 DEF NegotiateSecurity, Waits, FailsWith, Quiet, Keeps
<1>3. CASE HandleSecurityReason \/ UnsupportedScheme \/ HandleSecurityResult
  BY <1>3 DEF HandleSecurityReason, UnsupportedScheme, HandleSecurityResult, Waits, FailsWith, Quiet, Keeps
<1>4. CASE NegotiateNone \/ NegotiateXvpAuth \/ NegotiatePlainAuth \/ NegotiateChallenge \/ NegotiateARDAuth
  BY <1>4 DEF NegotiateNone, NegotiateXvpAuth, NegotiatePlainAuth, NegotiateChallenge, NegotiateARDAuth,
     AsksCredentials, Answered, Waits, Quiet, Keeps
<1>5. CASE NegotiateTightTunnels \/ NegotiateTightSubAuth
  BY <1>5 DEF NegotiateTightTunnels, NegotiateTightSubAuth, Waits, FailsWith, Quiet, Keeps
<1>6. CASE NegotiateVeNCryptAuth \/ NegotiateRA2neAuth \/ ClientInitialisation
  BY <1>6 DEF NegotiateVeNCryptAuth, VeNCryptSteps, NegotiateRA2neAuth, ClientInitialisation, Waits,
     FailsWith, Quiet, Keeps
<1> QED BY <1>1, <1>2, <1>3, <1>4, <1>5, <1>6 DEF InitMsg

LEMMA RA2Connection ==
    ASSUME RA2
    PROVE  Keeps
BY DEF RA2, RA2Key, RA2Verify, RA2Approved, RA2SendKey, RA2Random, RA2SendHash, RA2Hash, RA2Subtype,
   RA2AskCredentials, RA2SendCredentials, RA2Throws, Quiet, Keeps

LEMMA NextSound ==
    ASSUME Sound(c), [Next]_vars
    PROVE  Sound(c')
<1>1. CASE Keeps
  BY <1>1, EndedSound DEF Keeps
<1>2. CASE NegotiateServerInit
  <2>1. Sound([c EXCEPT !.grabbed = TRUE])
    BY DEF Sound, Connection, ToldAs, Over
  <2> QED BY <1>2, <2>1, UpdateSound DEF NegotiateServerInit, Quiet
<1>3. CASE SocketOpen
  BY <1>3 DEF SocketOpen, Sound, Connection, ToldAs, Over, Readys
<1>4. CASE SocketClose
  <2>1. Sound([c EXCEPT !.ready = "closed"])
    BY DEF Sound, Connection, ToldAs, Over, Readys
  <2> QED BY <1>4, <2>1, ClosedBySound DEF SocketClose
<1>5. CASE DisconnectTimeout \/ DisconnectCall
  BY <1>5, UpdateSound DEF DisconnectTimeout, DisconnectCall
<1>6. CASE NormalMsg \/ Receive \/ ServerSpeaks \/ ResumeAuthentication \/ SendCredentials \/ ApproveServer \/ ARDAuthAsync
  BY <1>1, <1>6 DEF NormalMsg, Receive, ServerSpeaks, Speaks, ResumeAuthentication, SendCredentials, ApproveServer,
     ARDAuthAsync, Quiet, Keeps
<1>7. CASE UNCHANGED vars
  BY <1>7 DEF vars
<1> QED BY <1>1, <1>2, <1>3, <1>4, <1>5, <1>6, <1>7, InitMsgConnection, RA2Connection DEF Next

THEOREM SessionSound == WSpec => []Sound(c)
<1>1. WInit => Sound(c)
  BY DEF WInit, Init, CInit, Sound, Connection, ToldAs, Over, Conns, Readys, Tolds
<1>2. Sound(c) /\ [WNext]_wvars => Sound(c)'
  <2> SUFFICES ASSUME Sound(c), [WNext]_wvars PROVE Sound(c')
    BY DEF Sound, Connection, ToldAs, Over
  <2>1. CASE SessionStep \/ ExtendedDesktopSize
    BY <2>1, NextSound DEF SessionStep, ExtendedDesktopSize, Next
  <2>2. CASE ServerResizes \/ ServerAnswers
    BY <2>2 DEF ServerResizes, ServerAnswers, Speaks
  <2>3. CASE WindowResized \/ Observed \/ Frame \/ ResizeTimer \/ Cools \/ SetClipViewport \/ SetScaleViewport \/ Drag
    BY <2>3 DEF WindowResized, Observed, Frame, ResizeTimer, Cools, SetClipViewport, SetScaleViewport,
       Drag, Changes, Alone, vars
  <2>4. CASE UNCHANGED wvars
    BY <2>4 DEF wvars
  <2> QED BY <2>1, <2>2, <2>3, <2>4 DEF WNext
<1> QED BY <1>1, <1>2, PTL DEF WSpec

(* The page is told of the connection at most once, then of the end at most  *)
(* once, and of nothing after that, in every session of rfb.js.              *)
THEOREM EventsAnnounced == WSpec => []Announced
<1>1. Sound(c) => Announced
  BY DEF Sound, ToldAs, Announced
<1> QED BY <1>1, SessionSound, PTL


-----------------------------------------------------------------------------
(* What is on its way to the client.  A size message that has not been       *)
(* handled is behind every "size" in the receive queue and in the channel,   *)
(* so that HandleExtendedDesktopSize finds what the message says.            *)

Texts == {"repeater", "bad", "3.3", "3.7", "3.8", "rest", "0", "reason", "unsupported", "ok", "refused", "challenge", "params", "key",
          "badkey", "version", "badversion", "tunnel", "othertunnels", "notunnels", "empty", "none", "vnc",
          "unix", "others", "refuses", "ack", "plain", "server", "extension", "random", "hash", "badhash",
          "subtype", "bell", "unknown", "ra2", "tight", "vencrypt", "xvp", "ard", "mslogon"}

All == Texts \cup {"size"}

Count(s) == Cardinality({i \in 1..Len(s) : s[i] = "size"})

LEMMA CountType ==
    ASSUME NEW s \in Seq(All)
    PROVE  Count(s) \in Nat /\ IsFiniteSet({i \in 1..Len(s) : s[i] = "size"})
<1>1. IsFiniteSet(1..Len(s))
  BY FS_Interval, LenProperties
<1>2. IsFiniteSet({i \in 1..Len(s) : s[i] = "size"})
  BY <1>1, FS_Subset
<1> QED BY <1>2, FS_CardinalityType DEF Count

LEMMA CountConcat ==
    ASSUME NEW s \in Seq(All), NEW t \in Seq(All)
    PROVE  Count(s \o t) = Count(s) + Count(t)
<1> DEFINE S == {i \in 1..Len(s) : s[i] = "size"}
           T == {i \in 1..Len(t) : t[i] = "size"}
           U == {i \in 1..Len(s \o t) : (s \o t)[i] = "size"}
           V == {i \in Len(s) + 1 .. Len(s) + Len(t) : t[i - Len(s)] = "size"}
<1>1. /\ Len(s) \in Nat /\ Len(t) \in Nat /\ Len(s \o t) = Len(s) + Len(t)
      /\ \A i \in 1..Len(s) + Len(t) : (s \o t)[i] = IF i <= Len(s) THEN s[i] ELSE t[i - Len(s)]
  BY ConcatProperties, LenProperties
<1>2. U = S \cup V /\ S \cap V = {}
  BY <1>1
<1>3. IsFiniteSet(S) /\ IsFiniteSet(T)
  BY CountType
<1>4. ExistsBijection(T, V)
  <2> DEFINE f == [i \in T |-> i + Len(s)]
  <2>1. f \in Bijection(T, V)
    <3>1. f \in [T -> V]
      BY <1>1
    <3>2. \A a, b \in T : f[a] = f[b] => a = b
      BY <1>1
    <3>3. \A v \in V : \E i \in T : f[i] = v
      <4> TAKE v \in V
      <4>1. v - Len(s) \in T /\ f[v - Len(s)] = v
        BY <1>1
      <4> QED BY <4>1
    <3> QED BY <3>1, <3>2, <3>3, Fun_IsBij
  <2> QED BY <2>1 DEF ExistsBijection
<1>5. IsFiniteSet(V) /\ Cardinality(V) = Cardinality(T)
  BY <1>3, <1>4, FS_Bijection
<1>6. Cardinality(U) = Cardinality(S) + Cardinality(V) - Cardinality(S \cap V)
  BY <1>2, <1>3, <1>5, FS_Union
<1>7. Cardinality(S \cap V) = 0
  BY <1>2, FS_EmptySet
<1>8. Count(s) = Cardinality(S) /\ Count(t) = Cardinality(T) /\ Count(s \o t) = Cardinality(U)
  BY Zenon DEF Count
<1>9. Cardinality(S) \in Nat /\ Cardinality(T) \in Nat
  BY <1>3, FS_CardinalityType
<1> HIDE DEF S, T, U, V
<1> QED BY <1>5, <1>6, <1>7, <1>8, <1>9

LEMMA CountNone ==
    ASSUME NEW s \in Seq(Texts)
    PROVE  s \in Seq(All) /\ Count(s) = 0
<1>1. s \in Seq(All)
  BY DEF All
<1>2. {i \in 1..Len(s) : s[i] = "size"} = {}
  BY DEF Texts
<1> QED BY <1>1, <1>2, FS_EmptySet DEF Count

\* What is left of a queue when its head was read.
LEMMA CountRead ==
    ASSUME NEW s \in Seq(All), NEW k \in Nat \ {0}
    PROVE  /\ SubSeq(s, k, Len(s)) \in Seq(All)
           /\ Count(SubSeq(s, k, Len(s))) <= Count(s)
           /\ k > 1 /\ Len(s) >= 1 /\ s[1] = "size" => Count(SubSeq(s, k, Len(s))) < Count(s)
<1> DEFINE t == SubSeq(s, k, Len(s))
<1>1. Len(s) \in Nat
  BY LenProperties
<1>2. CASE k > Len(s)
  <2>1. t = <<>>
    BY <1>1, <1>2, SubSeqEmpty
  <2>2. t \in Seq(All) /\ Count(t) = 0
    <3>1. <<>> \in Seq(Texts)
      OBVIOUS
    <3> QED BY <2>1, <3>1, CountNone
  <2>3. ASSUME Len(s) >= 1, s[1] = "size" PROVE Count(s) # 0
    <3> DEFINE S == {i \in 1..Len(s) : s[i] = "size"}
    <3>1. 1 \in S
      BY <1>1, <2>3
    <3>2. IsFiniteSet(S)
      BY CountType
    <3>3. Count(s) = Cardinality(S)
      BY Zenon DEF Count
    <3> HIDE DEF S
    <3> QED BY <3>1, <3>2, <3>3, FS_EmptySet
  <2>4. Count(s) \in Nat
    BY CountType
  <2> HIDE DEF t
  <2> QED BY <2>2, <2>3, <2>4 DEF t
<1>3. CASE k <= Len(s)
  <2> DEFINE f == [i \in 1..Len(t) |-> i + (k - 1)]
             T == {i \in 1..Len(t) : t[i] = "size"}
             S == {i \in 1..Len(s) : s[i] = "size"}
             I == {i \in k..Len(s) : s[i] = "size"}
  <2>1. /\ t \in Seq(All) /\ Len(t) = Len(s) - k + 1
        /\ \A i \in 1..Len(t) : t[i] = s[k + i - 1]
    BY <1>1, <1>3, SubSeqProperties
  <2>2. ExistsBijection(I, T)
    <3> DEFINE g == [i \in I |-> i - k + 1]
    <3>1. g \in [I -> T]
      BY <1>1, <1>3, <2>1
    <3>2. \A a, b \in I : g[a] = g[b] => a = b
      BY <1>1, <1>3
    <3>3. \A v \in T : \E i \in I : g[i] = v
      <4> TAKE v \in T
      <4>1. v + k - 1 \in I /\ g[v + k - 1] = v
        BY <1>1, <1>3, <2>1
      <4> QED BY <4>1
    <3>4. g \in Bijection(I, T)
      BY <3>1, <3>2, <3>3, Fun_IsBij
    <3> QED BY <3>4 DEF ExistsBijection
  <2>3. IsFiniteSet(S) /\ Cardinality(S) = Count(s)
    BY CountType DEF Count
  <2>4. I \subseteq S
    BY <1>1
  <2>5. IsFiniteSet(I) /\ Cardinality(I) <= Cardinality(S) /\ (Cardinality(I) = Cardinality(S) => I = S)
    BY <2>3, <2>4, FS_Subset
  <2>6. Cardinality(T) = Cardinality(I)
    BY <2>2, <2>5, FS_Bijection
  <2>7. k > 1 /\ s[1] = "size" => 1 \in S \ I
    BY <1>1, <1>3
  <2>8. Cardinality(I) \in Nat /\ Cardinality(S) \in Nat
    BY <2>3, <2>5, FS_CardinalityType
  <2>9. Count(t) = Cardinality(T)
    BY Zenon DEF Count
  <2> HIDE DEF S, I, T, t
  <2>10. k > 1 /\ s[1] = "size" => Cardinality(I) # Cardinality(S)
    BY <2>5, <2>7
  <2> QED BY <2>1, <2>3, <2>5, <2>6, <2>8, <2>9, <2>10 DEF t
<1> QED BY <1>1, <1>2, <1>3

Queues == "rq" \in DOMAIN h /\ h.rq \in Seq(All) /\ wire \in Seq(All)

\* What a step of the client does to the queues: it reads, and it may be answered.
Reads   == "rq" \in DOMAIN h' /\ (h'.rq = h.rq \/ \E k \in {3, 5} : h'.rq = SubSeq(h.rq, k, Len(h.rq)))
Answers == wire' = wire \/ \E a \in Seq(Texts) : wire' = wire \o a

LEMMA UnitTexts ==
    /\ \A m \in Texts : Unit(m) \in Seq(Texts)
    /\ \A a, b \in Seq(Texts) : a \o b \in Seq(Texts)
<1>1. "rest" \in Texts
  BY DEF Texts
<1>2. ASSUME NEW m \in Texts PROVE Unit(m) \in Seq(Texts)
  BY <1>1, <1>2 DEF Unit
<1>3. ASSUME NEW a \in Seq(Texts), NEW b \in Seq(Texts) PROVE a \o b \in Seq(Texts)
  BY <1>3, ConcatProperties
<1> QED BY <1>2, <1>3

LEMMA ServerTexts ==
    /\ Results \subseteq Seq(Texts)
    /\ VeNCryptAnswers \subseteq Seq(Texts)
    /\ \A scheme : Openings(scheme) \subseteq Seq(Texts)
    /\ \A ver : Securities(ver) \subseteq Seq(Texts)
    /\ \A v \in Versions : Unit(v) \in Seq(Texts)
<1> DEFINE Subs == {"empty", "none", "vnc", "unix", "others", "plain"}
<1>1. /\ Subs \subseteq Texts /\ Schemes \subseteq Texts /\ Versions \subseteq Texts
      /\ "ok" \in Texts /\ "refused" \in Texts /\ "reason" \in Texts /\ "0" \in Texts
      /\ "challenge" \in Texts /\ "params" \in Texts /\ "key" \in Texts /\ "badkey" \in Texts
      /\ "version" \in Texts /\ "badversion" \in Texts /\ "refuses" \in Texts /\ "ack" \in Texts
      /\ "tunnel" \in Texts /\ "othertunnels" \in Texts /\ "notunnels" \in Texts
  BY SchemesAssumption, VersionsAssumption DEF Texts, Supported
<1>2. \A a, b \in Texts : Unit(a) \o Unit(b) \in Seq(Texts)
  BY UnitTexts
<1>3. <<>> \in Seq(Texts)
  OBVIOUS
<1> DEFINE U(m)    == Unit(m)
           UU(a, b) == Unit(a) \o Unit(b)
<1>4. (\A m \in Texts : U(m) \in Seq(Texts)) /\ (\A a, b \in Texts : UU(a, b) \in Seq(Texts))
  BY <1>2, UnitTexts
<1>5. Results \subseteq Seq(Texts)
  BY <1>1, <1>2, UnitTexts DEF Results
<1>6. VeNCryptAnswers \subseteq Seq(Texts)
  <2>1. VeNCryptAnswers = {U("refuses")} \cup {UU("ack", m) : m \in Subs \ {"unix"}}
    BY DEF VeNCryptAnswers
  <2> HIDE DEF U, UU
  <2> QED BY <1>1, <1>4, <2>1
<1>7. ASSUME NEW ver PROVE Securities(ver) \subseteq Seq(Texts)
  <2>1. Securities(ver) = {U(s) : s \in Schemes} \cup {UU("0", "reason")}
    BY DEF Securities
  <2> HIDE DEF U, UU
  <2> QED BY <1>1, <1>4, <2>1
<1>8. ASSUME NEW scheme PROVE Openings(scheme) \subseteq Seq(Texts)
  <2>1. CASE scheme = "none"
    <3>1. Openings(scheme) = Results \/ Openings(scheme) = {<<>>}
      BY <2>1 DEF Openings
    <3> QED BY <1>3, <1>5, <3>1
  <2>2. CASE scheme \in {"vnc", "ard", "mslogon"}
    <3>1. Openings(scheme) = {U("challenge")} \/ Openings(scheme) = {U("params")}
      BY <2>2 DEF Openings
    <3> HIDE DEF U
    <3>2. U("challenge") \in Seq(Texts) /\ U("params") \in Seq(Texts)
      BY <1>1, <1>4
    <3> QED BY <3>1, <3>2
  <2>3. CASE scheme \in {"ra2", "vencrypt"}
    <3>1. Openings(scheme) = {U("key"), U("badkey")} \/ Openings(scheme) = {U("version"), U("badversion")}
      BY <2>3 DEF Openings
    <3> HIDE DEF U
    <3>2. /\ U("key") \in Seq(Texts) /\ U("badkey") \in Seq(Texts)
          /\ U("version") \in Seq(Texts) /\ U("badversion") \in Seq(Texts)
      BY <1>1, <1>4
    <3> QED BY <3>1, <3>2
  <2>4. CASE scheme = "tight"
    <3>1. Openings(scheme) = {U("tunnel"), U("othertunnels")} \cup {UU("notunnels", m) : m \in Subs \ {"plain"}}
      BY <2>4 DEF Openings
    <3> HIDE DEF U, UU
    <3> QED BY <1>1, <1>4, <3>1
  <2>5. CASE scheme \notin {"none", "vnc", "ard", "mslogon", "ra2", "vencrypt", "tight"}
    <3>1. Openings(scheme) = {<<>>}
      BY <2>5 DEF Openings
    <3> QED BY <1>3, <3>1
  <2> QED BY <2>1, <2>2, <2>3, <2>4, <2>5
<1> QED BY <1>1, <1>5, <1>6, <1>7, <1>8, UnitTexts

LEMMA SendsTexts ==
    ASSUME NEW S \in SUBSET Seq(Texts), Sends(S)
    PROVE  Answers
BY DEF Sends, Answers

LEMMA AwaitsReads ==
    /\ \A at : "rq" \in DOMAIN h => "rq" \in DOMAIN Awaits(h, at) /\ Awaits(h, at).rq = h.rq
    /\ \A at : "rq" \in DOMAIN h => "rq" \in DOMAIN Awaits([h EXCEPT !.rq = Rest], at)
                                    /\ Awaits([h EXCEPT !.rq = Rest], at).rq = Rest
    /\ "rq" \in DOMAIN h => "rq" \in DOMAIN Settled(h) /\ Settled(h).rq = h.rq
BY DEF Awaits, Settled

LEMMA InitMsgQueues ==
    ASSUME "rq" \in DOMAIN h, InitMsg
    PROVE  Reads /\ Answers
<1> USE DEF Reads, Rest
<1>0. UNCHANGED wire \/ (\E S \in SUBSET Seq(Texts) : Sends(S)) => Answers
  BY SendsTexts DEF Answers
<1>1. CASE NegotiateProtocolVersion
  <2>1. {Unit(v) : v \in Versions \ {"repeater"}} \in SUBSET Seq(Texts)
    BY ServerTexts
  <2>2. Securities(HeadMsg) \in SUBSET Seq(Texts)
    BY ServerTexts
  <2>3. Answers
    BY <1>0, <1>1, <2>1, <2>2 DEF NegotiateProtocolVersion, Waits, FailsWith, Quiet
  <2>4. Reads
    BY <1>1 DEF NegotiateProtocolVersion, Waits, FailsWith
  <2> QED BY <2>3, <2>4
<1>2. CASE NegotiateSecurity
  <2>1. Openings(HeadMsg) \in SUBSET Seq(Texts)
    BY ServerTexts
  <2>2. Answers
    BY <1>0, <1>2, <2>1 DEF NegotiateSecurity, Waits, FailsWith, Quiet
  <2>3. Reads
    BY <1>2 DEF NegotiateSecurity, Waits, FailsWith
  <2> QED BY <2>2, <2>3
<1>3. CASE HandleSecurityReason \/ UnsupportedScheme \/ HandleSecurityResult
  <2>1. Answers
    BY <1>0, <1>3 DEF HandleSecurityReason, UnsupportedScheme, HandleSecurityResult, Waits, FailsWith, Quiet
  <2>2. Reads
    BY <1>3 DEF HandleSecurityReason, UnsupportedScheme, HandleSecurityResult, Waits, FailsWith
  <2> QED BY <2>1, <2>2
<1>4. CASE NegotiateNone \/ NegotiateXvpAuth
  <2>1. {Unit("challenge")} \in SUBSET Seq(Texts)
    BY UnitTexts DEF Texts
  <2>2. Answers
    BY <1>0, <1>4, <2>1 DEF NegotiateNone, NegotiateXvpAuth, AsksCredentials, Quiet
  <2>3. Reads
    BY <1>4 DEF NegotiateNone, NegotiateXvpAuth, AsksCredentials
  <2> QED BY <2>2, <2>3
<1>5. CASE NegotiatePlainAuth \/ NegotiateChallenge \/ NegotiateARDAuth
  <2>1. Results \in SUBSET Seq(Texts)
    BY ServerTexts
  <2>2. Answers
    BY <1>0, <1>5, <2>1 DEF NegotiatePlainAuth, NegotiateChallenge, NegotiateARDAuth, AsksCredentials,
       Answered, Waits, Quiet
  <2>3. Reads
    BY <1>5 DEF NegotiatePlainAuth, NegotiateChallenge, NegotiateARDAuth, AsksCredentials, Answered, Waits
  <2> QED BY <2>2, <2>3
<1>6. CASE NegotiateTightTunnels
  <2>1. {Unit(m) : m \in {"empty", "none", "vnc", "unix", "others"}} \in SUBSET Seq(Texts)
    <3>1. {"empty", "none", "vnc", "unix", "others"} \subseteq Texts
      BY DEF Texts
    <3> QED BY <3>1, UnitTexts
  <2>2. Answers
    BY <1>0, <1>6, <2>1 DEF NegotiateTightTunnels, Waits, FailsWith, Quiet
  <2>3. Reads
    BY <1>6 DEF NegotiateTightTunnels, Waits, FailsWith
  <2> QED BY <2>2, <2>3
<1>7. CASE NegotiateTightSubAuth
  <2>1. Results \in SUBSET Seq(Texts) /\ Openings(HeadMsg) \in SUBSET Seq(Texts)
    BY ServerTexts
  <2>2. Answers
    BY <1>0, <1>7, <2>1 DEF NegotiateTightSubAuth, Waits, FailsWith, Quiet
  <2>3. Reads
    BY <1>7 DEF NegotiateTightSubAuth, Waits, FailsWith
  <2> QED BY <2>2, <2>3
<1>8. CASE NegotiateVeNCryptAuth
  <2>1. <<>> \in Seq(Texts)
    OBVIOUS
  <2>2. VeNCryptAnswers \in SUBSET Seq(Texts) /\ {<<>>} \in SUBSET Seq(Texts) /\ Openings(HeadMsg) \in SUBSET Seq(Texts)
    BY <2>1, ServerTexts
  <2>3. Answers
    BY <1>0, <1>8, <2>2 DEF NegotiateVeNCryptAuth, VeNCryptSteps, Waits, FailsWith, Quiet
  <2>4. Reads
    BY <1>8 DEF NegotiateVeNCryptAuth, VeNCryptSteps, Waits, FailsWith
  <2> QED BY <2>3, <2>4
<1>9. CASE NegotiateRA2neAuth
  BY <1>0, <1>9, AwaitsReads DEF NegotiateRA2neAuth, CheckInternalEvents, Quiet
<1>10. CASE ClientInitialisation
  <2>1. Unit("server") \o Unit("extension") \in Seq(Texts) /\ Unit("server") \o <<>> \in Seq(Texts)
    <3>1. "server" \in Texts /\ "extension" \in Texts /\ <<>> \in Seq(Texts)
      BY DEF Texts
    <3> QED BY <3>1, UnitTexts
  <2>2. {Unit("server") \o (IF h.tight THEN Unit("extension") ELSE <<>>)} \in SUBSET Seq(Texts)
    BY <2>1
  <2>3. Answers
    BY <1>0, <1>10, <2>2 DEF ClientInitialisation
  <2>4. Reads
    BY <1>10 DEF ClientInitialisation
  <2> QED BY <2>3, <2>4
<1>11. CASE NegotiateServerInit
  <2>1. Answers
    BY <1>0, <1>11 DEF NegotiateServerInit, Quiet
  <2>2. ASSUME NEW x PROVE "rq" \in DOMAIN Negotiated(x) /\ Negotiated(x).rq = x.rq
    BY DEF Negotiated, HInit
  <2>3. CASE h' = h
    BY <2>1, <2>3
  <2>4. CASE h' # h
    <3> DEFINE size == IF h.tight THEN 4 ELSE 2
               read == [h EXCEPT !.rq = SubSeq(@, size + 1, Len(@))]
    <3>1. h' = Negotiated(read)
      BY <1>11, <2>4 DEF NegotiateServerInit
    <3>2. size + 1 \in {3, 5} /\ read.rq = SubSeq(h.rq, size + 1, Len(h.rq))
      OBVIOUS
    <3> HIDE DEF read, size
    <3> QED BY <2>1, <2>2, <3>1, <3>2
  <2> QED BY <2>1, <2>3, <2>4
<1> QED BY <1>1, <1>2, <1>3, <1>4, <1>5, <1>6, <1>7, <1>8, <1>9, <1>10, <1>11 DEF InitMsg

LEMMA RA2Queues ==
    ASSUME "rq" \in DOMAIN h, RA2
    PROVE  Reads /\ Answers
<1>0. UNCHANGED wire \/ (\E S \in SUBSET Seq(Texts) : Sends(S)) => Answers
  BY SendsTexts DEF Answers
<1>1. \A at : (h' = Awaits(h, at) \/ h' = Awaits([h EXCEPT !.rq = Rest], at) \/ h' = Settled(h)) => Reads
  BY AwaitsReads DEF Reads, Rest
<1>2. CASE RA2Key \/ RA2Approved \/ RA2Random \/ RA2Hash \/ RA2Subtype \/ RA2Verify \/ RA2AskCredentials
  <2>1. UNCHANGED wire
    BY <1>2 DEF RA2Key, RA2Approved, RA2Random, RA2Hash, RA2Subtype, RA2Verify, RA2AskCredentials, RA2Throws, Quiet
  <2>2. CASE RA2Verify
    <3>1. h' = Awaits([h EXCEPT !.rq = Rest], "approve")
      BY <2>2 DEF RA2Verify
    <3> QED BY <1>0, <1>1, <2>1, <3>1
  <2>3. CASE ~RA2Verify
    <3>1. Reads
      BY <1>1, <1>2, <2>3 DEF RA2Key, RA2Approved, RA2Random, RA2Hash, RA2Subtype, RA2AskCredentials, RA2Throws
    <3> QED BY <1>0, <2>1, <3>1
  <2> QED BY <2>2, <2>3
<1>3. CASE RA2SendKey
  <2>1. {Unit("random")} \in SUBSET Seq(Texts)
    BY UnitTexts DEF Texts
  <2> QED BY <1>0, <1>1, <1>3, <2>1 DEF RA2SendKey
<1>4. CASE RA2SendHash
  <2>1. {Unit(m) \o Unit("subtype") : m \in {"hash", "badhash"}} \in SUBSET Seq(Texts)
    <3>1. "hash" \in Texts /\ "badhash" \in Texts /\ "subtype" \in Texts
      BY DEF Texts
    <3> QED BY <3>1, UnitTexts
  <2> QED BY <1>0, <1>1, <1>4, <2>1 DEF RA2SendHash
<1>5. CASE RA2SendCredentials
  <2>1. Results \in SUBSET Seq(Texts)
    BY ServerTexts
  <2> QED BY <1>0, <1>1, <1>5, <2>1 DEF RA2SendCredentials
<1> QED BY <1>2, <1>3, <1>4, <1>5 DEF RA2

Outstanding == Count(h.rq) + Count(wire)

LEMMA QueuesRead ==
    ASSUME Queues, Reads, Answers
    PROVE  Queues' /\ Count(h'.rq) <= Count(h.rq) /\ Count(wire') = Count(wire)
<1>1. h'.rq \in Seq(All) /\ Count(h'.rq) <= Count(h.rq)
  <2>1. CASE h'.rq = h.rq
    <3>1. h.rq \in Seq(All) /\ Count(h.rq) \in Nat
      BY CountType DEF Queues
    <3>2. Count(h'.rq) = Count(h.rq)
      BY <2>1
    <3> QED BY <2>1, <3>1, <3>2
  <2>2. ASSUME NEW k \in {3, 5}, h'.rq = SubSeq(h.rq, k, Len(h.rq))
        PROVE  h'.rq \in Seq(All) /\ Count(h'.rq) <= Count(h.rq)
    <3>1. k \in Nat \ {0}
      OBVIOUS
    <3> QED BY <2>2, <3>1, CountRead DEF Queues
  <2> QED BY <2>1, <2>2 DEF Reads
<1>2. wire' \in Seq(All) /\ Count(wire') = Count(wire)
  <2>1. CASE wire' = wire
    BY <2>1 DEF Queues
  <2>2. ASSUME NEW a \in Seq(Texts), wire' = wire \o a
        PROVE  wire' \in Seq(All) /\ Count(wire') = Count(wire)
    <3>1. a \in Seq(All) /\ Count(a) = 0 /\ wire \in Seq(All)
      BY CountNone DEF Queues
    <3>2. wire' \in Seq(All) /\ Count(wire') = Count(wire) + Count(a)
      BY <2>2, <3>1, CountConcat, ConcatProperties
    <3>3. Count(wire) \in Nat
      BY <3>1, CountType
    <3> QED BY <3>1, <3>2, <3>3
  <2> QED BY <2>1, <2>2 DEF Answers
<1> QED BY <1>1, <1>2 DEF Queues, Reads

\* Receiving moves what is in the channel to the queue and loses nothing.
LEMMA ReceiveQueues ==
    ASSUME Queues, Receive
    PROVE  Queues' /\ Outstanding' = Outstanding
<1>1. PICK n \in 1..Len(wire) : /\ h' = [h EXCEPT !.rq = @ \o SubSeq(wire, 1, n)]
                                /\ wire' = SubSeq(wire, n + 1, Len(wire))
  BY DEF Receive
<1> DEFINE a == SubSeq(wire, 1, n)
           b == SubSeq(wire, n + 1, Len(wire))
<1>2. wire \in Seq(All) /\ h.rq \in Seq(All) /\ "rq" \in DOMAIN h /\ Len(wire) \in Nat
  BY LenProperties DEF Queues
<1>3. a \in Seq(All) /\ b \in Seq(All)
  BY <1>2, SubSeqProperties
<1>4. wire = a \o b
  <2>1. wire = SubSeq(wire, 1, Len(wire))
    BY <1>2, SubSeqFull
  <2>2. SubSeq(wire, 1, n) \o SubSeq(wire, n + 1, Len(wire)) = SubSeq(wire, 1, Len(wire))
    BY <1>2, ConcatAdjacentSubSeq
  <2> QED BY <2>1, <2>2
<1>5. h'.rq = h.rq \o a /\ "rq" \in DOMAIN h' /\ wire' = b
  BY <1>1, <1>2
<1> HIDE DEF a, b
<1>6. h'.rq \in Seq(All)
  BY <1>2, <1>3, <1>5, ConcatProperties
<1>7. Count(h'.rq) = Count(h.rq) + Count(a) /\ Count(wire) = Count(a) + Count(b)
  BY <1>2, <1>3, <1>4, <1>5, CountConcat
<1>8. Count(h.rq) \in Nat /\ Count(a) \in Nat /\ Count(b) \in Nat
  BY <1>2, <1>3, CountType
<1> QED BY <1>3, <1>5, <1>6, <1>7, <1>8 DEF Queues, Outstanding

\* No step of a session brings a size message to it, and one that handles such a message takes it away.
LEMMA NextQueues ==
    ASSUME Queues, [Next]_vars
    PROVE  /\ Queues' /\ Outstanding' <= Outstanding /\ Outstanding \in Nat /\ Outstanding' \in Nat
           /\ SizeMsg /\ NormalMsg => Outstanding' < Outstanding
<1>0. Count(h.rq) \in Nat /\ Count(wire) \in Nat
  BY CountType DEF Queues
<1>1. ASSUME Queues' PROVE Count(h'.rq) \in Nat /\ Count(wire') \in Nat
  BY <1>1, CountType DEF Queues
<1>2. CASE Reads /\ Answers /\ ~NormalMsg
  BY <1>0, <1>1, <1>2, QueuesRead DEF Outstanding
<1>3. CASE Receive
  <2>1. ~NormalMsg
    BY <1>3 DEF Receive, NormalMsg, Idle
  <2> QED BY <1>0, <1>1, <1>3, <2>1, ReceiveQueues DEF Outstanding
<1>4. CASE SocketOpen
  <2>1. PICK v \in Versions : wire' = Unit(v)
    BY <1>4 DEF SocketOpen
  <2>2. wire' \in Seq(All) /\ Count(wire') = 0
    BY <2>1, ServerTexts, CountNone
  <2>3. h'.rq = h.rq /\ "rq" \in DOMAIN h'
    BY <1>4 DEF SocketOpen, Queues
  <2>4. ~NormalMsg
    BY <1>4 DEF SocketOpen, NormalMsg, Idle
  <2> QED BY <1>0, <2>2, <2>3, <2>4 DEF Queues, Outstanding
<1>5. CASE NormalMsg
  <2>1. UNCHANGED wire /\ (h' = h \/ h' = [h EXCEPT !.rq = Rest])
    BY <1>5 DEF NormalMsg
  <2>2. Reads /\ Answers
    BY <2>1 DEF Reads, Answers, Rest, Queues
  <2>3. Queues' /\ Count(h'.rq) <= Count(h.rq) /\ Count(wire') = Count(wire)
    BY <2>2, QueuesRead
  <2>4. ASSUME SizeMsg PROVE Count(h'.rq) < Count(h.rq)
    <3>1. h' = [h EXCEPT !.rq = Rest] /\ Len(h.rq) >= 1 /\ h.rq[1] = "size"
      BY <1>5, <2>4, LenProperties DEF NormalMsg, SizeMsg, Whole, HeadMsg, Queues
    <3>2. h'.rq = SubSeq(h.rq, 3, Len(h.rq))
      BY <3>1 DEF Rest, Queues
    <3>3. 3 \in Nat \ {0} /\ 3 > 1
      OBVIOUS
    <3> QED BY <3>1, <3>2, <3>3, CountRead DEF Queues
  <2> QED BY <1>0, <1>1, <2>3, <2>4 DEF Outstanding
<1>6. CASE InitMsg \/ RA2
  <2>1. Reads /\ Answers
    BY <1>6, InitMsgQueues, RA2Queues DEF Queues
  <2>2. CASE NormalMsg
    BY <1>5, <2>2
  <2> QED BY <1>2, <2>1, <2>2
<1>7. CASE \/ SocketClose \/ DisconnectTimeout \/ ServerSpeaks \/ ResumeAuthentication \/ SendCredentials
           \/ ApproveServer \/ DisconnectCall \/ ARDAuthAsync \/ UNCHANGED vars
  <2>1. Reads
    BY <1>7, AwaitsReads DEF SocketClose, DisconnectTimeout, ServerSpeaks, Speaks, ResumeAuthentication,
       SendCredentials, ApproveServer, DisconnectCall, ARDAuthAsync, vars, Reads, Queues
  <2>2. Answers
    <3>1. Unit("bell") \in Seq(Texts) /\ Unit("unknown") \in Seq(Texts)
      BY UnitTexts DEF Texts
    <3> QED BY <1>7, <3>1 DEF SocketClose, DisconnectTimeout, ServerSpeaks, Speaks, ResumeAuthentication,
       SendCredentials, ApproveServer, DisconnectCall, ARDAuthAsync, vars, Answers, Quiet
  <2>3. CASE NormalMsg
    BY <1>5, <2>3
  <2> QED BY <1>2, <2>1, <2>2, <2>3
<1> QED BY <1>3, <1>4, <1>5, <1>6, <1>7 DEF Next

-----------------------------------------------------------------------------
(* The viewport: each operation of display.js and of rfb.js, given a state   *)
(* in which the viewport is inside, leaves one in which it is.               *)

Message == [reason: {0, 1, 2}, status: {0, 1}, width: Sizes]

SizeState ==
    [win: Sizes, seen: Nat, obs: BOOLEAN, frame: BOOLEAN, fb: Nat, x: Nat, w: Nat, dclip: BOOLEAN,
     scale: Nat \X Nat, clip: BOOLEAN, scaling: BOOLEAN, knows: BOOLEAN, pending: BOOLEAN, hot: BOOLEAN,
     timer: BOOLEAN, asked: Seq(Sizes), news: Seq(Message), remote: Sizes, changes: Nat, excused: BOOLEAN]

\* Before the position is set right, it may lie too far to the right.
Fits(y)  == y \in SizeState /\ y.w <= y.fb /\ (~y.dclip => y.w = y.fb /\ y.x <= y.fb)
Shown(y) == y \in SizeState /\ y.x + y.w <= y.fb /\ (~y.dclip => y.x = 0 /\ y.w = y.fb)

LEMMA ShownFits ==
    ASSUME NEW y, Shown(y)
    PROVE  /\ Fits(y) /\ y \in SizeState /\ y.x <= y.fb
           /\ y.fb \in Nat /\ y.x \in Nat /\ y.w \in Nat /\ y.win \in Nat /\ y.win \in Sizes
<1>1. y.fb \in Nat /\ y.x \in Nat /\ y.w \in Nat /\ y.win \in Sizes
  BY DEF Shown, SizeState
<1>2. y.x <= y.fb /\ y.w <= y.fb
  BY <1>1 DEF Shown
<1>3. y.win \in Nat
  BY <1>1, SizesAssumption
<1> QED BY <1>1, <1>2, <1>3 DEF Shown, Fits

LEMMA ChangePosShown ==
    ASSUME NEW y, Fits(y), NEW delta \in Int
    PROVE  Shown(ViewportChangePos(y, delta)) /\ ViewportChangePos(y, delta).news = y.news
<1> DEFINE d0 == IF y.dclip THEN delta ELSE -y.w
           d1 == IF d0 < 0 /\ y.x + d0 < 0 THEN -y.x ELSE d0
           d2 == IF y.x + y.w - 1 + d1 >= y.fb THEN y.fb - y.x - y.w ELSE d1
<1>1. y.fb \in Nat /\ y.x \in Nat /\ y.w \in Nat /\ y.dclip \in BOOLEAN
  BY DEF Fits, SizeState
<1>2. ViewportChangePos(y, delta) = [y EXCEPT !.x = y.x + d2]
  BY DEF ViewportChangePos
<1>3. y.x + d2 \in Nat /\ y.x + d2 + y.w <= y.fb /\ (~y.dclip => y.x + d2 = 0 /\ y.w = y.fb)
  <2>1. d0 \in Int /\ (~y.dclip => d0 = -y.fb)
    BY <1>1 DEF Fits
  <2>2. d1 \in Int /\ y.x + d1 >= 0 /\ (~y.dclip => y.x + d1 = 0)
    BY <1>1, <2>1 DEF Fits
  <2> HIDE DEF d0, d1
  <2> QED BY <1>1, <2>2 DEF Fits
<1> HIDE DEF d2
<1> QED BY <1>2, <1>3 DEF Fits, Shown, SizeState

LEMMA ChangeSizeFits ==
    ASSUME NEW y \in SizeState, ~y.dclip => y.x <= y.fb, NEW width \in Nat
    PROVE  LET z == ViewportChangeSize(y, width) IN
           /\ Fits(z) /\ z.news = y.news
           /\ Shown(z) \/ z = y
<1> DEFINE new == IF y.dclip THEN Lesser(width, y.fb) ELSE y.fb
<1>1. y.fb \in Nat /\ y.x \in Nat /\ y.w \in Nat
  BY DEF SizeState
<1>2. new \in Nat /\ new <= y.fb /\ (~y.dclip => new = y.fb)
  BY <1>1 DEF Lesser
<1>3. CASE new = y.w
  BY <1>2, <1>3 DEF ViewportChangeSize, Fits
<1>4. CASE new # y.w
  <2>1. ViewportChangeSize(y, width) = ViewportChangePos([y EXCEPT !.w = new], 0)
    BY <1>4 DEF ViewportChangeSize
  <2> HIDE DEF new
  <2> DEFINE v == [y EXCEPT !.w = new]
  <2>2. Fits(v) /\ v.news = y.news
    BY <1>2 DEF Fits, SizeState
  <2>3. ViewportChangeSize(y, width) = ViewportChangePos(v, 0)
    BY <2>1
  <2> HIDE DEF v
  <2>4. Shown(ViewportChangePos(v, 0)) /\ ViewportChangePos(v, 0).news = v.news
    BY <2>2, ChangePosShown
  <2> QED BY <2>2, <2>3, <2>4, ShownFits
<1> QED BY <1>3, <1>4

LEMMA ChangeSizeShown ==
    ASSUME NEW y, Shown(y), NEW width \in Nat
    PROVE  Shown(ViewportChangeSize(y, width)) /\ ViewportChangeSize(y, width).news = y.news
<1>1. y \in SizeState /\ (~y.dclip => y.x <= y.fb)
  BY ShownFits DEF Shown
<1> QED BY <1>1, ChangeSizeFits

LEMMA DisplayShown ==
    ASSUME NEW y, Shown(y)
    PROVE  /\ \A on \in BOOLEAN : Shown(DisplayClip(y, on)) /\ DisplayClip(y, on).news = y.news
           /\ \A width \in Nat : Shown(DisplayResize(y, width)) /\ DisplayResize(y, width).news = y.news
<1>1. y.w \in Nat /\ y.x \in Nat /\ y.fb \in Nat /\ y \in SizeState /\ y.x <= y.fb /\ (~y.dclip => y.x = 0)
  BY ShownFits DEF Shown
<1>2. ASSUME NEW on \in BOOLEAN PROVE Shown(DisplayClip(y, on)) /\ DisplayClip(y, on).news = y.news
  <2> DEFINE z == [y EXCEPT !.dclip = on]
  <2>1. z \in SizeState /\ z.x <= z.fb /\ z.news = y.news
    BY <1>1 DEF SizeState
  <2> HIDE DEF z
  <2>2. Fits(ViewportChangeSize(z, y.w)) /\ ViewportChangeSize(z, y.w).news = y.news
    BY <1>1, <2>1, ChangeSizeFits
  <2> QED BY <2>2, ChangePosShown DEF DisplayClip, z
<1>3. ASSUME NEW width \in Nat PROVE Shown(DisplayResize(y, width)) /\ DisplayResize(y, width).news = y.news
  <2> DEFINE z == [y EXCEPT !.fb = width]
  <2>1. z \in SizeState /\ (~z.dclip => z.x <= z.fb) /\ z.news = y.news
    <3>1. z \in SizeState /\ z.dclip = y.dclip /\ z.x = y.x /\ z.fb = width /\ z.news = y.news
      BY <1>1 DEF SizeState
    <3> HIDE DEF z
    <3> QED BY <1>1, <3>1
  <2> HIDE DEF z
  <2>2. Fits(ViewportChangeSize(z, y.w)) /\ ViewportChangeSize(z, y.w).news = y.news
    BY <1>1, <2>1, ChangeSizeFits
  <2> QED BY <2>2, ChangePosShown DEF DisplayResize, z
<1> QED BY <1>2, <1>3

\* The fields that the position of the viewport does not depend on.
LEMMA SaveShown ==
    ASSUME NEW y, Shown(y)
    PROVE  /\ Shown(SaveExpectedClientSize(y)) /\ SaveExpectedClientSize(y).news = y.news
           /\ Shown(UpdateScale(y)) /\ UpdateScale(y).news = y.news
<1>1. y.win \in Nat /\ y.w \in Nat
  BY ShownFits
<1>2. Shown(SaveExpectedClientSize(y)) /\ SaveExpectedClientSize(y).news = y.news
  BY <1>1 DEF SaveExpectedClientSize, Shown, SizeState
<1>3. \A s \in Nat \X Nat : Shown([y EXCEPT !.scale = s]) /\ [y EXCEPT !.scale = s].news = y.news
  BY DEF Shown, SizeState
<1>4. (IF y.scaling THEN <<y.win, y.w>> ELSE <<1, 1>>) \in Nat \X Nat
  BY <1>1
<1> QED BY <1>2, <1>3, <1>4 DEF UpdateScale

LEMMA UpdateClipShown ==
    ASSUME NEW y, Shown(y)
    PROVE  Shown(UpdateClip(y)) /\ UpdateClip(y).news = y.news
<1> DEFINE on == y.clip /\ ~y.scaling
           y1 == IF on = y.dclip THEN y ELSE DisplayClip(y, on)
           y2 == IF on THEN ViewportChangeSize(y1, y.win) ELSE y1
<1>1. on \in BOOLEAN /\ y.win \in Nat
  BY ShownFits
<1>2. Shown(y1) /\ y1.news = y.news
  BY <1>1, DisplayShown
<1> HIDE DEF y1
<1>3. Shown(y2) /\ y2.news = y.news
  BY <1>1, <1>2, ChangeSizeShown
<1>4. UpdateClip(y) = IF on = y.dclip THEN y2 ELSE SaveExpectedClientSize(y2)
  BY DEF UpdateClip, y1
<1> HIDE DEF y2
<1> QED BY <1>3, <1>4, SaveShown

LEMMA RequestShown ==
    ASSUME NEW y, Shown(y)
    PROVE  Shown(RequestRemoteResize(y)) /\ RequestRemoteResize(y).news = y.news
<1>1. y.win \in Sizes /\ y.asked \in Seq(Sizes)
  BY ShownFits DEF Shown, SizeState
<1>2. Append(y.asked, y.win) \in Seq(Sizes)
  BY <1>1, AppendProperties
<1>3. CASE ~y.knows \/ y.pending
  BY <1>3 DEF RequestRemoteResize
<1>4. CASE ~(~y.knows \/ y.pending) /\ y.hot
  <2>1. RequestRemoteResize(y) = [y EXCEPT !.timer = TRUE]
    BY <1>4 DEF RequestRemoteResize
  <2> QED BY <2>1, ZenonT(40) DEF Shown, SizeState
<1>5. CASE ~(~y.knows \/ y.pending) /\ ~y.hot /\ y.win = y.fb
  <2>1. RequestRemoteResize(y) = [y EXCEPT !.timer = FALSE, !.excused = FALSE]
    BY <1>5 DEF RequestRemoteResize
  <2> QED BY <2>1, ZenonT(40) DEF Shown, SizeState
<1>6. CASE ~(~y.knows \/ y.pending) /\ ~y.hot /\ y.win # y.fb
  <2> DEFINE q == Append(y.asked, y.win)
  <2>1. RequestRemoteResize(y) = [y EXCEPT !.timer = FALSE, !.pending = TRUE, !.hot = TRUE,
                                           !.excused = FALSE, !.asked = q]
    BY <1>6 DEF RequestRemoteResize
  <2>2. q \in Seq(Sizes)
    BY <1>2
  <2> HIDE DEF q
  <2> QED BY <2>1, <2>2, ZenonT(40) DEF Shown, SizeState
<1> QED BY <1>3, <1>4, <1>5, <1>6

LEMMA HandleResizeShown ==
    ASSUME NEW y, Shown(y)
    PROVE  Shown(HandleResize(y)) /\ HandleResize(y).news = y.news
<1>1. \A b \in BOOLEAN : Shown([y EXCEPT !.excused = b]) /\ [y EXCEPT !.excused = b].news = y.news
  BY DEF Shown, SizeState
<1>2. Shown([y EXCEPT !.frame = TRUE]) /\ [y EXCEPT !.frame = TRUE].news = y.news
  BY DEF Shown, SizeState
<1>3. CASE y.seen = y.win
  <2>1. HandleResize(y) = [y EXCEPT !.excused = y.excused \/ y.win # y.fb]
    BY <1>3 DEF HandleResize
  <2>2. (y.excused \/ y.win # y.fb) \in BOOLEAN
    OBVIOUS
  <2> QED BY <1>1, <2>1, <2>2
<1>4. CASE y.seen # y.win
  BY <1>2, <1>4, RequestShown DEF HandleResize
<1> QED BY <1>3, <1>4

LEMMA ResizeShown ==
    ASSUME NEW y, Shown(y), NEW width \in Nat
    PROVE  Shown(Resize(y, width)) /\ Resize(y, width).news = y.news
BY DisplayShown, UpdateClipShown, SaveShown DEF Resize

\* A size message: what it says is taken from the news.
LEMMA DesktopSizeShown ==
    ASSUME NEW y, Shown(y), y.news # <<>>
    PROVE  Shown(HandleExtendedDesktopSize(y)) /\ HandleExtendedDesktopSize(y).news = Tail(y.news)
<1> DEFINE n  == y.news[1]
           y1 == [y EXCEPT !.news = Tail(@), !.pending = @ /\ n.reason # 1]
           refused == n.reason = 1 /\ n.status # 0
           y2 == IF refused THEN y1 ELSE Resize(y1, n.width)
           y3 == [y2 EXCEPT !.excused = @ \/ refused \/ n.reason # 1]
<1>1. y \in SizeState /\ y.news \in Seq(Message)
  BY DEF Shown, SizeState
<1>2. n \in Message /\ Tail(y.news) \in Seq(Message)
  BY <1>1, HeadTailProperties
<1>3. n.width \in Nat
  BY <1>2, SizesAssumption DEF Message
<1>4. Shown(y1) /\ y1.news = Tail(y.news)
  <2> DEFINE t == Tail(y.news)
             b == y.pending /\ n.reason # 1
  <2>1. y1 = [y EXCEPT !.news = t, !.pending = b] /\ b \in BOOLEAN /\ t \in Seq(Message)
    BY <1>1, <1>2
  <2> HIDE DEF t, b, y1, n
  <2>2. Shown(y1) /\ y1.news = t
    BY <1>1, <2>1 DEF Shown, SizeState
  <2> QED BY <2>2 DEF t
<1> HIDE DEF n, y1, refused
<1>5. Shown(y2) /\ y2.news = Tail(y.news)
  BY <1>3, <1>4, ResizeShown
<1> HIDE DEF y2
<1>6. Shown(y3) /\ y3.news = Tail(y.news)
  <2>1. \A b \in BOOLEAN : Shown([y2 EXCEPT !.excused = b]) /\ [y2 EXCEPT !.excused = b].news = y2.news
    BY <1>5, ZenonT(40) DEF Shown, SizeState
  <2>2. (y2.excused \/ refused \/ n.reason # 1) \in BOOLEAN
    OBVIOUS
  <2> QED BY <1>5, <2>1, <2>2
<1>7. HandleExtendedDesktopSize(y) = AnswerTaken(y3, n)
  BY DEF HandleExtendedDesktopSize, n, y1, refused, y2
<1> HIDE DEF y3
<1>8. Shown([y3 EXCEPT !.knows = TRUE]) /\ [y3 EXCEPT !.knows = TRUE].news = y3.news
  BY <1>6 DEF Shown, SizeState
<1> QED BY <1>6, <1>7, <1>8, RequestShown DEF AnswerTaken

-----------------------------------------------------------------------------
(* The session with its size. *)

SizeInv == Sound(c) /\ Queues /\ Shown(r) /\ Outstanding <= Len(r.news)

LEMMA NewsLength ==
    ASSUME Shown(r)
    PROVE  Len(r.news) \in Nat /\ r.news \in Seq(Message)
BY LenProperties DEF Shown, SizeState

\* A size message of the server is announced: one more unit in the channel, one more in the news.
LEMMA ServerSpeaksSize ==
    ASSUME SizeInv, Speaks("size"), NEW m \in Message, r'.news = Append(r.news, m)
    PROVE  Queues' /\ Outstanding' <= Len(r'.news)
<1>1. "size" \in All /\ "rest" \in All
  BY DEF All, Texts
<1>2. Unit("size") \in Seq(All) /\ Len(Unit("size")) = 2 /\ Unit("size")[1] = "size" /\ Unit("size")[2] = "rest"
  BY <1>1 DEF Unit
<1>3. Count(Unit("size")) = 1
  <2>1. {i \in 1..Len(Unit("size")) : Unit("size")[i] = "size"} = {1}
    BY <1>2
  <2> QED BY <2>1, FS_Singleton DEF Count
<1>4. wire' = wire \o Unit("size") /\ UNCHANGED h
  BY DEF Speaks
<1>5. wire \in Seq(All) /\ h.rq \in Seq(All)
  BY DEF SizeInv, Queues
<1>6. wire' \in Seq(All) /\ Count(wire') = Count(wire) + 1
  BY <1>2, <1>3, <1>4, <1>5, CountConcat, ConcatProperties
<1>7. Count(wire) \in Nat /\ Count(h.rq) \in Nat
  BY <1>5, CountType
<1>8. Len(r'.news) = Len(r.news) + 1 /\ Len(r.news) \in Nat
  BY NewsLength, AppendProperties DEF SizeInv
<1> QED BY <1>4, <1>6, <1>7, <1>8 DEF SizeInv, Queues, Outstanding

LEMMA SizeInvStep ==
    ASSUME SizeInv, [WNext]_wvars
    PROVE  SizeInv'
<1>0. Sound(c) /\ Queues /\ Shown(r) /\ Outstanding <= Len(r.news) /\ Len(r.news) \in Nat
  BY NewsLength DEF SizeInv
<1>1. CASE SessionStep
  <2>1. Sound(c') /\ Queues' /\ Outstanding' <= Outstanding /\ Outstanding \in Nat /\ Outstanding' \in Nat
    BY <1>0, <1>1, NextSound, NextQueues DEF SessionStep
  <2>2. Shown(Detached(r)) /\ Detached(r).news = r.news
    BY <1>0 DEF Detached, Shown, SizeState
  <2>3. r.remote \in Nat
    BY <1>0, SizesAssumption DEF Shown, SizeState
  <2>4. Shown(Resize(r, r.remote)) /\ Resize(r, r.remote).news = r.news
    BY <1>0, <2>3, ResizeShown
  <2>5. Shown(r') /\ r'.news = r.news
    BY <1>0, <1>1, <2>2, <2>4 DEF SessionStep
  <2>6. Outstanding' <= Len(r'.news)
    BY <1>0, <2>1, <2>5
  <2> QED BY <2>1, <2>5, <2>6 DEF SizeInv, Shown, Sound
<1>2. CASE ExtendedDesktopSize
  <2>1. SizeMsg /\ NormalMsg /\ r' = HandleExtendedDesktopSize(r) /\ [Next]_vars
    BY <1>2 DEF ExtendedDesktopSize, Next
  <2>2. /\ Sound(c') /\ Queues' /\ Outstanding' < Outstanding
        /\ Outstanding \in Nat /\ Outstanding' \in Nat
    BY <1>0, <2>1, NextSound, NextQueues
  <2>3. r.news # <<>>
    <3>1. Len(r.news) > 0
      BY <1>0, <2>2
    <3> QED BY <3>1
  <2>4. Shown(r') /\ r'.news = Tail(r.news)
    BY <1>0, <2>1, <2>3, DesktopSizeShown
  <2>5. Len(r'.news) = Len(r.news) - 1
    BY <1>0, <2>3, <2>4, NewsLength, HeadTailProperties
  <2>6. Outstanding' <= Len(r'.news)
    BY <1>0, <2>2, <2>5
  <2> QED BY <2>2, <2>4, <2>6 DEF SizeInv, Shown, Sound
<1>3. CASE ServerResizes \/ ServerAnswers
  <2>1. \E m \in Message : r'.news = Append(r.news, m) /\ Shown(r')
    <3>1. CASE ServerResizes
      <4>1. PICK reason \in {0, 2}, width \in Sizes :
               r' = [r EXCEPT !.news = Append(@, News(reason, 0, width)), !.remote = width, !.changes = @ + 1]
        BY <3>1 DEF ServerResizes
      <4>2. News(reason, 0, width) \in Message
        BY DEF News, Message
      <4> DEFINE q == Append(r.news, News(reason, 0, width))
      <4>3. q \in Seq(Message)
        BY <1>0, <4>2, NewsLength, AppendProperties
      <4> HIDE DEF q
      <4>4. r' = [r EXCEPT !.news = q, !.remote = width, !.changes = r.changes + 1]
        BY <4>1 DEF q
      <4>5. r.changes + 1 \in Nat
        BY <1>0 DEF Shown, SizeState
      <4>6. Shown(r') /\ r'.news = q
        BY <1>0, <4>3, <4>4, <4>5 DEF Shown, SizeState
      <4> QED BY <4>2, <4>6 DEF q
    <3>2. CASE ServerAnswers
      <4>1. PICK status \in {0, 1} :
               LET width == IF status = 0 THEN r.asked[1] ELSE r.remote
               IN r' = [r EXCEPT !.asked = Tail(@), !.remote = width, !.news = Append(@, News(1, status, width))]
        BY <3>2 DEF ServerAnswers
      <4> DEFINE width == IF status = 0 THEN r.asked[1] ELSE r.remote
                 q == Append(r.news, News(1, status, width))
                 t == Tail(r.asked)
      <4>2. r.asked \in Seq(Sizes) /\ r.asked # <<>> /\ r.remote \in Sizes
        BY <1>0, <3>2 DEF Shown, SizeState, ServerAnswers
      <4>3. t \in Seq(Sizes) /\ width \in Sizes
        BY <4>2, HeadTailProperties
      <4> HIDE DEF width
      <4>4. News(1, status, width) \in Message
        BY <4>3 DEF News, Message
      <4>5. q \in Seq(Message)
        BY <1>0, <4>4, NewsLength, AppendProperties
      <4>6. r' = [r EXCEPT !.asked = t, !.remote = width, !.news = q]
        BY <4>1 DEF width
      <4> HIDE DEF q, t
      <4>7. Shown(r') /\ r'.news = q
        BY <1>0, <4>3, <4>5, <4>6 DEF Shown, SizeState
      <4> QED BY <4>4, <4>7 DEF q
    <3> QED BY <1>3, <3>1, <3>2
  <2>2. Speaks("size")
    BY <1>3 DEF ServerResizes, ServerAnswers
  <2>3. Queues' /\ Outstanding' <= Len(r'.news)
    BY <2>1, <2>2, ServerSpeaksSize
  <2>4. Sound(c')
    BY <1>0, <2>2 DEF Speaks
  <2> QED BY <2>1, <2>3, <2>4 DEF SizeInv, Shown, Sound
<1>4. ASSUME Shown(r'), r'.news = r.news, UNCHANGED vars PROVE SizeInv'
  <2>1. UNCHANGED <<c, h, wire>>
    BY <1>4 DEF vars
  <2> QED BY <1>0, <1>4, <2>1 DEF SizeInv, Sound, Connection, ToldAs, Over, Queues, Outstanding, Count, Shown
<1>5. CASE Observed
  <2>1. Shown([r EXCEPT !.obs = FALSE]) /\ [r EXCEPT !.obs = FALSE].news = r.news
    BY <1>0 DEF Shown, SizeState
  <2> QED BY <1>4, <1>5, <2>1, HandleResizeShown DEF Observed, Alone
<1>6. CASE Frame
  <2> DEFINE y  == [r EXCEPT !.frame = FALSE]
             y1 == UpdateClip(y)
             y2 == UpdateScale(y1)
  <2>1. Shown(y) /\ y.news = r.news
    BY <1>0 DEF Shown, SizeState
  <2>2. r' = SaveExpectedClientSize(y2) /\ UNCHANGED vars
    BY <1>6 DEF Frame, Alone
  <2> HIDE DEF y
  <2>3. Shown(y1) /\ y1.news = r.news
    BY <2>1, UpdateClipShown
  <2> HIDE DEF y1
  <2>4. Shown(y2) /\ y2.news = r.news
    BY <2>3, SaveShown
  <2> HIDE DEF y2
  <2> QED BY <1>4, <2>2, <2>4, SaveShown
<1>7. CASE ResizeTimer
  BY <1>0, <1>4, <1>7, RequestShown DEF ResizeTimer, Alone
<1>8. CASE Cools
  <2>1. Shown([r EXCEPT !.hot = FALSE]) /\ [r EXCEPT !.hot = FALSE].news = r.news
    BY <1>0 DEF Shown, SizeState
  <2> QED BY <1>4, <1>8, <2>1 DEF Cools, Alone
<1>9. CASE Drag
  <2>1. PICK delta \in Int : r' = ViewportChangePos(r, delta)
    BY <1>9 DEF Drag
  <2>2. UNCHANGED vars
    BY <1>9 DEF Drag, Alone
  <2> QED BY <1>0, <1>4, <2>1, <2>2, ShownFits, ChangePosShown
<1>10. ASSUME NEW y, Shown(y), y.news = r.news, Changes(y) PROVE SizeInv'
  <2>1. r' = [y EXCEPT !.changes = @ + 1] /\ UNCHANGED vars
    BY <1>10 DEF Changes, Alone
  <2>2. y.changes + 1 \in Nat
    BY <1>10 DEF Shown, SizeState
  <2>3. Shown(r') /\ r'.news = r.news
    BY <1>10, <2>1, <2>2 DEF Shown, SizeState
  <2> QED BY <1>4, <2>1, <2>3
<1>11. CASE WindowResized
  <2>1. PICK n \in Sizes : Changes([r EXCEPT !.win = n, !.obs = TRUE])
    BY <1>11 DEF WindowResized
  <2>2. Shown([r EXCEPT !.win = n, !.obs = TRUE]) /\ [r EXCEPT !.win = n, !.obs = TRUE].news = r.news
    BY <1>0 DEF Shown, SizeState
  <2> QED BY <1>10, <2>1, <2>2
<1>12. CASE SetClipViewport
  <2>1. Shown([r EXCEPT !.clip = ~@]) /\ [r EXCEPT !.clip = ~@].news = r.news
    BY <1>0 DEF Shown, SizeState
  <2> QED BY <1>10, <1>12, <2>1, UpdateClipShown DEF SetClipViewport
<1>13. CASE SetScaleViewport
  <2> DEFINE y  == [r EXCEPT !.scaling = ~@]
             y1 == IF y.scaling /\ y.clip THEN UpdateClip(y) ELSE y
             y2 == UpdateScale(y1)
             y3 == IF ~y.scaling /\ y.clip THEN UpdateClip(y2) ELSE y2
  <2>1. Shown(y) /\ y.news = r.news
    BY <1>0 DEF Shown, SizeState
  <2> HIDE DEF y
  <2>2. Shown(y1) /\ y1.news = r.news
    BY <2>1, UpdateClipShown
  <2> HIDE DEF y1
  <2>3. Shown(y2) /\ y2.news = r.news
    BY <2>2, SaveShown
  <2> HIDE DEF y2
  <2>4. Shown(y3) /\ y3.news = r.news
    BY <2>3, UpdateClipShown
  <2>5. Changes(y3)
    BY <1>13 DEF SetScaleViewport, y, y1, y2
  <2> HIDE DEF y3
  <2> QED BY <1>10, <2>4, <2>5
<1>14. CASE UNCHANGED wvars
  BY <1>0, <1>4, <1>14 DEF wvars, vars
<1> QED BY <1>1, <1>2, <1>3, <1>5, <1>6, <1>7, <1>8, <1>9, <1>11, <1>12, <1>13, <1>14 DEF WNext

LEMMA SizeInvInit ==
    ASSUME WInit
    PROVE  SizeInv
<1>1. Sound(c)
  BY DEF WInit, Init, CInit, Sound, Connection, ToldAs, Over, Conns, Readys, Tolds
<1>2. <<>> \in Seq(Texts)
  OBVIOUS
<1>3. h.rq = <<>> /\ "rq" \in DOMAIN h /\ wire = <<>>
  <2>1. Init
    BY DEF WInit
  <2> QED BY <2>1 DEF Init, HInit
<1>4. <<>> \in Seq(All) /\ Count(<<>>) = 0
  BY <1>2, CountNone
<1>5. Queues /\ Count(h.rq) = 0 /\ Count(wire) = 0
  BY <1>3, <1>4 DEF Queues
<1>6. PICK win \in Sizes, remote \in Sizes : r = RInit(win, remote)
  BY DEF WInit
<1>7. Shown(r) /\ r.news = <<>>
  BY <1>6 DEF RInit, Shown, SizeState
<1>8. Outstanding <= Len(r.news)
  BY <1>5, <1>7 DEF Outstanding
<1> QED BY <1>1, <1>5, <1>7, <1>8 DEF SizeInv

(* The part of the remote desktop that is shown lies inside it, whatever the *)
(* order of new sizes of the desktop and the window, modes and drags.        *)
THEOREM ViewportStaysInside == WSpec => []ViewportInside
<1>1. WInit => SizeInv
  BY SizeInvInit
<1>2. SizeInv /\ [WNext]_wvars => SizeInv'
  BY SizeInvStep
<1>3. SizeInv => ViewportInside
  <2> SUFFICES ASSUME SizeInv PROVE ViewportInside
    OBVIOUS
  <2>1. Shown(r)
    BY DEF SizeInv
  <2>2. r.x \in Nat /\ r.w \in Nat
    BY <2>1, ShownFits
  <2> QED BY <2>1, <2>2 DEF Shown, ViewportInside
<1> QED BY <1>1, <1>2, <1>3, PTL DEF WSpec

-----------------------------------------------------------------------------
(* In step with the server: what InSync says of the size alone, and which   *)
(* operations do not touch anything it is about.                            *)

Synced(y) == y.knows /\ ~y.excused /\ ~y.obs /\ ~y.pending /\ ~y.timer => y.fb = y.win

\* z differs from y in its viewport and in what was saved, not in what is asked of the server.
Alike(y, z) ==
    /\ z.win = y.win /\ z.fb = y.fb /\ z.obs = y.obs /\ z.knows = y.knows
    /\ z.pending = y.pending /\ z.timer = y.timer /\ z.excused = y.excused

LEMMA AlikeSynced ==
    ASSUME NEW y, NEW z, Alike(y, z), Synced(y)
    PROVE  Synced(z)
BY DEF Alike, Synced

LEMMA AlikeTransitive ==
    ASSUME NEW x, NEW y, NEW z, Alike(x, y), Alike(y, z)
    PROVE  Alike(x, z)
BY DEF Alike

LEMMA ChangePosAlike ==
    ASSUME NEW y \in SizeState, NEW delta
    PROVE  Alike(y, ViewportChangePos(y, delta))
<1>1. \A v : Alike(y, [y EXCEPT !.x = v])
  BY DEF Alike, SizeState
<1>2. PICK d : ViewportChangePos(y, delta) = [y EXCEPT !.x = y.x + d]
  BY DEF ViewportChangePos
<1> QED BY <1>1, <1>2

LEMMA ChangeSizeAlike ==
    ASSUME NEW y \in SizeState, NEW width \in Nat
    PROVE  Alike(y, ViewportChangeSize(y, width))
<1> DEFINE new == IF y.dclip THEN Lesser(width, y.fb) ELSE y.fb
<1>1. new \in Nat
  BY DEF Lesser, SizeState
<1>2. CASE new = y.w
  BY <1>2 DEF ViewportChangeSize, Alike
<1>3. CASE new # y.w
  <2> HIDE DEF new
  <2> DEFINE z == [y EXCEPT !.w = new]
  <2>1. z \in SizeState /\ Alike(y, z)
    BY <1>1 DEF SizeState, Alike
  <2>2. ViewportChangeSize(y, width) = ViewportChangePos(z, 0)
    BY <1>3 DEF ViewportChangeSize, new
  <2> HIDE DEF z
  <2> QED BY <2>1, <2>2, ChangePosAlike, AlikeTransitive
<1> QED BY <1>2, <1>3

LEMMA DisplayClipAlike ==
    ASSUME NEW y, Shown(y), NEW on \in BOOLEAN
    PROVE  Alike(y, DisplayClip(y, on))
<1> DEFINE z == [y EXCEPT !.dclip = on]
           v == ViewportChangeSize(z, y.w)
<1>1. y \in SizeState /\ y.w \in Nat /\ y.x <= y.fb
  BY ShownFits
<1>2. z \in SizeState /\ Alike(y, z) /\ z.x <= z.fb
  BY <1>1 DEF SizeState, Alike
<1>3. DisplayClip(y, on) = ViewportChangePos(v, 0)
  BY DEF DisplayClip
<1> HIDE DEF z
<1>4. Alike(z, v) /\ v \in SizeState
  BY <1>1, <1>2, ChangeSizeAlike, ChangeSizeFits DEF Fits
<1> HIDE DEF v
<1>5. Alike(v, ViewportChangePos(v, 0))
  BY <1>4, ChangePosAlike
<1>6. Alike(y, v)
  BY <1>2, <1>4, AlikeTransitive
<1> QED BY <1>3, <1>5, <1>6, AlikeTransitive

LEMMA SaveAlike ==
    ASSUME NEW y \in SizeState
    PROVE  Alike(y, SaveExpectedClientSize(y)) /\ Alike(y, UpdateScale(y))
<1>1. \A v : Alike(y, [y EXCEPT !.seen = v]) /\ Alike(y, [y EXCEPT !.scale = v])
  BY DEF Alike, SizeState
<1> QED BY <1>1 DEF SaveExpectedClientSize, UpdateScale

LEMMA UpdateClipAlike ==
    ASSUME NEW y, Shown(y)
    PROVE  Alike(y, UpdateClip(y))
<1> DEFINE on == y.clip /\ ~y.scaling
           y1 == IF on = y.dclip THEN y ELSE DisplayClip(y, on)
           y2 == IF on THEN ViewportChangeSize(y1, y.win) ELSE y1
<1>1. on \in BOOLEAN /\ y.win \in Nat
  BY ShownFits
<1>2. Shown(y1) /\ Alike(y, y1)
  BY <1>1, DisplayShown, DisplayClipAlike DEF Alike
<1> HIDE DEF y1
<1>3. y1 \in SizeState
  BY <1>2, ShownFits
<1>4. Shown(y2) /\ Alike(y1, y2)
  BY <1>1, <1>2, <1>3, ChangeSizeAlike, ChangeSizeShown DEF Alike
<1>5. UpdateClip(y) = IF on = y.dclip THEN y2 ELSE SaveExpectedClientSize(y2)
  BY DEF UpdateClip, y1
<1> HIDE DEF y2
<1>6. Alike(y, y2) /\ y2 \in SizeState
  BY <1>2, <1>4, AlikeTransitive, ShownFits
<1>7. Alike(y2, SaveExpectedClientSize(y2))
  BY <1>6, SaveAlike
<1> QED BY <1>5, <1>6, <1>7, AlikeTransitive

\* A request is made, is already under way, waits for the timer, or is not needed.
LEMMA RequestSynced ==
    ASSUME NEW y \in SizeState
    PROVE  /\ Synced(RequestRemoteResize(y))
           /\ RequestRemoteResize(y).knows = y.knows
<1>1. CASE ~y.knows \/ y.pending
  BY <1>1 DEF RequestRemoteResize, Synced
<1>2. CASE ~(~y.knows \/ y.pending) /\ y.hot
  <2>1. RequestRemoteResize(y) = [y EXCEPT !.timer = TRUE]
    BY <1>2 DEF RequestRemoteResize
  <2> QED BY <2>1 DEF Synced, SizeState
<1>3. CASE ~(~y.knows \/ y.pending) /\ ~y.hot /\ y.win = y.fb
  <2>1. RequestRemoteResize(y) = [y EXCEPT !.timer = FALSE, !.excused = FALSE]
    BY <1>3 DEF RequestRemoteResize
  <2> QED BY <1>3, <2>1 DEF Synced, SizeState
<1>4. CASE ~(~y.knows \/ y.pending) /\ ~y.hot /\ y.win # y.fb
  <2> DEFINE q == Append(y.asked, y.win)
  <2>1. RequestRemoteResize(y) = [y EXCEPT !.timer = FALSE, !.pending = TRUE, !.hot = TRUE,
                                           !.excused = FALSE, !.asked = q]
    BY <1>4 DEF RequestRemoteResize
  <2> HIDE DEF q
  <2> QED BY <2>1 DEF Synced, SizeState
<1> QED BY <1>1, <1>2, <1>3, <1>4

LEMMA HandleResizeSynced ==
    ASSUME NEW y \in SizeState
    PROVE  Synced(HandleResize(y)) /\ HandleResize(y).knows = y.knows
<1>1. CASE y.seen = y.win
  <2>1. HandleResize(y) = [y EXCEPT !.excused = y.excused \/ y.win # y.fb]
    BY <1>1 DEF HandleResize
  <2>2. \A b \in BOOLEAN : LET z == [y EXCEPT !.excused = b]
                           IN z.excused = b /\ z.knows = y.knows /\ z.fb = y.fb /\ z.win = y.win
    BY DEF SizeState
  <2> QED BY <2>1, <2>2 DEF Synced
<1>2. CASE y.seen # y.win
  <2>1. [y EXCEPT !.frame = TRUE] \in SizeState /\ [y EXCEPT !.frame = TRUE].knows = y.knows
    BY DEF SizeState
  <2> QED BY <1>2, <2>1, RequestSynced DEF HandleResize
<1> QED BY <1>1, <1>2

\* What the server says leaves the sizes alike, asks it again, or is a reason for the difference.
LEMMA DesktopSizeSynced ==
    ASSUME NEW y, Shown(y), y.news # <<>>
    PROVE  Synced(HandleExtendedDesktopSize(y))
<1> DEFINE n  == y.news[1]
           y1 == [y EXCEPT !.news = Tail(@), !.pending = @ /\ n.reason # 1]
           refused == n.reason = 1 /\ n.status # 0
           y2 == IF refused THEN y1 ELSE Resize(y1, n.width)
           b  == y2.excused \/ refused \/ n.reason # 1
           y3 == [y2 EXCEPT !.excused = b]
<1>1. y \in SizeState /\ y.news \in Seq(Message)
  BY DEF Shown, SizeState
<1>2. n \in Message /\ Tail(y.news) \in Seq(Message)
  BY <1>1, HeadTailProperties
<1>3. n.width \in Nat
  BY <1>2, SizesAssumption DEF Message
<1>4. Shown(y1)
  <2> DEFINE t == Tail(y.news)
             p == y.pending /\ n.reason # 1
  <2>1. y1 = [y EXCEPT !.news = t, !.pending = p] /\ p \in BOOLEAN /\ t \in Seq(Message)
    BY <1>1, <1>2
  <2> HIDE DEF t, p, y1, n
  <2> QED BY <1>1, <2>1 DEF Shown, SizeState
<1>5. HandleExtendedDesktopSize(y) = AnswerTaken(y3, n)
  BY DEF HandleExtendedDesktopSize
<1>6. b \in BOOLEAN /\ (~(n.reason = 1 /\ n.status = 0) => b)
  OBVIOUS
<1> HIDE DEF n, y1, refused
<1>7. Shown(y2)
  BY <1>3, <1>4, ResizeShown
<1> HIDE DEF y2, b
<1>8. y3 \in SizeState /\ y3.excused = b
  BY <1>6, <1>7 DEF Shown, SizeState
<1> HIDE DEF y3
<1>9. [y3 EXCEPT !.knows = TRUE] \in SizeState
  BY <1>8 DEF SizeState
<1>10. CASE ~y3.knows \/ (n.reason = 1 /\ n.status = 0)
  BY <1>5, <1>9, <1>10, RequestSynced DEF AnswerTaken
<1>11. CASE ~(~y3.knows \/ (n.reason = 1 /\ n.status = 0))
  BY <1>5, <1>6, <1>8, <1>11 DEF AnswerTaken, Synced
<1> QED BY <1>10, <1>11

\* No state comes back: "connecting" is only at the start, and "connected" only after it.
Onward(x, z) ==
    /\ z.conn = "connecting" => x.conn = "connecting"
    /\ z.conn = "connected"  => x.conn \in {"connecting", "connected"}

LEMMA UpdateOnward ==
    ASSUME NEW x, Sound(x), NEW new \in {"connected", "disconnecting", "disconnected"}
    PROVE  Onward(x, UpdateConnectionState(x, new))
<1>1. x \in Connection
  BY DEF Sound
<1>2. CASE ~Transition(x.conn, new)
  BY <1>2 DEF UpdateConnectionState, Onward
<1>3. CASE Transition(x.conn, new)
  <2> DEFINE y == [x EXCEPT !.conn = new, !.onclose = @ /\ ~(x.timer /\ new # "disconnecting"),
                            !.timer = @ /\ new = "disconnecting"]
  <2>1. y.conn = new /\ y \in Connection
    BY <1>1 DEF Connection, Conns
  <2> HIDE DEF y
  <2>2. /\ [Disconnect(y) EXCEPT !.timer = TRUE].conn = new
        /\ \A told : [y EXCEPT !.told = told].conn = new
    BY <2>1 DEF Disconnect, Connection
  <2>3. UpdateConnectionState(x, new).conn = new
    BY <1>3, <2>2 DEF UpdateConnectionState, y
  <2> QED BY <1>3, <2>3 DEF Onward, Transition
<1> QED BY <1>2, <1>3

LEMMA EndedOnward ==
    ASSUME NEW x, Sound(x)
    PROVE  Onward(x, Ended(x)) /\ Onward(x, Fail(x))
<1>1. ASSUME NEW y, Sound(y) PROVE Onward(y, Ended(y))
  BY <1>1, UpdateSound, UpdateOnward DEF Ended, Onward
<1>2. Sound([x EXCEPT !.clean = FALSE]) /\ [x EXCEPT !.clean = FALSE].conn = x.conn
  BY DEF Sound, Connection, ToldAs, Over
<1> QED BY <1>1, <1>2 DEF Fail, Onward

LEMMA ClosedByOnward ==
    ASSUME NEW x, Sound(x)
    PROVE  Onward(x, ClosedBy(x))
<1>1. ASSUME NEW y, Sound(y) PROVE [y EXCEPT !.onclose = FALSE].conn = y.conn
  BY <1>1 DEF Sound, Connection
<1> QED BY <1>1, EndedSound, EndedOnward DEF ClosedBy, Onward

\* Messages of a running session are not handled before there is one.
NormalLater == loop = "normal" => c.conn # "connecting"

LEMMA ReturnsElsewhere ==
    ASSUME InitMsg
    PROVE  loop' # "normal"
<1>1. loop # "normal"
  <2>1. \A state : Calls(state) => loop # "normal"
    BY DEF Calls
  <2>2. \A scheme : Auth(scheme) => loop # "normal"
    BY <2>1 DEF Auth
  <2> QED BY <2>1, <2>2, Zenon DEF InitMsg, NegotiateProtocolVersion, NegotiateSecurity, HandleSecurityReason,
     NegotiateNone, NegotiateXvpAuth, NegotiatePlainAuth, NegotiateChallenge, NegotiateARDAuth,
     NegotiateTightTunnels, NegotiateTightSubAuth, NegotiateVeNCryptAuth, NegotiateRA2neAuth, UnsupportedScheme,
     HandleSecurityResult, ClientInitialisation, NegotiateServerInit
<1>2. ASSUME NEW more, Return(more) PROVE loop' # "normal"
  BY <1>2 DEF Return
<1>3. CASE NegotiateProtocolVersion \/ NegotiateSecurity \/ HandleSecurityReason \/ NegotiateNone
  BY <1>2, <1>3 DEF NegotiateProtocolVersion, NegotiateSecurity, HandleSecurityReason, NegotiateNone, Waits, FailsWith
<1>4. CASE NegotiateXvpAuth \/ NegotiatePlainAuth \/ NegotiateChallenge \/ NegotiateARDAuth
  BY <1>1, <1>2, <1>4 DEF NegotiateXvpAuth, NegotiatePlainAuth, NegotiateChallenge, NegotiateARDAuth, Waits,
     AsksCredentials, Answered
<1>5. CASE NegotiateTightTunnels
  BY <1>1, <1>2, <1>5 DEF NegotiateTightTunnels, Waits, FailsWith
<1>6. CASE NegotiateTightSubAuth
  BY <1>2, <1>6, Zenon DEF NegotiateTightSubAuth, Waits, FailsWith
<1>9. CASE NegotiateRA2neAuth
  BY <1>2, <1>9, Zenon DEF NegotiateRA2neAuth
<1>7. CASE NegotiateVeNCryptAuth
  BY <1>1, <1>2, <1>7 DEF NegotiateVeNCryptAuth, VeNCryptSteps, Waits, FailsWith
<1>8. CASE UnsupportedScheme \/ HandleSecurityResult \/ ClientInitialisation \/ NegotiateServerInit
  BY <1>2, <1>8 DEF UnsupportedScheme, HandleSecurityResult, ClientInitialisation, NegotiateServerInit, Waits, FailsWith
<1> QED BY <1>3, <1>4, <1>5, <1>6, <1>7, <1>8, <1>9 DEF InitMsg

LEMMA NextOnward ==
    ASSUME Sound(c), NormalLater, [Next]_vars
    PROVE  Onward(c, c') /\ NormalLater'
<1>1. Onward(c, c')
  <2>1. CASE Keeps
    BY <2>1, EndedOnward DEF Keeps, Onward
  <2>2. CASE NegotiateServerInit
    <3>1. Sound([c EXCEPT !.grabbed = TRUE]) /\ [c EXCEPT !.grabbed = TRUE].conn = c.conn
      BY DEF Sound, Connection, ToldAs, Over
    <3> QED BY <2>2, <3>1, UpdateOnward DEF NegotiateServerInit, Quiet, Onward
  <2>3. CASE SocketOpen
    BY <2>3 DEF SocketOpen, Sound, Connection, Onward
  <2>4. CASE SocketClose
    <3>1. Sound([c EXCEPT !.ready = "closed"]) /\ [c EXCEPT !.ready = "closed"].conn = c.conn
      BY DEF Sound, Connection, ToldAs, Over, Readys
    <3> QED BY <2>4, <3>1, ClosedByOnward DEF SocketClose, Onward
  <2>5. CASE DisconnectTimeout \/ DisconnectCall
    BY <2>5, UpdateOnward DEF DisconnectTimeout, DisconnectCall
  <2>6. CASE \/ NormalMsg \/ Receive \/ ServerSpeaks \/ ResumeAuthentication \/ SendCredentials \/ ApproveServer
             \/ ARDAuthAsync
    BY <2>1, <2>6 DEF NormalMsg, Receive, ServerSpeaks, Speaks, ResumeAuthentication, SendCredentials,
       ApproveServer, ARDAuthAsync, Quiet, Keeps
  <2>7. CASE UNCHANGED vars
    BY <2>1, <2>7 DEF vars, Keeps
  <2> QED BY <2>1, <2>2, <2>3, <2>4, <2>5, <2>6, <2>7, InitMsgConnection, RA2Connection DEF Next
<1>2. NormalLater'
  <2>1. CASE InitMsg
    BY <2>1, ReturnsElsewhere DEF NormalLater
  <2>2. CASE Receive
    BY <2>2 DEF Receive, NormalLater
  <2>3. CASE NormalMsg
    BY <1>1, <2>3 DEF NormalMsg, NormalLater, Onward
  <2>4. CASE RA2
    BY <2>4 DEF RA2, RA2Key, RA2Verify, RA2Approved, RA2SendKey, RA2Random, RA2SendHash, RA2Hash, RA2Subtype,
       RA2AskCredentials, RA2SendCredentials, RA2Goes, RA2Throws, NormalLater
  <2>5. CASE \/ SocketOpen \/ SocketClose \/ DisconnectTimeout \/ ServerSpeaks \/ ResumeAuthentication \/ SendCredentials
             \/ ApproveServer \/ DisconnectCall \/ ARDAuthAsync
    BY <2>5 DEF SocketOpen, SocketClose, DisconnectTimeout, ServerSpeaks, Speaks, ResumeAuthentication,
       SendCredentials, ApproveServer, DisconnectCall, ARDAuthAsync, Idle, NormalLater
  <2>6. CASE UNCHANGED vars
    BY <2>6 DEF vars, NormalLater
  <2> QED BY <2>1, <2>2, <2>3, <2>4, <2>5, <2>6 DEF Next
<1> QED BY <1>1, <1>2

\* The server is not known to resize before the session is connected.
SyncInv ==
    /\ SizeInv /\ NormalLater
    /\ c.conn = "connecting" => ~r.knows
    /\ c.conn = "connected"  => Synced(r)

\* What a step has to show when the session itself stays as it is.
LEMMA SyncKept ==
    ASSUME SyncInv, UNCHANGED c, c.conn = "connecting" => ~r'.knows, c.conn = "connected" => Synced(r')
    PROVE  /\ (c.conn = "connecting" => ~r.knows)'
           /\ (c.conn = "connected"  => Synced(r))'
BY DEF Synced

LEMMA AlikeKept ==
    ASSUME SyncInv, Alike(r, r')
    PROVE  /\ c.conn = "connecting" => ~r'.knows
           /\ c.conn = "connected" => Synced(r')
<1>1. c.conn = "connecting" => ~r.knows
  BY DEF SyncInv
<1>2. c.conn = "connected" => Synced(r)
  BY DEF SyncInv
<1> QED BY <1>1, <1>2, AlikeSynced DEF Alike

LEMMA SyncStep ==
    ASSUME SyncInv, WNext
    PROVE  /\ (c.conn = "connecting" => ~r.knows)'
           /\ (c.conn = "connected"  => Synced(r))'
<1>0. Shown(r) /\ Sound(c) /\ NormalLater /\ r \in SizeState
  BY ShownFits DEF SyncInv, SizeInv
<1>1. CASE SessionStep
  <2>1. Next /\ Onward(c, c')
    BY <1>0, <1>1, NextOnward DEF SessionStep
  <2>2. CASE Ends
    BY <2>2 DEF Ends
  <2>3. CASE ~Ends /\ Connects
    <3>1. r' = Resize(r, r.remote)
      BY <1>1, <2>3 DEF SessionStep
    <3>2. ~r.knows /\ c'.conn = "connected"
      BY <2>3 DEF Connects, SyncInv
    <3> DEFINE y1 == DisplayResize(r, r.remote)
               y2 == UpdateClip(y1)
               y3 == UpdateScale(y2)
    <3>3. r.remote \in Nat
      BY <1>0, SizesAssumption DEF SizeState
    <3>4. Shown(y1) /\ ~y1.knows
      <4> DEFINE z == [r EXCEPT !.fb = r.remote]
                 v == ViewportChangeSize(z, r.w)
      <4>1. /\ z \in SizeState /\ z.knows = r.knows /\ z.dclip = r.dclip
            /\ z.x = r.x /\ z.fb = r.remote /\ r.w \in Nat /\ r.x \in Nat
        BY <1>0, <3>3 DEF SizeState
      <4>2. ~z.dclip => z.x <= z.fb
        BY <1>0, <3>3, <4>1 DEF Shown
      <4>3. y1 = ViewportChangePos(v, 0)
        BY DEF DisplayResize
      <4> HIDE DEF z, y1
      <4>4. v \in SizeState /\ v.knows = z.knows
        BY <4>1, <4>2, ChangeSizeFits, ChangeSizeAlike DEF Fits, Alike
      <4> HIDE DEF v
      <4>5. y1.knows = v.knows
        BY <4>3, <4>4, ChangePosAlike DEF Alike
      <4> QED BY <1>0, <3>2, <3>3, <4>1, <4>4, <4>5, DisplayShown DEF y1
    <3> HIDE DEF y1
    <3>5. Shown(y2) /\ ~y2.knows
      BY <3>4, UpdateClipShown, UpdateClipAlike DEF Alike
    <3> HIDE DEF y2
    <3>6. Shown(y3) /\ ~y3.knows
      BY <3>5, ShownFits, SaveShown, SaveAlike DEF Alike
    <3> HIDE DEF y3
    <3>7. r' = SaveExpectedClientSize(y3)
      BY <3>1 DEF Resize, y1, y2, y3
    <3>8. ~r'.knows
      BY <3>6, <3>7, ShownFits, SaveAlike DEF Alike
    <3> QED BY <3>2, <3>8 DEF Synced
  <2>4. CASE ~Ends /\ ~Connects
    <3>1. r' = r
      BY <1>1, <2>4 DEF SessionStep
    <3>2. c'.conn = "connecting" => c.conn = "connecting"
      BY <2>1 DEF Onward
    <3>3. c'.conn = "connected" => c.conn = "connected"
      BY <2>1, <2>4 DEF Onward, Connects
    <3>4. c.conn = "connecting" => ~r'.knows
      BY <3>1 DEF SyncInv
    <3>5. c.conn = "connected" => Synced(r')
      BY <3>1 DEF SyncInv
    <3> QED BY <3>2, <3>3, <3>4, <3>5 DEF Synced
  <2> QED BY <2>2, <2>3, <2>4
<1>2. CASE ExtendedDesktopSize
  <2>1. SizeMsg /\ NormalMsg /\ r' = HandleExtendedDesktopSize(r) /\ [Next]_vars
    BY <1>2 DEF ExtendedDesktopSize, Next
  <2>2. Onward(c, c') /\ c.conn # "connecting"
    BY <1>0, <2>1, NextOnward DEF SizeMsg, NormalLater
  <2>3. Synced(r')
    <3>1. Queues' /\ Outstanding' < Outstanding /\ Outstanding \in Nat /\ Outstanding' \in Nat
      BY <1>0, <2>1, NextQueues DEF SyncInv, SizeInv
    <3>2. Len(r.news) > 0
      BY <1>0, <3>1, NewsLength DEF SyncInv, SizeInv
    <3>3. r.news # <<>>
      BY <3>2
    <3> QED BY <1>0, <2>1, <3>3, DesktopSizeSynced
  <2> QED BY <2>2, <2>3 DEF Onward, Synced
<1>3. ASSUME UNCHANGED c, Alike(r, r')
      PROVE  /\ (c.conn = "connecting" => ~r.knows)'
             /\ (c.conn = "connected"  => Synced(r))'
  BY <1>3, AlikeKept, SyncKept
<1>4. CASE ServerResizes
  <2>1. PICK reason \in {0, 2}, width \in Sizes :
           r' = [r EXCEPT !.news = Append(@, News(reason, 0, width)), !.remote = width, !.changes = @ + 1]
    BY <1>4 DEF ServerResizes
  <2>2. \A q, n : Alike(r, [r EXCEPT !.news = q, !.remote = width, !.changes = n])
    BY <1>0 DEF SizeState, Alike
  <2>3. Alike(r, r')
    BY ONLY <2>1, <2>2, Zenon
  <2>4. UNCHANGED c
    BY <1>4 DEF ServerResizes, Speaks
  <2> QED BY <1>3, <2>3, <2>4
<1>5. CASE ServerAnswers
  <2>1. PICK t, width, q : r' = [r EXCEPT !.asked = t, !.remote = width, !.news = q]
    BY <1>5 DEF ServerAnswers
  <2>2. Alike(r, [r EXCEPT !.asked = t, !.remote = width, !.news = q])
    BY <1>0 DEF SizeState, Alike
  <2>3. Alike(r, r')
    BY ONLY <2>1, <2>2, Zenon
  <2>4. UNCHANGED c
    BY <1>5 DEF ServerAnswers, Speaks
  <2> QED BY <1>3, <2>3, <2>4
<1>6. CASE Observed
  <2> DEFINE z == [r EXCEPT !.obs = FALSE]
  <2>1. z \in SizeState /\ z.knows = r.knows
    BY <1>0 DEF SizeState
  <2>2. r' = HandleResize(z) /\ UNCHANGED c
    BY <1>6 DEF Observed, Alone, vars
  <2> HIDE DEF z
  <2>3. Synced(r') /\ r'.knows = r.knows
    BY <2>1, <2>2, HandleResizeSynced
  <2>4. c.conn = "connecting" => ~r'.knows
    BY <2>3 DEF SyncInv
  <2> QED BY <2>2, <2>3, <2>4, SyncKept
<1>7. CASE ResizeTimer
  <2>1. r' = RequestRemoteResize(r) /\ UNCHANGED c
    BY <1>7 DEF ResizeTimer, Alone, vars
  <2>2. Synced(r') /\ r'.knows = r.knows
    BY <1>0, <2>1, RequestSynced
  <2>3. c.conn = "connecting" => ~r'.knows
    BY <2>2 DEF SyncInv
  <2> QED BY <2>1, <2>2, <2>3, SyncKept
<1>8. CASE Frame
  <2> DEFINE y  == [r EXCEPT !.frame = FALSE]
             y1 == UpdateClip(y)
             y2 == UpdateScale(y1)
  <2>1. Shown(y) /\ Alike(r, y)
    BY <1>0 DEF Shown, SizeState, Alike
  <2>2. r' = SaveExpectedClientSize(y2) /\ UNCHANGED c
    BY <1>8 DEF Frame, Alone, vars
  <2> HIDE DEF y
  <2>3. Shown(y1) /\ Alike(r, y1)
    BY <2>1, UpdateClipShown, UpdateClipAlike, AlikeTransitive
  <2> HIDE DEF y1
  <2>4. Shown(y2) /\ Alike(r, y2)
    BY <2>3, SaveShown, SaveAlike, ShownFits, AlikeTransitive
  <2> HIDE DEF y2
  <2>5. Alike(r, r')
    BY <2>2, <2>4, SaveAlike, ShownFits, AlikeTransitive
  <2> QED BY <1>3, <2>2, <2>5
<1>9. CASE Cools
  <2>1. Alike(r, [r EXCEPT !.hot = FALSE])
    BY <1>0 DEF SizeState, Alike
  <2> QED BY <1>3, <1>9, <2>1 DEF Cools, Alone, vars
<1>10. CASE Drag
  <2>1. PICK delta \in {-2, 1} : r' = ViewportChangePos(r, delta)
    BY <1>10 DEF Drag
  <2>2. UNCHANGED c
    BY <1>10 DEF Drag, Alone, vars
  <2> QED BY <1>0, <1>3, <2>1, <2>2, ChangePosAlike
<1>11. ASSUME NEW y \in SizeState, Alike(r, y), Changes(y)
       PROVE  /\ (c.conn = "connecting" => ~r.knows)'
              /\ (c.conn = "connected"  => Synced(r))'
  <2>1. Alike(y, r')
    <3>1. r' = [y EXCEPT !.changes = y.changes + 1]
      BY <1>11 DEF Changes
    <3>2. \A n : Alike(y, [y EXCEPT !.changes = n])
      BY <1>11 DEF SizeState, Alike
    <3> QED BY <3>1, <3>2
  <2>2. UNCHANGED c
    BY <1>11 DEF Changes, Alone, vars
  <2>3. Alike(r, r')
    BY <1>11, <2>1, AlikeTransitive
  <2> QED BY <1>3, <2>2, <2>3
<1>12. CASE WindowResized
  <2>1. PICK n \in Sizes : Changes([r EXCEPT !.win = n, !.obs = TRUE])
    BY <1>12 DEF WindowResized
  <2> DEFINE y == [r EXCEPT !.win = n, !.obs = TRUE]
  <2>2. r' = [y EXCEPT !.changes = y.changes + 1] /\ UNCHANGED c
    BY <2>1 DEF Changes, Alone, vars
  <2>3. y \in SizeState /\ y.obs = TRUE /\ y.knows = r.knows
    BY <1>0 DEF SizeState
  <2> HIDE DEF y
  <2>4. r'.obs = TRUE /\ r'.knows = r.knows
    BY <2>2, <2>3 DEF SizeState
  <2>5. c.conn = "connecting" => ~r'.knows
    BY <2>4 DEF SyncInv
  <2>6. Synced(r')
    BY <2>4 DEF Synced
  <2> QED BY <2>2, <2>5, <2>6, SyncKept
<1>13. CASE SetClipViewport
  <2> DEFINE y == [r EXCEPT !.clip = ~@]
  <2>1. Shown(y) /\ Alike(r, y)
    BY <1>0 DEF Shown, SizeState, Alike
  <2>2. Changes(UpdateClip(y))
    BY <1>13 DEF SetClipViewport
  <2> HIDE DEF y
  <2>3. Shown(UpdateClip(y)) /\ Alike(r, UpdateClip(y))
    BY <2>1, UpdateClipShown, UpdateClipAlike, AlikeTransitive
  <2> QED BY <1>11, <2>2, <2>3, ShownFits
<1>14. CASE SetScaleViewport
  <2> DEFINE y  == [r EXCEPT !.scaling = ~@]
             y1 == IF y.scaling /\ y.clip THEN UpdateClip(y) ELSE y
             y2 == UpdateScale(y1)
             y3 == IF ~y.scaling /\ y.clip THEN UpdateClip(y2) ELSE y2
  <2>1. Shown(y) /\ Alike(r, y)
    BY <1>0 DEF Shown, SizeState, Alike
  <2> HIDE DEF y
  <2>2. Shown(y1) /\ Alike(r, y1)
    BY <2>1, UpdateClipShown, UpdateClipAlike, AlikeTransitive
  <2> HIDE DEF y1
  <2>3. Shown(y2) /\ Alike(r, y2)
    BY <2>2, SaveShown, SaveAlike, ShownFits, AlikeTransitive
  <2> HIDE DEF y2
  <2>4. Shown(y3) /\ Alike(r, y3)
    BY <2>3, UpdateClipShown, UpdateClipAlike, AlikeTransitive
  <2>5. Changes(y3)
    BY <1>14 DEF SetScaleViewport, y, y1, y2
  <2> HIDE DEF y3
  <2> QED BY <1>11, <2>4, <2>5, ShownFits
<1> QED BY <1>1, <1>2, <1>4, <1>5, <1>6, <1>7, <1>8, <1>9, <1>10, <1>12, <1>13, <1>14 DEF WNext

(* A session that knows that the server resizes, and waits for nothing, has  *)
(* the size of its window, unless there is one of the reasons that r.excused *)
(* remembers.                                                                *)
THEOREM DesktopFollowsWindow == WSpec => []InSync
<1>1. WInit => SyncInv
  <2> SUFFICES ASSUME WInit PROVE SyncInv
    OBVIOUS
  <2>1. SizeInv
    BY SizeInvInit
  <2>2. PICK win \in Sizes, remote \in Sizes : r = RInit(win, remote)
    BY DEF WInit
  <2>3. ~r.knows
    BY <2>2 DEF RInit
  <2>4. loop = "idle"
    BY DEF WInit, Init
  <2> QED BY <2>1, <2>3, <2>4 DEF SyncInv, NormalLater, Synced
<1>2. SyncInv /\ [WNext]_wvars => SyncInv'
  <2> SUFFICES ASSUME SyncInv, [WNext]_wvars PROVE SyncInv'
    OBVIOUS
  <2>1. SizeInv'
    BY SizeInvStep DEF SyncInv
  <2>2. NormalLater'
    <3>1. [Next]_vars \/ UNCHANGED <<c, loop>>
      BY DEF WNext, SessionStep, ExtendedDesktopSize, Next, ServerResizes, ServerAnswers, Speaks,
         WindowResized, Observed, Frame, ResizeTimer, Cools, SetClipViewport, SetScaleViewport, Drag,
         Changes, Alone, vars, wvars
    <3>2. CASE UNCHANGED <<c, loop>>
      BY <3>2 DEF SyncInv, NormalLater
    <3> QED BY <3>1, <3>2, NextOnward DEF SyncInv, SizeInv
  <2>3. CASE WNext
    BY <2>1, <2>2, <2>3, SyncStep DEF SyncInv
  <2>4. CASE UNCHANGED wvars
    BY <2>1, <2>2, <2>4 DEF SyncInv, wvars, Synced
  <2> QED BY <2>3, <2>4
<1>3. SyncInv => InSync
  BY DEF SyncInv, Synced, InSync
<1> QED BY <1>1, <1>2, <1>3, PTL DEF WSpec

-----------------------------------------------------------------------------
(* The keyboard of a session that ended.  It is grabbed when ServerInit was  *)
(* read, so nothing may read it once the session is over.  _handleMessage    *)
(* stops by itself; the calls that _resumeAuthentication put into timers do  *)
(* not, and there are never enough of them to get that far.                  *)

Handshake(x) ==
    /\ x = [init |-> x.init, scheme |-> x.scheme, ver |-> x.ver, tight |-> x.tight, ven |-> x.ven, ra2 |-> x.ra2,
            go |-> x.go, ard |-> x.ard, creds |-> x.creds, rq |-> x.rq, resume |-> x.resume]
    /\ x.tight \in BOOLEAN /\ x.go \in BOOLEAN /\ x.creds \in BOOLEAN
    /\ x.rq \in Seq(All) /\ x.resume \in Nat /\ x.ard \in {"", "working", "ready", "sent"}

Loops == {"idle", "init", "normal", "once"}

One(b) == IF b THEN 1 ELSE 0

\* Calls of _initMsg that came, or will come, from a timer.
Owed == h.resume + One(loop = "once") + One("credentials" \in ui) + One(h.ard = "working")

\* Before the end of the handshake there are at most two.
Calling ==
    /\ Owed <= 2 /\ (h.ard = "" => Owed <= 1)
    /\ h.creds => "credentials" \notin ui
    /\ ~h.creds => h.ard = "" /\ h.resume = 0 /\ loop # "once"
    /\ h.ard = "sent" => h.init # "Authentication"

InitSize == IF h.tight THEN 4 ELSE 2

\* Outside _handleMessage, ServerInit is not there, or nobody will call to read it.
NobodyReads ==
    loop \in {"idle", "once"} =>
        /\ h.init = "ClientInitialisation" => Owed <= 1
        /\ h.init = "ServerInitialisation" => Owed = 0 \/ Len(h.rq) < InitSize

Stages ==
    /\ c.conn = "connected" \/ loop = "normal" => h.init = "ServerInitialisation"
    /\ loop = "init" => c.conn = "connecting"
    /\ c.ready = "connecting" => h.init = ""
    /\ h.ra2 # "" => h.init = "Authentication" /\ h.scheme = "ra2"
    /\ h.go /\ h.ra2 \in {"hash", "subtype", "keyrest"} => Whole
    /\ h.init \in {"", "ProtocolVersion", "Security"} => h.ard = "" /\ ~h.tight
    /\ h.init # "ServerInitialisation" => Calling

LetsGo(x) == Over(x) => ~x.grabbed

Counted == Handshake(h) /\ loop \in Loops /\ Stages /\ NobodyReads

-----------------------------------------------------------------------------
Milder(x, y) ==
    /\ y.conn \in {"connecting", "connected"} => y.conn = x.conn
    /\ y.ready = "connecting" => x.ready = "connecting"
    /\ LetsGo(x) => LetsGo(y)

LEMMA UpdateMilder ==
    ASSUME NEW x, Sound(x), NEW new \in {"disconnecting", "disconnected"}
    PROVE  /\ Milder(x, UpdateConnectionState(x, new))
           /\ new = "disconnecting" => Over(UpdateConnectionState(x, new))
<1> DEFINE u == UpdateConnectionState(x, new)
<1>1. x \in Connection /\ x.conn \in Conns
  BY DEF Sound, Connection
<1>2. CASE ~Transition(x.conn, new)
  BY <1>1, <1>2 DEF UpdateConnectionState, Milder, LetsGo, Over, Transition, Conns
<1>3. CASE new = "disconnecting" /\ Transition(x.conn, new)
  <2>1. PICK a \in BOOLEAN, b \in BOOLEAN : u = [Disconnect([x EXCEPT !.conn = new, !.onclose = a, !.timer = b]) EXCEPT !.timer = TRUE]
    BY <1>1, <1>3 DEF UpdateConnectionState, Transition, Connection
  <2>2. u.conn = "disconnecting" /\ ~u.grabbed /\ (u.ready = "connecting" => x.ready = "connecting")
    BY <1>1, <1>3, <2>1 DEF Disconnect, Connection, Readys
  <2> QED BY <2>2, <1>3 DEF Milder, LetsGo, Over
<1>4. CASE new = "disconnected" /\ Transition(x.conn, new)
  <2>1. PICK told : \E a, b \in BOOLEAN : u = [x EXCEPT !.conn = "disconnected", !.onclose = a, !.timer = b, !.told = told]
    BY <1>1, <1>4 DEF UpdateConnectionState, Transition, Connection
  <2>2. u.conn = "disconnected" /\ u.grabbed = x.grabbed /\ u.ready = x.ready
    BY <1>1, <2>1 DEF Connection
  <2> QED BY <1>4, <2>2 DEF Milder, LetsGo, Over, Transition
<1> QED BY <1>2, <1>3, <1>4

LEMMA FailMilder ==
    ASSUME NEW x, Sound(x)
    PROVE  Milder(x, Fail(x)) /\ Over(Fail(x)) /\ Milder(x, Ended(x))
<1>1. ASSUME NEW y, Sound(y) PROVE Milder(y, Ended(y)) /\ Over(Ended(y))
  <2> DEFINE v == UpdateConnectionState(y, "disconnecting")
             w == UpdateConnectionState(v, "disconnected")
  <2>1. Sound(v) /\ Milder(y, v) /\ Over(v)
    BY <1>1, UpdateMilder, UpdateSound
  <2> HIDE DEF v
  <2>2. Milder(v, w)
    BY <2>1, UpdateMilder
  <2>3. Sound(w)
    BY <2>1, UpdateSound
  <2>4. Ended(y) = w
    BY DEF Ended, v
  <2> HIDE DEF w
  <2>5. w.conn \in Conns
    BY <2>3 DEF Sound, Connection
  <2> QED BY <2>1, <2>2, <2>4, <2>5 DEF Milder, Over, Conns
<1> DEFINE z == [x EXCEPT !.clean = FALSE]
<1>2. Sound(z) /\ z.conn = x.conn /\ z.ready = x.ready /\ z.grabbed = x.grabbed
  BY DEF Sound, Connection, ToldAs, Over
<1>3. Fail(x) = Ended(z)
  BY DEF Fail
<1> HIDE DEF z
<1>4. Milder(z, Ended(z)) /\ Over(Ended(z))
  BY <1>1, <1>2
<1>5. Milder(x, Ended(z))
  BY <1>2, <1>4 DEF Milder, LetsGo, Over
<1> QED BY <1>1, <1>3, <1>4, <1>5

LEMMA ClosedByMilder ==
    ASSUME NEW x, Sound(x)
    PROVE  Milder(x, ClosedBy(x))
<1>1. ASSUME NEW y, y \in Connection, Milder(x, y) PROVE Milder(x, [y EXCEPT !.onclose = FALSE])
  BY <1>1 DEF Milder, LetsGo, Over, Connection
<1>2. Fail(x) \in Connection /\ Ended(x) \in Connection
  BY EndedSound DEF Sound
<1>3. Milder(x, x)
  BY DEF Milder
<1> QED BY <1>1, <1>2, <1>3, FailMilder DEF ClosedBy

\* A handler that fails, or does nothing to the connection.
LEMMA KeepsMilder ==
    ASSUME Sound(c), Keeps
    PROVE  Milder(c, c') /\ (c' # c => Over(c'))
BY FailMilder DEF Keeps, Milder
-----------------------------------------------------------------------------
(* Calls of _initMsg. *)

LEMMA ServerInitIsShort ==
    ASSUME Counted, Calls("ServerInitialisation"), Len(h.rq) >= InitSize
    PROVE  loop = "init" /\ c.conn = "connecting"
<1>1. h.resume \in Nat /\ Len(h.rq) \in Nat
  BY LenProperties DEF Counted, Handshake
<1>2. ~(loop = "once" /\ Owed = 0)
  BY <1>1 DEF Owed, One
<1>3. InitSize \in Nat
  BY DEF InitSize
<1>4. loop \in {"init", "once"} /\ (loop = "once" => Owed = 0 \/ Len(h.rq) < InitSize)
  BY DEF Counted, NobodyReads, Calls
<1>5. ~(Len(h.rq) < InitSize)
  BY <1>1, <1>3
<1>6. loop = "init"
  BY ONLY <1>2, <1>4, <1>5, Zenon
<1> QED BY <1>6 DEF Counted, Stages

\* A call that makes no call owed, and stays before ServerInit.
Steady ==
    /\ Handshake(h') /\ h.init \notin {"", "ServerInitialisation"} /\ h.ra2 = ""
    /\ h'.resume = h.resume /\ h'.creds = h.creds /\ h'.ra2 = h.ra2 /\ h'.go = h.go
    /\ loop \in {"init", "once"} /\ ui' = ui
    /\ (loop' = loop /\ c' = c) \/ Return(FALSE) \/ (Return(TRUE) /\ c' = c)
    /\ h'.init \in {"Security", "SecurityReason", "Authentication", "SecurityResult", "ClientInitialisation"} \/ h'.init = h.init
    /\ h'.init = "ClientInitialisation" => Return(TRUE) /\ c' = c
    /\ h'.ard = h.ard \/ (h'.ard = "sent" /\ h'.init # "Authentication" /\ h.creds)
    /\ h'.init \in {"ProtocolVersion", "Security"} =>
         h.init \in {"ProtocolVersion", "Security"} /\ h'.tight = h.tight /\ h'.ard = h.ard
    /\ h'.init = "Authentication" => h.init \in {"Security", "Authentication"}

LEMMA SteadyCounted ==
    ASSUME Counted, Sound(c), Keeps, Steady
    PROVE  Counted'
<1>1. /\ Handshake(h) /\ h.resume \in Nat /\ loop' \in Loops
      /\ loop' = "init" => loop = "init" /\ c'.conn = "connecting"
      /\ loop' = "once" => loop = "once"
      /\ loop' # "normal"
  BY KeepsMilder DEF Steady, Return, Loops, Counted, Handshake, Stages
<1>2. Calling /\ c.conn # "connected" /\ c.ready # "connecting"
  BY DEF Steady, Counted, Stages
<1>3. /\ Owed \in Nat /\ Owed' \in Nat /\ Owed' <= Owed
      /\ loop = "once" /\ loop' # "once" => Owed' < Owed
  <2>1. h'.ard = "working" => h.ard = "working"
    BY DEF Steady
  <2>2. h'.resume = h.resume /\ ui' = ui
    BY DEF Steady
  <2> QED BY <1>1, <2>1, <2>2 DEF Owed, One
<1>10. Owed <= 2 /\ (h.ard = "" => Owed <= 1)
  BY <1>2 DEF Calling
<1>11. Owed' <= 2 /\ (h.ard = "" => Owed' <= 1) /\ (loop = "once" /\ loop' # "once" => Owed' <= 1)
  <2>1. (Owed <= 1 => Owed' <= 1) /\ (Owed <= 2 => Owed' <= 2) /\ (Owed <= 2 /\ Owed' < Owed => Owed' <= 1)
    BY <1>3
  <2> QED BY ONLY <2>1, <1>3, <1>10, Zenon
<1>4. Calling'
  <2>1. h'.ard = "" => h.ard = ""
    BY DEF Steady
  <2>2. h'.creds = h.creds /\ h'.resume = h.resume /\ ui' = ui
    BY DEF Steady
  <2>3. ~h.creds => h'.ard = h.ard
    BY DEF Steady
  <2>4. h'.ard = "sent" => h'.init # "Authentication"
    BY <1>2 DEF Steady, Calling, Counted, Stages
  <2> QED BY <1>1, <1>2, <1>11, <2>1, <2>2, <2>3, <2>4 DEF Calling
<1>5. c'.conn # "connected" /\ c'.ready # "connecting"
  BY <1>2, KeepsMilder DEF Milder
<1>6. h'.ra2 = ""
  BY DEF Steady
<1>7. h'.init \in {"", "ProtocolVersion", "Security"} => h'.ard = "" /\ ~h'.tight
  BY DEF Steady, Counted, Stages
<1>8. Stages'
  BY <1>1, <1>4, <1>5, <1>6, <1>7 DEF Stages
<1>9. NobodyReads'
  <2>1. h'.init # "ServerInitialisation"
    BY DEF Steady
  <2>2. ASSUME h'.init = "ClientInitialisation", loop' \in {"idle", "once"} PROVE Owed' <= 1
    <3>1. Return(TRUE) /\ c' = c
      BY <2>2 DEF Steady
    <3>2. loop = "once" /\ loop' = "idle"
      BY <2>2, <3>1 DEF Return, Steady, Counted, Stages
    <3> QED BY <1>11, <3>2
  <2> QED BY <2>1, <2>2 DEF NobodyReads
<1> QED BY <1>1, <1>8, <1>9 DEF Counted, Steady

\* The first prompt: nobody had given credentials, so no call is owed.
LEMMA AsksCounted ==
    ASSUME Counted, Calls("Authentication"), AsksCredentials
    PROVE  Counted'
<1>1. Handshake(h) /\ loop' = "idle" /\ h' = h /\ c' = c /\ h.creds = FALSE
  BY DEF AsksCredentials, Return, Counted, Handshake
<1>2. Calling /\ h.init = "Authentication"
  BY DEF Calls, Counted, Stages
<1>3. h.ard = "" /\ h.resume = 0
  BY <1>1, <1>2 DEF Calling
<1>4. Owed' <= 1 /\ Owed' \in Nat
  <2>1. Owed' = 0 + 0 + One("credentials" \in ui') + 0
    BY <1>1, <1>3 DEF Owed, One
  <2>2. One("credentials" \in ui') \in {0, 1}
    BY DEF One
  <2> HIDE DEF Owed
  <2> QED BY <2>1, <2>2
<1>6. h'.creds = h.creds /\ h'.ard = "" /\ h'.resume = 0 /\ loop' = "idle" /\ h'.init = h.init
  BY <1>1, <1>3
<1>7. Owed' <= 2
  BY <1>4
<1>5. Calling'
  BY <1>1, <1>4, <1>6, <1>7, Zenon DEF Calling
<1> QED BY <1>1, <1>2, <1>5 DEF Counted, Stages, NobodyReads, Loops, Whole

LEMMA RestType ==
    ASSUME Handshake(h), Whole
    PROVE  Rest \in Seq(All)
<1>1. h.rq \in Seq(All) /\ Len(h.rq) >= 2 /\ Len(h.rq) \in Nat
  BY LenProperties DEF Handshake, Whole
<1>4. Rest \in Seq(All)
  BY <1>1, SubSeqProperties DEF Rest
<1> QED BY <1>4

\* A call that waits for more, and one that fails: the handshake stays where it is.
LEMMA WaitsSteady ==
    ASSUME Counted, Sound(c), h.ra2 = "", h.init \notin {"", "ServerInitialisation"}, loop \in {"init", "once"},
           h.init # "ClientInitialisation",
           \/ Waits
           \/ FailsWith(h)
           \/ Whole /\ FailsWith([h EXCEPT !.rq = Rest])
           \/ Whole /\ FailsWith([h EXCEPT !.rq = Rest, !.tight = TRUE]) /\ h.init = "Authentication"
    PROVE  Counted'
<1>1. Handshake(h) /\ Return(FALSE) /\ ui' = ui /\ Keeps
  BY DEF Counted, Waits, FailsWith, Quiet, Keeps
<1>2. \/ h' = h
      \/ h' = [h EXCEPT !.rq = Rest] /\ Rest \in Seq(All)
      \/ h' = [h EXCEPT !.rq = Rest, !.tight = TRUE] /\ Rest \in Seq(All) /\ h.init = "Authentication"
  BY <1>1, RestType DEF Waits, FailsWith
<1>3. /\ Handshake(h')
      /\ h'.resume = h.resume /\ h'.creds = h.creds /\ h'.ra2 = h.ra2 /\ h'.go = h.go
      /\ h'.init = h.init /\ h'.ard = h.ard
      /\ h.init # "Authentication" => h'.tight = h.tight
  BY <1>1, <1>2 DEF Handshake
<1>4. Steady
  BY <1>1, <1>3 DEF Steady
<1> QED BY <1>1, <1>4, SteadyCounted

\* A call that goes on, given what it does to h.
LEMMA GoesSteady ==
    ASSUME Counted, Sound(c), h.ra2 = "", c' = c, ui' = ui, loop \in {"init", "once"},
           h.init \notin {"", "ServerInitialisation"},
           loop' = loop \/ Return(FALSE) \/ Return(TRUE),
           NEW x, Handshake(x), x.resume = h.resume, x.creds = h.creds, x.ra2 = h.ra2, x.go = h.go, x.ard = h.ard,
           x.init \in {"Security", "SecurityReason", "Authentication", "SecurityResult", "ClientInitialisation"}
             \/ x.init = h.init,
           x.init = "ClientInitialisation" => Return(TRUE),
           x.init \in {"ProtocolVersion", "Security"} => h.init = "ProtocolVersion" /\ x.tight = h.tight,
           x.init = "Authentication" => h.init \in {"Security", "Authentication"},
           h' = x
    PROVE  Counted'
<1>1. Steady
  BY DEF Steady
<1> QED BY <1>1, SteadyCounted DEF Keeps

LEMMA StageOf ==
    ASSUME Counted, NEW state, Calls(state), state # "", state # "ServerInitialisation",
           state # "Authentication" \/ h.scheme # "ra2"
    PROVE  h.ra2 = "" /\ h.init = state /\ h.init \notin {"", "ServerInitialisation"} /\ loop \in {"init", "once"}
           /\ Handshake(h)
BY DEF Counted, Stages, Calls

LEMMA OpeningCounted ==
    ASSUME Counted, Sound(c), NegotiateProtocolVersion \/ NegotiateSecurity \/ HandleSecurityReason \/ HandleSecurityResult
    PROVE  Counted'
<1>1. CASE NegotiateProtocolVersion
  <2>1. /\ h.ra2 = "" /\ h.init = "ProtocolVersion" /\ loop \in {"init", "once"} /\ Handshake(h)
    BY <1>1, StageOf DEF NegotiateProtocolVersion
  <2>2. CASE Waits \/ (Whole /\ FailsWith([h EXCEPT !.rq = Rest]))
    BY <2>1, <2>2, WaitsSteady
  <2>3. CASE ~(Waits \/ (Whole /\ FailsWith([h EXCEPT !.rq = Rest])))
    <3>1. /\ Whole /\ c' = c /\ ui' = ui /\ (Return(TRUE) \/ Return(FALSE))
          /\ \/ h' = [h EXCEPT !.rq = Rest]
             \/ h' = [h EXCEPT !.rq = Rest, !.ver = HeadMsg, !.init = "Security"]
      BY <1>1, <2>3 DEF NegotiateProtocolVersion
    <3>2. /\ Handshake(h') /\ h'.resume = h.resume /\ h'.creds = h.creds /\ h'.ra2 = h.ra2 /\ h'.go = h.go
          /\ h'.ard = h.ard /\ h'.tight = h.tight /\ h'.init \in {"ProtocolVersion", "Security"}
      BY <2>1, <3>1, RestType DEF Handshake
    <3> QED BY <2>1, <3>1, <3>2, GoesSteady
  <2> QED BY <2>2, <2>3
<1>2. CASE NegotiateSecurity
  <2>1. /\ h.ra2 = "" /\ h.init = "Security" /\ loop \in {"init", "once"} /\ Handshake(h)
    BY <1>2, StageOf DEF NegotiateSecurity
  <2>2. CASE Waits \/ (Whole /\ FailsWith([h EXCEPT !.rq = Rest]))
    BY <2>1, <2>2, WaitsSteady
  <2>3. CASE ~(Waits \/ (Whole /\ FailsWith([h EXCEPT !.rq = Rest])))
    <3>1. /\ Whole /\ c' = c /\ ui' = ui /\ Return(TRUE)
          /\ \/ h' = [h EXCEPT !.rq = Rest, !.init = "SecurityReason"]
             \/ h' = [h EXCEPT !.rq = Rest, !.scheme = HeadMsg, !.init = "Authentication"]
      BY <1>2, <2>3 DEF NegotiateSecurity, Quiet
    <3>2. /\ Handshake(h') /\ h'.resume = h.resume /\ h'.creds = h.creds /\ h'.ra2 = h.ra2 /\ h'.go = h.go
          /\ h'.ard = h.ard /\ h'.init \in {"SecurityReason", "Authentication"}
      BY <2>1, <3>1, RestType DEF Handshake
    <3> QED BY <2>1, <3>1, <3>2, GoesSteady
  <2> QED BY <2>2, <2>3
<1>3. CASE HandleSecurityReason
  <2>1. /\ h.ra2 = "" /\ h.init = "SecurityReason" /\ loop \in {"init", "once"} /\ Handshake(h)
    BY <1>3, StageOf DEF HandleSecurityReason
  <2> QED BY <1>3, <2>1, WaitsSteady DEF HandleSecurityReason
<1>4. CASE HandleSecurityResult
  <2>1. /\ h.ra2 = "" /\ h.init = "SecurityResult" /\ loop \in {"init", "once"} /\ Handshake(h)
    BY <1>4, StageOf DEF HandleSecurityResult
  <2>2. CASE Waits \/ (Whole /\ FailsWith([h EXCEPT !.rq = Rest]))
    BY <2>1, <2>2, WaitsSteady
  <2>3. CASE ~(Waits \/ (Whole /\ FailsWith([h EXCEPT !.rq = Rest])))
    <3>1. /\ Whole /\ c' = c /\ ui' = ui /\ Return(TRUE)
          /\ \E to \in {"ClientInitialisation", "SecurityReason"} : h' = [h EXCEPT !.rq = Rest, !.init = to]
      BY <1>4, <2>3 DEF HandleSecurityResult, Quiet
    <3>2. /\ Handshake(h') /\ h'.resume = h.resume /\ h'.creds = h.creds /\ h'.ra2 = h.ra2 /\ h'.go = h.go
          /\ h'.ard = h.ard /\ h'.init \in {"SecurityReason", "ClientInitialisation"}
      BY <2>1, <3>1, RestType DEF Handshake
    <3> QED BY <2>1, <3>1, <3>2, GoesSteady
  <2> QED BY <2>2, <2>3
<1> QED BY <1>1, <1>2, <1>3, <1>4

\* The negotiations of a security type other than RSA-AES.
LEMMA AnsweredCounted ==
    ASSUME Counted, Sound(c), Calls("Authentication"), h.scheme # "ra2",
           \/ Answered(h)
           \/ Whole /\ Answered([h EXCEPT !.rq = Rest])
           \/ h.creds /\ Answered([h EXCEPT !.ard = "sent"])
    PROVE  Counted'
<1>1. /\ h.ra2 = "" /\ h.init = "Authentication" /\ loop \in {"init", "once"} /\ Handshake(h)
  BY StageOf
<1>2. c' = c /\ ui' = ui /\ Return(TRUE)
  BY DEF Answered
<1>3. CASE Answered(h) \/ (Whole /\ Answered([h EXCEPT !.rq = Rest]))
  <2>1. /\ Handshake(h') /\ h'.resume = h.resume /\ h'.creds = h.creds /\ h'.ra2 = h.ra2 /\ h'.go = h.go
        /\ h'.ard = h.ard /\ h'.init = "SecurityResult"
    BY <1>1, <1>3, RestType DEF Handshake, Answered
  <2> QED BY <1>1, <1>2, <2>1, GoesSteady
<1>4. CASE h.creds /\ Answered([h EXCEPT !.ard = "sent"])
  <2>1. /\ Handshake(h') /\ h'.resume = h.resume /\ h'.creds = h.creds /\ h'.ra2 = h.ra2 /\ h'.go = h.go
        /\ h'.ard = "sent" /\ h'.init = "SecurityResult"
    BY <1>1, <1>4 DEF Handshake, Answered
  <2>2. Steady
    BY <1>1, <1>2, <1>4, <2>1 DEF Steady
  <2> QED BY <1>2, <2>2, SteadyCounted DEF Keeps
<1> QED BY <1>3, <1>4

\* The one call that makes another: the digest of ARD will call when it is done.
LEMMA ARDCounted ==
    ASSUME Counted, Sound(c), NegotiateARDAuth
    PROVE  Counted'
<1>1. /\ h.ra2 = "" /\ h.init = "Authentication" /\ loop \in {"init", "once"} /\ Handshake(h) /\ h.scheme # "ra2"
      /\ Calls("Authentication")
  BY StageOf DEF NegotiateARDAuth, Auth
<1>2. CASE AsksCredentials
  BY <1>1, <1>2, AsksCounted
<1>3. CASE h.creds /\ Answered([h EXCEPT !.ard = "sent"])
  BY <1>1, <1>3, AnsweredCounted
<1>4. CASE Waits
  BY <1>1, <1>4, WaitsSteady
<1>5. CASE /\ h.creds /\ h.ard # "ready" /\ Whole
           /\ h' = [h EXCEPT !.rq = Rest, !.ard = "working"]
           /\ Quiet /\ Return(FALSE)
  <2>1. /\ Handshake(h') /\ h'.resume = h.resume /\ h'.creds = h.creds /\ h'.ra2 = h.ra2 /\ h'.go = h.go
        /\ h'.ard = "working" /\ h'.init = "Authentication" /\ h.creds /\ h.ard # "ready"
    BY <1>1, <1>5, RestType DEF Handshake
  <2>2. c' = c /\ ui' = ui /\ loop' = "idle" /\ h.resume \in Nat
    BY <1>1, <1>5 DEF Quiet, Return, Handshake
  <2>3. Calling
    BY <1>1 DEF Counted, Stages
  <2>4. Owed <= 2 /\ (h.ard = "" => Owed <= 1) /\ h.ard # "sent"
    BY <1>1, <2>3 DEF Calling
  <2>5. h.ard \in {"", "working"}
    BY <1>1, <2>1, <2>4 DEF Handshake
  <2>6. /\ Owed \in Nat /\ Owed' \in Nat /\ Owed' <= Owed + 1
        /\ h.ard = "working" => Owed' <= Owed
    <3> DEFINE o == One(loop = "once")
               p == One("credentials" \in ui)
               w == One(h.ard = "working")
    <3>1. o \in {0, 1} /\ p \in {0, 1} /\ w \in {0, 1} /\ (h.ard = "working" => w = 1)
      BY DEF One
    <3>2. Owed = h.resume + o + p + w
      BY DEF Owed
    <3>3. Owed' = h.resume + 0 + p + 1
      BY <2>1, <2>2 DEF Owed, One
    <3> HIDE DEF o, p, w
    <3> QED BY <2>2, <3>1, <3>2, <3>3
  <2>7. Owed' <= 2
    <3>1. (Owed <= 1 => Owed' <= 2) /\ (Owed <= 2 /\ Owed' <= Owed => Owed' <= 2)
      BY <2>6
    <3> QED BY ONLY <2>4, <2>5, <2>6, <3>1, Zenon
  <2>8. Calling'
    <3>1. h.creds /\ "credentials" \notin ui' /\ h'.creds = h.creds
      BY <2>1, <2>2, <2>3 DEF Calling
    <3>2. h'.ard # "" /\ h'.ard # "sent"
      BY <2>1
    <3> QED BY <2>7, <3>1, <3>2, Zenon DEF Calling
  <2>9. Stages' /\ NobodyReads'
    BY <1>1, <2>1, <2>2, <2>8 DEF Stages, NobodyReads, Counted
  <2> QED BY <2>1, <2>2, <2>9 DEF Counted, Loops
<1> QED BY <1>2, <1>3, <1>4, <1>5 DEF NegotiateARDAuth

LEMMA SchemesCounted ==
    ASSUME Counted, Sound(c),
           NegotiateNone \/ NegotiateXvpAuth \/ NegotiatePlainAuth \/ NegotiateChallenge \/ UnsupportedScheme
    PROVE  Counted'
<1>1. /\ h.ra2 = "" /\ h.init = "Authentication" /\ loop \in {"init", "once"} /\ Handshake(h) /\ h.scheme # "ra2"
      /\ Calls("Authentication")
  <2>1. Calls("Authentication") /\ h.scheme # "ra2"
    BY DEF NegotiateNone, NegotiateXvpAuth, NegotiatePlainAuth, NegotiateChallenge, UnsupportedScheme, Auth
  <2> QED BY <2>1, StageOf
<1>2. CASE AsksCredentials \/ Waits
  BY <1>1, <1>2, AsksCounted, WaitsSteady
<1>3. CASE NegotiateNone
  <2>1. /\ c' = c /\ ui' = ui /\ Return(TRUE)
        /\ \E to \in {"SecurityResult", "ClientInitialisation"} : h' = [h EXCEPT !.init = to]
    BY <1>3 DEF NegotiateNone, Quiet
  <2>2. /\ Handshake(h') /\ h'.resume = h.resume /\ h'.creds = h.creds /\ h'.ra2 = h.ra2 /\ h'.go = h.go
        /\ h'.ard = h.ard /\ h'.init \in {"SecurityResult", "ClientInitialisation"}
    BY <1>1, <2>1 DEF Handshake
  <2> QED BY <1>1, <2>1, <2>2, GoesSteady
<1>4. CASE NegotiateXvpAuth /\ ~AsksCredentials
  <2>1. c' = c /\ ui' = ui /\ loop' = loop /\ h' = [h EXCEPT !.scheme = "vnc"]
    BY <1>4 DEF NegotiateXvpAuth
  <2>2. /\ Handshake(h') /\ h'.resume = h.resume /\ h'.creds = h.creds /\ h'.ra2 = h.ra2 /\ h'.go = h.go
        /\ h'.ard = h.ard /\ h'.init = h.init
    BY <1>1, <2>1 DEF Handshake
  <2> QED BY <1>1, <2>1, <2>2, GoesSteady
<1>5. CASE NegotiatePlainAuth
  BY <1>1, <1>2, <1>5, AnsweredCounted DEF NegotiatePlainAuth
<1>6. CASE NegotiateChallenge
  BY <1>1, <1>2, <1>6, AnsweredCounted DEF NegotiateChallenge
<1>7. CASE UnsupportedScheme
  BY <1>1, <1>7, WaitsSteady DEF UnsupportedScheme
<1> QED BY <1>2, <1>3, <1>4, <1>5, <1>6, <1>7

LEMMA TunnelsCounted ==
    ASSUME Counted, Sound(c), NegotiateTightTunnels \/ NegotiateTightSubAuth \/ NegotiateVeNCryptAuth
    PROVE  Counted'
<1>1. /\ h.ra2 = "" /\ h.init = "Authentication" /\ loop \in {"init", "once"} /\ Handshake(h)
      /\ Calls("Authentication")
  <2>1. Calls("Authentication") /\ h.scheme # "ra2"
    BY DEF NegotiateTightTunnels, NegotiateTightSubAuth, NegotiateVeNCryptAuth, Auth
  <2> QED BY <2>1, StageOf
<1>2. CASE Waits \/ (Whole /\ FailsWith([h EXCEPT !.rq = Rest])) \/ (Whole /\ FailsWith([h EXCEPT !.rq = Rest, !.tight = TRUE]))
  BY <1>1, <1>2, WaitsSteady
<1>3. ASSUME Whole, c' = c, ui' = ui, loop' = loop \/ Return(FALSE) \/ Return(TRUE),
             \/ h' = [h EXCEPT !.rq = Rest, !.tight = TRUE]
             \/ h' = [h EXCEPT !.rq = Rest, !.init = "SecurityResult"]
             \/ \E scheme : h' = [h EXCEPT !.rq = Rest, !.scheme = scheme]
             \/ \E n : h' = [h EXCEPT !.rq = Rest, !.ven = n]
             \/ \E n, scheme : h' = [h EXCEPT !.rq = Rest, !.ven = n, !.scheme = scheme]
      PROVE  Counted'
  <2>1. /\ Handshake(h') /\ h'.resume = h.resume /\ h'.creds = h.creds /\ h'.ra2 = h.ra2 /\ h'.go = h.go
        /\ h'.ard = h.ard /\ h'.init \in {"Authentication", "SecurityResult"}
    BY <1>1, <1>3, RestType DEF Handshake
  <2> QED BY <1>1, <1>3, <2>1, GoesSteady
<1>4. CASE NegotiateTightTunnels
  BY <1>2, <1>3, <1>4 DEF NegotiateTightTunnels, Quiet
<1>5. CASE NegotiateTightSubAuth
  BY <1>2, <1>3, <1>5 DEF NegotiateTightSubAuth
<1>6. CASE NegotiateVeNCryptAuth
  BY <1>2, <1>3, <1>6 DEF NegotiateVeNCryptAuth, VeNCryptSteps
<1> QED BY <1>4, <1>5, <1>6

\* From a timer, the call that sends ClientInit is the last one owed.
LEMMA ClientInitCounted ==
    ASSUME Counted, Sound(c), ClientInitialisation
    PROVE  Counted'
<1>1. /\ h.ra2 = "" /\ h.init = "ClientInitialisation" /\ loop \in {"init", "once"} /\ Handshake(h)
  BY StageOf DEF ClientInitialisation
<1>2. /\ c' = c /\ ui' = ui /\ Return(TRUE) /\ h' = [h EXCEPT !.init = "ServerInitialisation"]
  BY DEF ClientInitialisation
<1>3. /\ Handshake(h') /\ h'.resume = h.resume /\ h'.ra2 = "" /\ h'.ard = h.ard /\ h'.init = "ServerInitialisation"
      /\ h.resume \in Nat
  BY <1>1, <1>2 DEF Handshake
<1>4. loop' \in {"init", "idle"} /\ (loop' = "idle" => loop = "once") /\ (loop' = "init" => c'.conn = "connecting")
  BY <1>1, <1>2 DEF Return, Counted, Stages
<1>5. ASSUME loop' = "idle" PROVE Owed' = 0
  <2>1. loop = "once" /\ Owed <= 1
    BY <1>1, <1>4, <1>5 DEF Counted, NobodyReads
  <2> DEFINE p == One("credentials" \in ui)
             w == One(h.ard = "working")
  <2>2. p \in {0, 1} /\ w \in {0, 1}
    BY DEF One
  <2>3. PICK n \in Nat : h.resume = n
    BY <1>3
  <2>4. Owed = n + 1 + p + w
    BY <2>1, <2>3 DEF Owed, One
  <2>5. Owed' = n + 0 + p + w
    BY <1>2, <1>3, <1>5, <2>3 DEF Owed, One
  <2> HIDE DEF p, w
  <2>6. n + 1 + p + w <= 1
    BY <2>1, <2>4
  <2>7. n = 0 /\ p = 0 /\ w = 0
    BY ONLY n \in Nat, <2>2, <2>6
  <2> QED BY <2>5, <2>7
<1>6. c.ready # "connecting" /\ c.conn # "connected"
  BY <1>1 DEF Counted, Stages
<1>7. NobodyReads'
  BY <1>3, <1>4, <1>5 DEF NobodyReads
<1>8. Stages'
  BY <1>2, <1>3, <1>4, <1>6 DEF Stages
<1> QED BY <1>3, <1>4, <1>7, <1>8 DEF Counted, Loops

LEMMA ServerInitCounted ==
    ASSUME Counted, Sound(c), NegotiateServerInit, c.conn = "connecting" => Len(h.rq) <= InitSize
    PROVE  /\ Counted'
           /\ LetsGo(c) => LetsGo(c')
<1>1. /\ h.init = "ServerInitialisation" /\ loop \in {"init", "once"} /\ Handshake(h) /\ h.ra2 = ""
      /\ c.ready # "connecting"
  BY DEF NegotiateServerInit, Calls, Counted, Stages
<1>2. InitSize \in {2, 4} /\ InitSize = IF h.tight THEN 4 ELSE 2
  BY DEF InitSize
<1>3. h.rq \in Seq(All) /\ Len(h.rq) \in Nat
  BY <1>1, LenProperties DEF Handshake
<1>4. CASE Len(h.rq) < InitSize
  <2>1. c' = c /\ h' = h /\ loop' = "idle"
    BY <1>2, <1>3, <1>4 DEF NegotiateServerInit, Return, Quiet, InitSize
  <2>2. NobodyReads'
    BY <1>1, <1>4, <2>1 DEF NobodyReads, InitSize
  <2>3. Stages'
    BY <1>1, <2>1 DEF Counted, Stages, Whole
  <2> QED BY <1>1, <2>1, <2>2, <2>3 DEF Counted, Loops
<1>5. CASE ~(Len(h.rq) < InitSize)
  <2>1. Len(h.rq) >= InitSize
    BY <1>2, <1>3, <1>5
  <2>2. loop = "init" /\ c.conn = "connecting"
    BY <2>1, ServerInitIsShort DEF NegotiateServerInit
  <2>3. Len(h.rq) = InitSize
    BY <1>2, <1>3, <2>1, <2>2
  <2> DEFINE read == [h EXCEPT !.rq = SubSeq(@, InitSize + 1, Len(@))]
             x    == [c EXCEPT !.grabbed = TRUE]
  <2>4. c' = UpdateConnectionState(x, "connected") /\ h' = Negotiated(read) /\ Return(TRUE)
    BY <1>2, <1>3, <1>5, <2>1 DEF NegotiateServerInit, InitSize
  <2>5. Sound(x) /\ x.conn = "connecting" /\ x.ready = c.ready
    BY <2>2 DEF Sound, Connection, ToldAs, Over
  <2>6. c'.conn = "connected" /\ c'.ready = c.ready
    <3>1. x \in Connection
      BY <2>5 DEF Sound
    <3> HIDE DEF x
    <3>2. \E a, b, told : c' = [x EXCEPT !.conn = "connected", !.onclose = a, !.timer = b, !.told = told]
      BY <2>4, <2>5, <3>1 DEF UpdateConnectionState, Transition, Connection
    <3> QED BY <2>5, <3>1, <3>2 DEF Connection
  <2>7. SubSeq(h.rq, InitSize + 1, Len(h.rq)) = <<>>
    BY <1>2, <1>3, <2>3, SubSeqEmpty
  <2>8. /\ Handshake(h') /\ h'.init = "ServerInitialisation" /\ h'.ra2 = "" /\ h'.rq = <<>> /\ h'.go = FALSE
    <3>1. <<>> \in Seq(All)
      OBVIOUS
    <3> QED BY <1>1, <2>4, <2>7, <3>1 DEF Handshake, Negotiated, HInit
  <2>9. loop' = "idle"
    BY <2>4, <2>6 DEF Return
  <2>10. Stages'
    BY <1>1, <2>6, <2>8, <2>9 DEF Stages
  <2>11. NobodyReads'
    <3>1. Len(h'.rq) = 0 /\ InitSize' \in {2, 4} /\ h'.init # "ClientInitialisation"
      BY <2>8 DEF InitSize
    <3>2. Len(h'.rq) < InitSize'
      BY <3>1
    <3> QED BY <3>1, <3>2, Zenon DEF NobodyReads
  <2>12. LetsGo(c')
    BY <2>6 DEF LetsGo, Over
  <2> QED BY <2>8, <2>9, <2>10, <2>11, <2>12 DEF Counted, Loops
<1> QED BY <1>4, <1>5

\* A step that leaves the handshake where it is, and owes nothing.
LEMMA PauseCounted ==
    ASSUME Counted, Milder(c, c'), Handshake(h'), h'.init = h.init, h'.tight = h.tight,
           loop \in {"idle", "once"} \/ h.init = "Authentication", loop' \in {"idle", "once"},
           Owed \in Nat, Owed' \in Nat, Owed' <= Owed,
           h.init = "ServerInitialisation" => h'.rq = h.rq,
           h.init # "ServerInitialisation" => Calling',
           h'.ra2 # "" => h.init = "Authentication" /\ h'.scheme = "ra2",
           h'.go /\ h'.ra2 \in {"hash", "subtype", "keyrest"} => Len(h'.rq) >= 2,
           h.init \in {"", "ProtocolVersion", "Security"} => h'.ard = h.ard
    PROVE  Counted'
<1>1. Stages'
  BY DEF Counted, Stages, Whole, Milder
<1>2. (Owed <= 1 => Owed' <= 1) /\ (Owed = 0 => Owed' = 0)
  BY ONLY Owed \in Nat, Owed' \in Nat, Owed' <= Owed
<1>3. InitSize' = InitSize
  BY DEF InitSize
<1>4. ASSUME loop \in {"idle", "once"} PROVE NobodyReads'
  <2>1. /\ h.init = "ClientInitialisation" => Owed <= 1
        /\ h.init = "ServerInitialisation" => Owed = 0 \/ Len(h.rq) < InitSize
    BY <1>4, Zenon DEF Counted, NobodyReads
  <2>2. h'.init = "ServerInitialisation" => Len(h'.rq) = Len(h.rq)
    OBVIOUS
  <2>3. h'.init = "ServerInitialisation" => Owed' = 0 \/ Len(h'.rq) < InitSize'
    BY <1>2, <1>3, <2>1, <2>2, Zenon
  <2>4. h'.init = "ClientInitialisation" => Owed' <= 1
    BY <1>2, <2>1, Zenon
  <2> QED BY <2>3, <2>4, Zenon DEF NobodyReads
<1>5. ASSUME h.init = "Authentication" PROVE NobodyReads'
  <2>1. h'.init # "ClientInitialisation" /\ h'.init # "ServerInitialisation"
    BY <1>5
  <2> QED BY <2>1, Zenon DEF NobodyReads
<1>6. NobodyReads'
  BY <1>4, <1>5, Zenon
<1> QED BY <1>1, <1>6 DEF Counted, Loops

LEMMA AwaitsFields ==
    ASSUME NEW x, Handshake(x), NEW at
    PROVE  LET y == Awaits(x, at) IN
           /\ Handshake(y) /\ y.init = x.init /\ y.scheme = x.scheme /\ y.tight = x.tight /\ y.ard = x.ard
           /\ y.rq = x.rq /\ y.resume = x.resume /\ y.creds = x.creds /\ y.ra2 = at
           /\ y.go /\ at \in {"hash", "subtype", "keyrest"} => Len(x.rq) >= 2
           /\ y.ver = x.ver /\ y.ven = x.ven
<1> DEFINE y == Awaits(x, at)
<1>1. PICK b : y = [x EXCEPT !.ra2 = at, !.go = b]
  BY DEF Awaits
<1>2. y.go = b
  BY <1>1 DEF Handshake
<1>3. b \in BOOLEAN
  <2>1. CASE at \in {"hash", "subtype", "keyrest"}
    <3>1. CASE Len(x.rq) >= 2
      <4>1. y.go = TRUE
        BY <2>1, <3>1 DEF Awaits, Handshake
      <4> QED BY <4>1, <1>2
    <3>2. CASE ~(Len(x.rq) >= 2)
      <4>1. y.go = (Len(x.rq) >= 2)
        BY <2>1 DEF Awaits, Handshake
      <4>2. b = (Len(x.rq) >= 2)
        BY <4>1, <1>2
      <4> QED BY ONLY <4>2
    <3> QED BY <3>1, <3>2
  <2>2. CASE at \in {"key", "random"}
    <3>1. CASE Len(x.rq) >= 1
      <4>1. y.go = TRUE
        BY <2>2, <3>1 DEF Awaits, Handshake
      <4> QED BY <4>1, <1>2
    <3>2. CASE ~(Len(x.rq) >= 1)
      <4>1. y.go = (Len(x.rq) >= 1)
        BY <2>2 DEF Awaits, Handshake
      <4>2. b = (Len(x.rq) >= 1)
        BY <4>1, <1>2
      <4> QED BY ONLY <4>2
    <3> QED BY <3>1, <3>2
  <2>3. CASE at = "creds"
    <3>1. y.go = x.creds
      BY <2>3 DEF Awaits, Handshake
    <3> QED BY <3>1, <1>2 DEF Handshake
  <2>4. CASE at = "approve"
    <3>1. y.go = FALSE
      BY <2>4 DEF Awaits, Handshake
    <3> QED BY <3>1, <1>2
  <2>5. CASE at \notin {"hash", "subtype", "keyrest", "key", "random", "creds", "approve"}
    <3>1. y.go = TRUE
      BY <2>5 DEF Awaits, Handshake
    <3> QED BY <3>1, <1>2
  <2> QED BY <2>1, <2>2, <2>3, <2>4, <2>5
<1>6. at \in {"hash", "subtype", "keyrest"} => y.go = (Len(x.rq) >= 2)
  BY DEF Awaits, Handshake
<1> HIDE DEF y
<1>4. Handshake(y)
  BY <1>1, <1>3 DEF Handshake
<1>5. /\ y.init = x.init /\ y.scheme = x.scheme /\ y.tight = x.tight /\ y.ard = x.ard
      /\ y.rq = x.rq /\ y.resume = x.resume /\ y.creds = x.creds /\ y.ra2 = at
      /\ y.ver = x.ver /\ y.ven = x.ven
  BY <1>1 DEF Handshake
<1> QED BY <1>4, <1>5, <1>6 DEF y

\* A step outside _handleMessage that changes no call, and the like.
LEMMA CallingKept ==
    ASSUME Calling, Handshake(h), h'.resume = h.resume, h'.creds = h.creds, h'.ard = h.ard,
           loop' \in {"idle", "init", "normal"}, "credentials" \in ui' <=> "credentials" \in ui,
           h'.init # "Authentication" \/ h'.init = h.init
    PROVE  Calling'
<1>1. PICK n \in Nat : h.resume = n
  BY DEF Handshake
<1> DEFINE o == One(loop = "once")
           p == One("credentials" \in ui)
           w == One(h.ard = "working")
<1>2. o \in {0, 1} /\ p \in {0, 1} /\ w \in {0, 1}
  BY DEF One
<1>3. Owed = n + o + p + w /\ Owed' = n + 0 + p + w
  BY <1>1 DEF Owed, One
<1> HIDE DEF o, p, w
<1>4. Owed \in Nat /\ Owed' \in Nat /\ Owed' <= Owed
  BY <1>2, <1>3
<1>5. (Owed <= 1 => Owed' <= 1) /\ (Owed <= 2 => Owed' <= 2)
  BY ONLY <1>4
<1>6. (Owed <= 2) /\ (h.ard = "" => Owed <= 1)
  BY DEF Calling
<1>7. Owed' <= 2 /\ (h'.ard = "" => Owed' <= 1)
  BY <1>5, <1>6, Zenon
<1>8. /\ h'.creds => "credentials" \notin ui'
      /\ ~h'.creds => h'.ard = "" /\ h'.resume = 0 /\ loop' # "once"
      /\ h'.ard = "sent" => h'.init # "Authentication"
  BY DEF Calling
<1> QED BY <1>7, <1>8, Zenon DEF Calling

\* A step of the authentication outside _handleMessage, or at the end of it.
LEMMA AuthCounted ==
    ASSUME Counted, Milder(c, c'), Handshake(h'), h.init = "Authentication",
           h'.init \in {"Authentication", "SecurityResult"}, loop' = "idle", Calling',
           h'.ra2 # "" => h'.init = "Authentication" /\ h'.scheme = "ra2",
           h'.go /\ h'.ra2 \in {"hash", "subtype", "keyrest"} => Len(h'.rq) >= 2
    PROVE  Counted'
<1>1. c'.conn # "connected" /\ c'.ready # "connecting"
  BY DEF Counted, Stages, Milder
<1>2. Stages'
  BY <1>1 DEF Stages, Whole
<1>3. NobodyReads'
  BY DEF NobodyReads
<1> QED BY <1>2, <1>3 DEF Counted, Loops

\* An await of RSA-AES begins, or is over for good.
LEMMA AwaitsCounted ==
    ASSUME Counted, Sound(c), Keeps, h.init = "Authentication", h.scheme = "ra2", loop' = "idle",
           "credentials" \in ui' <=> "credentials" \in ui,
           NEW x, x = h \/ (Whole /\ x = [h EXCEPT !.rq = Rest]),
           \/ h' = h
           \/ \E at : h' = Awaits(x, at)
           \/ h' = Settled(x)
    PROVE  Counted'
<1>1. Handshake(h) /\ Calling /\ Milder(c, c')
  BY KeepsMilder DEF Counted, Stages
<1>2. /\ Handshake(x) /\ x.init = h.init /\ x.scheme = "ra2" /\ x.ard = h.ard /\ x.resume = h.resume /\ x.creds = h.creds
      /\ x.ra2 = h.ra2 /\ x.go = h.go /\ (x = h => Len(x.rq) = Len(h.rq))
  BY <1>1, RestType DEF Handshake
<1>3. ASSUME Handshake(h'), h'.init \in {"Authentication", "SecurityResult"}, h'.ard = x.ard, h'.resume = x.resume,
             h'.creds = x.creds, h'.ra2 # "" => h'.init = "Authentication" /\ h'.scheme = "ra2",
             h'.go /\ h'.ra2 \in {"hash", "subtype", "keyrest"} => Len(h'.rq) >= 2
      PROVE  Counted'
  <2>1. Calling'
    BY <1>1, <1>2, <1>3, CallingKept
  <2> QED BY <1>1, <1>3, <2>1, AuthCounted
<1>4. CASE \E at : h' = Awaits(x, at)
  <2>1. PICK at : h' = Awaits(x, at)
    BY <1>4
  <2>2. /\ Handshake(h') /\ h'.init = x.init /\ h'.scheme = x.scheme /\ h'.ard = x.ard
        /\ h'.rq = x.rq /\ h'.resume = x.resume /\ h'.creds = x.creds /\ h'.ra2 = at
        /\ (h'.go /\ at \in {"hash", "subtype", "keyrest"} => Len(x.rq) >= 2)
    BY <1>2, <2>1, AwaitsFields
  <2>3. h'.go /\ h'.ra2 \in {"hash", "subtype", "keyrest"} => Len(h'.rq) >= 2
    BY <2>2, Zenon
  <2> QED BY <1>1, <1>2, <1>3, <2>2, <2>3
<1>5. CASE h' = Settled(x)
  <2>1. /\ Handshake(h') /\ h'.init = "SecurityResult" /\ h'.ard = x.ard /\ h'.resume = x.resume
        /\ h'.creds = x.creds /\ h'.ra2 = ""
    BY <1>2, <1>5 DEF Settled, Handshake
  <2> QED BY <1>3, <2>1
<1>6. CASE h' = h
  <2>1. h.go /\ h.ra2 \in {"hash", "subtype", "keyrest"} => Len(h.rq) >= 2
    BY DEF Counted, Stages, Whole
  <2> QED BY <1>1, <1>2, <1>3, <1>6, <2>1
<1> QED BY <1>4, <1>5, <1>6

LEMMA RA2AuthCounted ==
    ASSUME Counted, Sound(c), NegotiateRA2neAuth
    PROVE  Counted'
<1>1. h.init = "Authentication" /\ h.scheme = "ra2" /\ loop' = "idle" /\ ui' = ui /\ Keeps
  BY DEF NegotiateRA2neAuth, Auth, Calls, Return, Quiet, Keeps
<1>2. h' = h \/ \E at : h' = Awaits(h, at)
  BY DEF NegotiateRA2neAuth, CheckInternalEvents
<1> QED BY <1>1, <1>2, AwaitsCounted

LEMMA RA2Counted ==
    ASSUME Counted, Sound(c), RA2
    PROVE  Counted'
<1>1. h.ra2 # "" /\ h.go /\ loop = "idle" /\ h.init = "Authentication" /\ h.scheme = "ra2" /\ Handshake(h)
  <2>1. \E at : at # "" /\ RA2Goes(at)
    BY DEF RA2, RA2Key, RA2Verify, RA2Approved, RA2SendKey, RA2Random, RA2SendHash, RA2Hash, RA2Subtype,
           RA2AskCredentials, RA2SendCredentials
  <2> QED BY <2>1 DEF RA2Goes, Counted, Stages
<1>2. CASE RA2Throws
  <2>1. Keeps /\ loop' = "idle" /\ ui' = ui /\ h' = Settled(h)
    BY <1>1, <1>2 DEF RA2Throws, Keeps
  <2> QED BY <1>1, <2>1, AwaitsCounted
<1>3. CASE RA2Key \/ RA2Random \/ RA2Hash
  <2>1. CASE ~RA2Throws
    <3>1. Keeps /\ loop' = "idle" /\ ui' = ui
      BY <1>1, <1>3, <2>1 DEF RA2Key, RA2Random, RA2Hash, Quiet, Keeps
    <3>2. \/ \E at : h' = Awaits(h, at)
          \/ Whole /\ \E at : h' = Awaits([h EXCEPT !.rq = Rest], at)
      BY <1>1, <1>3, <2>1 DEF RA2Key, RA2Random, RA2Hash, RA2Goes, Counted, Stages
    <3> QED BY <1>1, <3>1, <3>2, AwaitsCounted
  <2> QED BY <1>2, <2>1
<1>4. CASE RA2Verify
  <2>1. Keeps /\ loop' = "idle" /\ ("credentials" \in ui' <=> "credentials" \in ui)
        /\ Whole /\ h' = Awaits([h EXCEPT !.rq = Rest], "approve")
    BY <1>1, <1>4 DEF RA2Verify, RA2Goes, Keeps, Counted, Stages
  <2> QED BY <1>1, <2>1, AwaitsCounted
<1>5. CASE RA2Approved \/ RA2SendKey \/ RA2SendHash
  <2>1. Keeps /\ loop' = "idle" /\ ui' = ui /\ \E at : h' = Awaits(h, at)
    BY <1>1, <1>5 DEF RA2Approved, RA2SendKey, RA2SendHash, Quiet, Keeps
  <2> QED BY <1>1, <2>1, AwaitsCounted
<1>6. CASE RA2Subtype
  <2>1. Keeps /\ loop' = "idle" /\ ui' = ui /\ Whole /\ h' = Awaits([h EXCEPT !.rq = Rest], "decrypt")
    BY <1>1, <1>6 DEF RA2Subtype, RA2Goes, Quiet, Keeps, Counted, Stages
  <2> QED BY <1>1, <2>1, AwaitsCounted
<1>7. CASE RA2AskCredentials /\ h.creds
  <2>1. Keeps /\ loop' = "idle" /\ ui' = ui /\ h' = Awaits(h, "creds")
    BY <1>1, <1>7 DEF RA2AskCredentials, Keeps
  <2> QED BY <1>1, <2>1, AwaitsCounted
<1>8. CASE RA2AskCredentials /\ ~h.creds
  <2>1. c' = c /\ loop' = "idle" /\ h' = Awaits(h, "creds")
    BY <1>1, <1>8 DEF RA2AskCredentials
  <2>2. Calling
    BY <1>1 DEF Counted, Stages
  <2>3. h.ard = "" /\ h.resume = 0 /\ h.creds = FALSE
    BY <1>1, <1>8, <2>2 DEF Calling, Handshake
  <2>4. /\ Handshake(h') /\ h'.init = "Authentication" /\ h'.scheme = "ra2" /\ h'.ard = "" /\ h'.resume = 0
        /\ h'.creds = FALSE /\ h'.ra2 = "creds"
    <3>1. LET y == Awaits(h, "creds") IN
          /\ Handshake(y) /\ y.init = h.init /\ y.scheme = h.scheme /\ y.ard = h.ard
          /\ y.resume = h.resume /\ y.creds = h.creds /\ y.ra2 = "creds"
      <4>1. Handshake(h)
        BY <1>1
      <4> QED BY ONLY <4>1, AwaitsFields
    <3> HIDE DEF Handshake
    <3> QED BY ONLY <1>1, <2>1, <2>3, <3>1
  <2>5. Owed' = 0 + 0 + One("credentials" \in ui') + 0
    BY <2>1, <2>4 DEF Owed, One
  <2>6. One("credentials" \in ui') \in {0, 1}
    BY DEF One
  <2>7. Owed' <= 1 /\ Owed' <= 2
    <3> HIDE DEF Owed
    <3> QED BY <2>5, <2>6
  <2>8. Calling'
    BY <2>1, <2>4, <2>7, Zenon DEF Calling
  <2>9. Milder(c, c')
    BY <2>1 DEF Milder
  <2> QED BY <1>1, <2>1, <2>4, <2>8, <2>9, AuthCounted
<1>9. CASE RA2SendCredentials
  <2>1. Keeps /\ loop' = "idle" /\ ui' = ui /\ h' = Settled(h)
    BY <1>1, <1>9 DEF RA2SendCredentials, Keeps
  <2> QED BY <1>1, <2>1, AwaitsCounted
<1> QED BY <1>3, <1>4, <1>5, <1>6, <1>7, <1>8, <1>9 DEF RA2

\* Events of the channel, and calls of the page.
LEMMA OpenCounted ==
    ASSUME Counted, Sound(c), SocketOpen
    PROVE  Counted'
<1>1. Handshake(h) /\ h.init = "" /\ h.ra2 = "" /\ Calling /\ loop = "idle" /\ c.conn # "connected"
      /\ h.ard = "" /\ ~h.tight
  BY DEF SocketOpen, Counted, Stages, Idle
<1>2. c'.conn = c.conn /\ c'.ready = "open" /\ loop' = "idle" /\ ui' = ui /\ h' = [h EXCEPT !.init = "ProtocolVersion"]
  BY <1>1 DEF SocketOpen, Sound, Connection, Idle
<1>3. /\ Handshake(h') /\ h'.init = "ProtocolVersion" /\ h'.ra2 = "" /\ h'.ard = h.ard /\ h'.creds = h.creds
      /\ h'.resume = h.resume /\ h'.tight = h.tight
  BY <1>1, <1>2 DEF Handshake
<1>4. Calling'
  BY <1>1, <1>2, <1>3, CallingKept
<1>5. Stages'
  BY <1>1, <1>2, <1>3, <1>4 DEF Stages
<1>6. NobodyReads'
  BY <1>3 DEF NobodyReads
<1> QED BY <1>2, <1>3, <1>5, <1>6 DEF Counted, Loops

\* The connection alone changes.
LEMMA ConnectionCounted ==
    ASSUME Counted, Milder(c, c'), UNCHANGED <<h, ui>>, loop = "idle", loop' = "idle"
    PROVE  Counted'
<1>1. Owed' = Owed /\ (Calling => Calling') /\ (NobodyReads => NobodyReads')
  BY DEF Owed, Calling, NobodyReads, InitSize
<1>2. Stages'
  BY <1>1 DEF Counted, Stages, Milder, Whole
<1> QED BY <1>1, <1>2 DEF Counted, Loops

LEMMA CloseCounted ==
    ASSUME Counted, Sound(c), SocketClose \/ DisconnectTimeout
    PROVE  Counted' /\ Milder(c, c')
<1>1. loop = "idle" /\ loop' = "idle" /\ UNCHANGED <<h, ui>>
  BY DEF SocketClose, DisconnectTimeout, Idle
<1>2. CASE SocketClose
  <2> DEFINE x == [c EXCEPT !.ready = "closed"]
  <2>1. Sound(x) /\ x.conn = c.conn /\ x.grabbed = c.grabbed /\ x.ready = "closed"
    BY DEF Sound, Connection, Readys, ToldAs, Over
  <2>2. c' = ClosedBy(x)
    BY <1>2 DEF SocketClose
  <2> HIDE DEF x
  <2>3. Milder(x, c')
    BY <2>1, <2>2, ClosedByMilder
  <2>4. Milder(c, c')
    BY <2>1, <2>3 DEF Milder, LetsGo, Over
  <2> QED BY <1>1, <2>4, ConnectionCounted
<1>3. CASE DisconnectTimeout
  <2>1. Milder(c, c')
    BY <1>3, UpdateMilder DEF DisconnectTimeout
  <2> QED BY <1>1, <2>1, ConnectionCounted
<1> QED BY <1>2, <1>3

LEMMA CallCounted ==
    ASSUME Counted, Sound(c), DisconnectCall
    PROVE  Counted' /\ Milder(c, c') /\ Over(c')
<1>1. Milder(c, c') /\ Over(c') /\ loop = "idle" /\ loop' = "idle" /\ ui' = ui /\ Handshake(h)
  BY UpdateMilder DEF DisconnectCall, Idle, Counted
<1>2. CASE h' = h
  BY <1>1, <1>2, ConnectionCounted
<1>3. CASE h.ra2 # "" /\ h' = Settled(h)
  <2>1. h.init = "Authentication" /\ Calling
    BY <1>3 DEF Counted, Stages
  <2>2. /\ Handshake(h') /\ h'.init = "SecurityResult" /\ h'.ard = h.ard /\ h'.resume = h.resume
        /\ h'.creds = h.creds /\ h'.ra2 = ""
    BY <1>1, <1>3 DEF Settled, Handshake
  <2>3. Calling'
    BY <1>1, <2>1, <2>2, CallingKept
  <2> QED BY <1>1, <2>1, <2>2, <2>3, AuthCounted
<1> QED BY <1>1, <1>2, <1>3 DEF DisconnectCall

LEMMA TurnCounted ==
    ASSUME Counted, c' = c, loop \in {"idle", "once"}, loop' \in {"idle", "once"}, Handshake(h'),
           h'.init = h.init, h'.tight = h.tight, h'.rq = h.rq, h'.scheme = h.scheme,
           h'.ra2 = h.ra2 \/ h'.ra2 \notin {"", "hash", "subtype", "keyrest"}, h'.go = h.go \/ h'.ra2 # h.ra2,
           h.ra2 = "" => h'.ra2 = "",
           Owed \in Nat, Owed' = Owed, Calling => Calling',
           h.init \in {"", "ProtocolVersion", "Security"} => h'.ard = h.ard
    PROVE  Counted'
<1>1. Owed' \in Nat /\ Owed' <= Owed
  BY ONLY Owed \in Nat, Owed' = Owed
<1>2. Milder(c, c')
  BY DEF Milder
<1>3. Len(h'.rq) = Len(h.rq)
  OBVIOUS
<1>4. /\ h.init # "ServerInitialisation" => Calling'
      /\ h'.ra2 # "" => h.init = "Authentication" /\ h'.scheme = "ra2"
      /\ h'.go /\ h'.ra2 \in {"hash", "subtype", "keyrest"} => Len(h'.rq) >= 2
  BY <1>3 DEF Counted, Stages, Whole
<1> QED BY <1>1, <1>2, <1>4, PauseCounted

LEMMA ResumeCounted ==
    ASSUME Counted, ResumeAuthentication
    PROVE  Counted'
<1>1. Handshake(h) /\ loop = "idle" /\ loop' = "once" /\ c' = c /\ ui' = ui /\ h' = [h EXCEPT !.resume = @ - 1]
  BY DEF Counted, ResumeAuthentication, Idle, Quiet
<1>2. PICK n \in Nat : h.resume = n /\ n > 0
  BY <1>1 DEF ResumeAuthentication, Handshake
<1>3. n - 1 \in Nat
  BY <1>2
<1>4. /\ Handshake(h') /\ h'.resume = n - 1
      /\ h'.init = h.init /\ h'.tight = h.tight /\ h'.rq = h.rq /\ h'.scheme = h.scheme
      /\ h'.ra2 = h.ra2 /\ h'.go = h.go /\ h'.ard = h.ard /\ h'.creds = h.creds
  BY <1>1, <1>2, <1>3 DEF Handshake
<1> DEFINE p == One("credentials" \in ui)
           w == One(h.ard = "working")
<1>5. p \in {0, 1} /\ w \in {0, 1}
  BY DEF One
<1>6. Owed = n + 0 + p + w /\ Owed' = (n - 1) + 1 + p + w
  BY <1>1, <1>2, <1>4 DEF Owed, One
<1> HIDE DEF p, w
<1>7. Owed \in Nat /\ Owed' = Owed
  BY <1>2, <1>5, <1>6
<1>8. ASSUME Calling PROVE Calling'
  <2>1. h.creds
    <3>1. h.resume # 0
      BY <1>2
    <3> QED BY <1>8, <3>1, Zenon DEF Calling
  <2>2. (Owed <= 2) /\ (h.ard = "" => Owed <= 1) /\ "credentials" \notin ui /\ (h.ard = "sent" => h.init # "Authentication")
    BY <1>8, <2>1, Zenon DEF Calling
  <2> QED BY <1>1, <1>4, <1>7, <2>1, <2>2, Zenon DEF Calling
<1> QED BY <1>1, <1>4, <1>7, <1>8, TurnCounted

LEMMA GivenCounted ==
    ASSUME Counted, SendCredentials
    PROVE  Counted'
<1>1. /\ Handshake(h) /\ loop = "idle" /\ loop' = "idle" /\ c' = c /\ "credentials" \in ui /\ "credentials" \notin ui'
      /\ h' = [h EXCEPT !.creds = TRUE, !.resume = @ + 1]
  BY DEF Counted, SendCredentials, Idle
<1>2. PICK n \in Nat : h.resume = n
  BY <1>1 DEF Handshake
<1>3. n + 1 \in Nat
  BY <1>2
<1>4. /\ Handshake(h') /\ h'.resume = n + 1
      /\ h'.init = h.init /\ h'.tight = h.tight /\ h'.rq = h.rq /\ h'.scheme = h.scheme
      /\ h'.ra2 = h.ra2 /\ h'.go = h.go /\ h'.ard = h.ard /\ h'.creds = TRUE
  BY <1>1, <1>2, <1>3 DEF Handshake
<1> DEFINE w == One(h.ard = "working")
<1>5. w \in {0, 1}
  BY DEF One
<1>6. Owed = n + 0 + 1 + w /\ Owed' = (n + 1) + 0 + 0 + w
  BY <1>1, <1>2, <1>4 DEF Owed, One
<1> HIDE DEF w
<1>7. Owed \in Nat /\ Owed' = Owed
  BY <1>2, <1>5, <1>6
<1>8. ASSUME Calling PROVE Calling'
  <2>2. (Owed <= 2) /\ (h.ard = "" => Owed <= 1) /\ (h.ard = "sent" => h.init # "Authentication")
    BY <1>8, Zenon DEF Calling
  <2> QED BY <1>1, <1>4, <1>7, <2>2, Zenon DEF Calling
<1> QED BY <1>1, <1>4, <1>7, <1>8, TurnCounted

LEMMA DigestCounted ==
    ASSUME Counted, ARDAuthAsync
    PROVE  Counted'
<1>1. /\ Handshake(h) /\ loop = "idle" /\ loop' = "idle" /\ c' = c /\ ui' = ui /\ h.ard = "working"
      /\ h' = [h EXCEPT !.ard = "ready", !.resume = @ + 1]
  BY DEF Counted, ARDAuthAsync, Idle, Quiet
<1>2. PICK n \in Nat : h.resume = n
  BY <1>1 DEF Handshake
<1>3. n + 1 \in Nat
  BY <1>2
<1>4. /\ Handshake(h') /\ h'.resume = n + 1
      /\ h'.init = h.init /\ h'.tight = h.tight /\ h'.rq = h.rq /\ h'.scheme = h.scheme
      /\ h'.ra2 = h.ra2 /\ h'.go = h.go /\ h'.ard = "ready" /\ h'.creds = h.creds
  BY <1>1, <1>2, <1>3 DEF Handshake
<1> DEFINE p == One("credentials" \in ui)
<1>5. p \in {0, 1}
  BY DEF One
<1>6. Owed = n + 0 + p + 1 /\ Owed' = (n + 1) + 0 + p + 0
  BY <1>1, <1>2, <1>4 DEF Owed, One
<1> HIDE DEF p
<1>7. Owed \in Nat /\ Owed' = Owed
  BY <1>2, <1>5, <1>6
<1>8. ASSUME Calling PROVE Calling'
  <2>2. (Owed <= 2) /\ h.creds /\ "credentials" \notin ui
    BY <1>1, <1>8, Zenon DEF Calling
  <2> QED BY <1>1, <1>4, <1>7, <2>2, Zenon DEF Calling
<1>9. h.init \notin {"", "ProtocolVersion", "Security"}
  BY <1>1 DEF Counted, Stages
<1> QED BY <1>1, <1>4, <1>7, <1>8, <1>9, TurnCounted

LEMMA ApprovedCounted ==
    ASSUME Counted, ApproveServer
    PROVE  Counted'
<1>1. /\ Handshake(h) /\ loop = "idle" /\ loop' = "idle" /\ c' = c /\ ("credentials" \in ui' <=> "credentials" \in ui)
      /\ h' = h \/ (h.ra2 = "approve" /\ h' = Awaits(h, "approved"))
  BY DEF Counted, ApproveServer, Idle
<1>2. LET y == Awaits(h, "approved") IN
      /\ Handshake(y) /\ y.resume = h.resume
      /\ y.init = h.init /\ y.tight = h.tight /\ y.rq = h.rq /\ y.scheme = h.scheme
      /\ y.ra2 = "approved" /\ y.ard = h.ard /\ y.creds = h.creds
  BY <1>1, AwaitsFields
<1>3. /\ Handshake(h') /\ h'.resume = h.resume
      /\ h'.init = h.init /\ h'.tight = h.tight /\ h'.rq = h.rq /\ h'.scheme = h.scheme
      /\ h'.ard = h.ard /\ h'.creds = h.creds
      /\ (h'.ra2 = h.ra2 /\ h'.go = h.go) \/ (h.ra2 = "approve" /\ h'.ra2 = "approved")
  BY <1>1, <1>2
<1>4. One("credentials" \in ui') = One("credentials" \in ui)
  BY <1>1 DEF One
<1>5. Owed' = Owed
  BY <1>1, <1>3, <1>4 DEF Owed
<1>6. Owed \in Nat
  <2>1. One(loop = "once") \in Nat /\ One("credentials" \in ui) \in Nat /\ One(h.ard = "working") \in Nat /\ h.resume \in Nat
    BY <1>1 DEF One, Handshake
  <2> QED BY <2>1 DEF Owed
<1>7. Calling => Calling'
  BY <1>1, <1>3, <1>5, Zenon DEF Calling
<1>8. /\ h'.ra2 = h.ra2 \/ h'.ra2 \notin {"", "hash", "subtype", "keyrest"}
      /\ h'.go = h.go \/ h'.ra2 # h.ra2
      /\ h.ra2 = "" => h'.ra2 = ""
  BY <1>3
<1> QED BY <1>1, <1>3, <1>5, <1>6, <1>7, <1>8, TurnCounted

\* Receive, the loop of a connected session, and the server.
LEMMA NormalCounted ==
    ASSUME Counted, Sound(c), Queues, Receive \/ NormalMsg \/ ServerSpeaks
    PROVE  Counted' /\ Milder(c, c')
<1>1. Handshake(h) /\ h.rq \in Seq(All) /\ wire \in Seq(All)
  BY DEF Counted, Queues
<1>2. CASE Receive
  <2>1. PICK n \in 1..Len(wire) : h' = [h EXCEPT !.rq = @ \o SubSeq(wire, 1, n)]
    BY <1>2 DEF Receive
  <2> DEFINE a == SubSeq(wire, 1, n)
  <2>2. Len(wire) \in Nat
    BY <1>1, LenProperties
  <2>3. a \in Seq(All)
    BY <1>1, <2>2, SubSeqProperties
  <2> HIDE DEF a
  <2>4. h.rq \o a \in Seq(All) /\ Len(h.rq \o a) = Len(h.rq) + Len(a) /\ Len(a) \in Nat /\ Len(h.rq) \in Nat
    BY <1>1, <2>3, ConcatProperties, LenProperties
  <2>5. Len(h.rq) >= 2 => Len(h.rq \o a) >= 2
    BY <2>4
  <2>6. h' = [h EXCEPT !.rq = h.rq \o a]
    BY <2>1 DEF a
  <2>7. /\ Handshake(h') /\ h'.resume = h.resume /\ h'.rq = h.rq \o a
        /\ h'.init = h.init /\ h'.tight = h.tight /\ h'.scheme = h.scheme
        /\ h'.ra2 = h.ra2 /\ h'.go = h.go /\ h'.ard = h.ard /\ h'.creds = h.creds
    BY <1>1, <2>4, <2>6 DEF Handshake
  <2>8. /\ c' = c /\ ui' = ui /\ c.ready = "open" /\ c.recv
        /\ loop' = CASE c.conn = "connecting" -> "init"
                     [] c.conn = "connected"  -> "normal"
                     [] OTHER                 -> "idle"
    BY <1>2 DEF Receive
  <2>9. c.conn \in {"connecting", "connected"}
    BY <2>8 DEF Sound, Over, Connection, Conns
  <2>10. (loop' = "init" /\ c.conn = "connecting") \/ (loop' = "normal" /\ c.conn = "connected")
    BY <2>8, <2>9
  <2>11. Calling => Calling'
    BY <1>1, <2>7, <2>8, <2>10, CallingKept
  <2>12. h'.go /\ h'.ra2 \in {"hash", "subtype", "keyrest"} => Len(h'.rq) >= 2
    BY <2>5, <2>7 DEF Counted, Stages, Whole
  <2>13. Stages'
    BY <2>7, <2>8, <2>10, <2>11, <2>12, Zenon DEF Counted, Stages, Whole
  <2>14. NobodyReads'
    BY <2>10 DEF NobodyReads
  <2>15. Milder(c, c')
    BY <2>8 DEF Milder
  <2> QED BY <2>7, <2>10, <2>13, <2>14, <2>15 DEF Counted, Loops
<1>3. CASE NormalMsg
  <2>2. h.init = "ServerInitialisation" /\ h.ra2 = "" /\ c.ready # "connecting" /\ loop' \in {"idle", "normal"}
    BY <1>3 DEF NormalMsg, Counted, Stages
  <2>3. Milder(c, c')
    BY <1>3, KeepsMilder DEF NormalMsg, Keeps
  <2>4. Handshake(h') /\ h'.init = h.init /\ h'.ra2 = "" /\ h'.tight = h.tight
    <3>1. h' = h \/ (Whole /\ h' = [h EXCEPT !.rq = Rest])
      BY <1>3 DEF NormalMsg
    <3> QED BY <1>1, <2>2, <3>1, RestType DEF Handshake
  <2>5. loop' = "idle" => Len(h'.rq) < 2
    <3>1. CASE ~Whole
      <4>1. h' = h
        BY <1>3, <3>1 DEF NormalMsg
      <4> QED BY <1>1, <3>1, <4>1, LenProperties DEF Whole
    <3>2. CASE Whole
      <4>1. h'.rq = Rest /\ (loop' = "idle" => Rest = <<>>)
        BY <1>1, <1>3, <3>2 DEF NormalMsg, Handshake
      <4> QED BY <4>1
    <3> QED BY <3>1, <3>2
  <2>6. Len(h'.rq) \in Nat /\ InitSize' \in {2, 4}
    BY <2>4, LenProperties DEF InitSize, Handshake
  <2>7. loop' = "idle" => Len(h'.rq) < InitSize'
    BY <2>5, <2>6
  <2>8. NobodyReads'
    BY <2>2, <2>4, <2>7, Zenon DEF NobodyReads
  <2>9. Stages'
    BY <2>2, <2>3, <2>4 DEF Stages, Milder
  <2> QED BY <2>2, <2>3, <2>4, <2>8, <2>9 DEF Counted, Loops
<1>4. CASE ServerSpeaks
  <2>1. UNCHANGED <<c, h, ui>> /\ loop = "idle" /\ loop' = "idle"
    BY <1>4 DEF ServerSpeaks, Speaks, Idle
  <2>2. Milder(c, c')
    BY <2>1 DEF Milder
  <2> QED BY <2>1, <2>2, ConnectionCounted
<1> QED BY <1>2, <1>3, <1>4

-----------------------------------------------------------------------------
(* What the server has said and the client has not read: while the session   *)
(* is being set up, one answer at most.                                      *)

Talk == h.rq \o wire

\* The client has to speak first.
Hushed(x) ==
    \/ x.init \in {"", "ClientInitialisation"}
    \/ /\ x.init = "Authentication"
       /\ \/ x.scheme = "none" /\ x.ver # "3.8"
          \/ x.scheme \in {"plain", "unix", "xvp", "unsupported"}
          \/ x.scheme = "ard" /\ x.ard # ""
          \/ x.ra2 \in {"approve", "approved", "generate", "ciphers", "decrypt", "creds"}

\* m is the first of two messages in an answer.
Follows(x, m) ==
    \/ x.init = "Security" /\ m = "0"
    \/ x.init = "SecurityResult" /\ m = "refused"
    \/ x.init = "Authentication" /\ x.scheme = "none" /\ m = "refused"
    \/ x.init = "Authentication" /\ x.scheme = "tight" /\ ~x.tight /\ m = "notunnels"
    \/ x.init = "Authentication" /\ x.scheme = "vencrypt" /\ x.ven = 1 /\ m = "ack"
    \/ x.init = "Authentication" /\ x.scheme = "ra2" /\ x.ra2 = "hash" /\ m \in {"hash", "badhash"}

Heard(x, s) ==
    /\ Len(s) \in Nat
    /\ Hushed(x) => Len(s) = 0
    /\ x.init = "ServerInitialisation" => Len(s) <= IF x.tight THEN 4 ELSE 2
    /\ x.init \notin {"SecurityReason", "ServerInitialisation"} => Len(s) <= 2 \/ (Len(s) <= 4 /\ Follows(x, s[1]))

HeardNow == c.conn = "connecting" => Heard(h, Talk)

LEMMA TalkType ==
    ASSUME Queues
    PROVE  /\ Talk \in Seq(All) /\ Len(Talk) = Len(h.rq) + Len(wire)
           /\ Len(Talk) \in Nat /\ Len(h.rq) \in Nat /\ Len(wire) \in Nat
           /\ Whole => HeadMsg = Talk[1]
<1>1. h.rq \in Seq(All) /\ wire \in Seq(All)
  BY DEF Queues
<1>2. Len(h.rq) \in Nat /\ Len(wire) \in Nat
  BY <1>1, LenProperties
<1>3. Talk \in Seq(All) /\ Len(Talk) = Len(h.rq) + Len(wire)
  BY <1>1, ConcatProperties DEF Talk
<1>4. ASSUME Whole PROVE HeadMsg = Talk[1]
  <2>1. 1 <= Len(h.rq) /\ 1 \in Nat
    BY <1>2, <1>4 DEF Whole
  <2> QED BY <1>1, <1>2, <2>1, ConcatProperties DEF Talk, HeadMsg
<1> QED BY <1>2, <1>3, <1>4

\* The whole answer is read.
LEMMA AllRead ==
    ASSUME Queues, Whole, Len(Talk) <= 2
    PROVE  Rest = <<>> /\ wire = <<>>
<1>1. h.rq \in Seq(All) /\ wire \in Seq(All)
  BY DEF Queues
<1>2. Len(h.rq) = 2 /\ Len(wire) = 0
  <2>1. PICK a \in Nat, b \in Nat : Len(h.rq) = a /\ Len(wire) = b /\ Len(Talk) = a + b
    BY TalkType
  <2>2. a >= 2 /\ a + b <= 2
    BY <2>1 DEF Whole
  <2>3. a = 2 /\ b = 0
    BY ONLY a \in Nat, b \in Nat, <2>2
  <2> QED BY <2>1, <2>3
<1>3. wire = <<>>
  BY <1>1, <1>2, EmptySeq
<1>4. Rest = <<>>
  BY <1>1, <1>2, SubSeqEmpty DEF Rest
<1> QED BY <1>3, <1>4

\* The first of two messages is read.
LEMMA HalfRead ==
    ASSUME Queues, Whole, NEW n \in Nat, Len(Talk) <= n + 2
    PROVE  Rest \o wire \in Seq(All) /\ Len(Rest \o wire) \in Nat /\ Len(Rest \o wire) <= n
<1>1. h.rq \in Seq(All) /\ wire \in Seq(All)
  BY DEF Queues
<1>2. Len(h.rq) \in Nat /\ Len(h.rq) >= 2
  BY TalkType DEF Whole
<1>3. Rest \in Seq(All) /\ Len(Rest) = Len(h.rq) - 2
  BY <1>1, <1>2, SubSeqProperties DEF Rest
<1>4. Rest \o wire \in Seq(All) /\ Len(Rest \o wire) = Len(Rest) + Len(wire)
  BY <1>1, <1>3, ConcatProperties
<1> QED BY <1>2, <1>3, <1>4, TalkType

LEMMA NothingSaid ==
    ASSUME Queues, Len(Talk) = 0
    PROVE  h.rq = <<>> /\ wire = <<>> /\ ~Whole
<1>1. h.rq \in Seq(All) /\ wire \in Seq(All)
  BY DEF Queues
<1>2. Len(h.rq) = 0 /\ Len(wire) = 0
  BY TalkType
<1> QED BY <1>1, <1>2, EmptySeq DEF Whole

\* What the client reads next is an answer of one message, or the first of two.
LEMMA ShortTalk ==
    ASSUME Queues, Heard(h, Talk), Whole, h.init \notin {"SecurityReason", "ServerInitialisation"}
    PROVE  /\ Len(Talk) <= 4 /\ ~Hushed(h)
           /\ ~Follows(h, HeadMsg) => Len(Talk) <= 2
<1>1. Len(Talk) \in Nat /\ HeadMsg = Talk[1]
  BY TalkType
<1>2. Len(Talk) <= 2 \/ (Len(Talk) <= 4 /\ Follows(h, HeadMsg))
  BY <1>1 DEF Heard
<1>3. ~Hushed(h)
  BY NothingSaid DEF Heard
<1> QED BY <1>1, <1>2, <1>3

LEMMA HeardNothing ==
    ASSUME NEW x
    PROVE  Heard(x, <<>>)
<1>1. Len(<<>>) = 0
  OBVIOUS
<1> QED BY <1>1 DEF Heard

\* An answer comes, or the channel is not open.
LEMMA AnswerHeard ==
    ASSUME Queues, NEW S, S \subseteq Seq(All), wire = <<>>, h'.rq = <<>>, Sends(S), \A a \in S : Heard(h', a)
    PROVE  Heard(h', Talk')
<1>1. PICK a \in S : wire' = IF c.ready = "open" THEN wire \o a ELSE wire
  BY DEF Sends
<1>2. CASE c.ready = "open"
  <2>1. wire' = a
    BY <1>1, <1>2, ConcatEmptySeq
  <2>2. Talk' = a
    BY <2>1, ConcatEmptySeq DEF Talk
  <2> QED BY <2>2
<1>3. CASE c.ready # "open"
  <2>1. Talk' = <<>>
    BY <1>1, <1>3, ConcatEmptySeq DEF Talk
  <2> QED BY <2>1, HeardNothing
<1> QED BY <1>2, <1>3

\* Nothing new is said.
LEMMA SilentHeard ==
    ASSUME Queues, wire' = wire, h'.rq = <<>>, wire = <<>>
    PROVE  Heard(h', Talk')
<1>1. Talk' = <<>>
  BY ConcatEmptySeq DEF Talk
<1> QED BY <1>1, HeardNothing

LEMMA UnitLen ==
    /\ \A m : Len(Unit(m)) = 2
    /\ \A m, n : Len(Unit(m) \o Unit(n)) = 4 /\ (Unit(m) \o Unit(n))[1] = m
<1>1. ASSUME NEW m PROVE Unit(m) \in Seq({m, "rest"}) /\ Len(Unit(m)) = 2 /\ Unit(m)[1] = m
  BY DEF Unit
<1>2. ASSUME NEW m, NEW n PROVE Len(Unit(m) \o Unit(n)) = 4 /\ (Unit(m) \o Unit(n))[1] = m
  <2> DEFINE S == {m, n, "rest"}
  <2>1. Unit(m) \in Seq(S) /\ Unit(n) \in Seq(S)
    BY DEF Unit
  <2>2. Len(Unit(m)) = 2 /\ Len(Unit(n)) = 2 /\ Unit(m)[1] = m
    BY <1>1
  <2> DEFINE u == Unit(m)
             v == Unit(n)
  <2>3. u \in Seq(S) /\ v \in Seq(S) /\ Len(u) = 2 /\ Len(v) = 2 /\ u[1] = m
    BY <2>1, <2>2
  <2> HIDE DEF S, u, v
  <2>4. Len(u \o v) = 4 /\ (u \o v)[1] = m
    <3>1. /\ Len(u \o v) = Len(u) + Len(v)
          /\ \A i \in 1..Len(u) + Len(v) : (u \o v)[i] = IF i <= Len(u) THEN u[i] ELSE v[i - Len(u)]
      BY <2>3, ConcatProperties
    <3>2. /\ Len(u \o v) = 4
          /\ \A i \in 1..4 : (u \o v)[i] = IF i <= 2 THEN u[i] ELSE v[i - 2]
      BY <2>3, <3>1
    <3> QED BY <2>3, <3>2
  <2> QED BY <2>4 DEF u, v
<1> QED BY <1>1, <1>2

\* One message where one is expected, or two of which the first says so.
LEMMA OneHeard ==
    ASSUME NEW x, ~Hushed(x), x.init # "ServerInitialisation", NEW m
    PROVE  Heard(x, Unit(m))
BY UnitLen DEF Heard

LEMMA TwoHeard ==
    ASSUME NEW x, ~Hushed(x), x.init # "ServerInitialisation", NEW m, NEW n, Follows(x, m)
    PROVE  Heard(x, Unit(m) \o Unit(n))
<1>1. Len(Unit(m) \o Unit(n)) = 4 /\ (Unit(m) \o Unit(n))[1] = m
  BY UnitLen
<1> QED BY <1>1 DEF Heard

LEMMA ResultsHeard ==
    ASSUME NEW x, ~Hushed(x), x.init # "ServerInitialisation", Follows(x, "refused")
    PROVE  \A a \in Results : Heard(x, a)
<1>1. \A a \in Results : a = Unit("ok") \/ a = Unit("refused") \/ a = Unit("refused") \o Unit("reason")
  BY DEF Results
<1>2. Heard(x, Unit("ok")) /\ Heard(x, Unit("refused")) /\ Heard(x, Unit("refused") \o Unit("reason"))
  BY OneHeard, TwoHeard
<1> QED BY <1>1, <1>2

LEMMA OpeningsHeard ==
    ASSUME NEW x, NEW scheme, x.init = "Authentication", x.scheme = scheme, x.ver = h.ver, x.ra2 = "",
           scheme = "ard" => x.ard = "", scheme = "tight" => ~x.tight
    PROVE  \A a \in Openings(scheme) : Heard(x, a)
<1>1. CASE scheme = "none" /\ h.ver = "3.8"
  <2>1. Openings(scheme) = Results
    BY <1>1 DEF Openings
  <2>2. ~Hushed(x) /\ Follows(x, "refused")
    BY <1>1 DEF Hushed, Follows
  <2> QED BY <2>1, <2>2, ResultsHeard
<1>2. CASE scheme = "none" /\ h.ver # "3.8"
  <2>1. Openings(scheme) = {<<>>}
    BY <1>2 DEF Openings
  <2> QED BY <2>1, HeardNothing
<1>3. CASE scheme \in {"vnc", "ard", "mslogon", "ra2", "vencrypt"}
  <2>1. \A a \in Openings(scheme) : \E m : a = Unit(m)
    BY <1>3 DEF Openings
  <2>2. ~Hushed(x)
    BY <1>3 DEF Hushed
  <2> QED BY <2>1, <2>2, OneHeard
<1>4. CASE scheme = "tight"
  <2>1. \A a \in Openings(scheme) : \E m : a = Unit(m) \/ a = Unit("notunnels") \o Unit(m)
    BY <1>4 DEF Openings
  <2>2. ~Hushed(x) /\ Follows(x, "notunnels")
    BY <1>4 DEF Hushed, Follows
  <2>3. (\A m : Heard(x, Unit(m))) /\ (\A m : Heard(x, Unit("notunnels") \o Unit(m)))
    BY <2>2, OneHeard, TwoHeard
  <2> QED BY <2>1, <2>3
<1>5. CASE scheme \notin {"none", "vnc", "ard", "mslogon", "ra2", "vencrypt", "tight"}
  <2>1. Openings(scheme) = {<<>>}
    BY <1>5 DEF Openings
  <2> QED BY <2>1, HeardNothing
<1> QED BY <1>1, <1>2, <1>3, <1>4, <1>5

LEMMA AllSent ==
    /\ Results \subseteq Seq(All) /\ VeNCryptAnswers \subseteq Seq(All)
    /\ \A scheme : Openings(scheme) \subseteq Seq(All)
    /\ \A ver : Securities(ver) \subseteq Seq(All)
    /\ \A m \in Texts : Unit(m) \in Seq(All)
    /\ \A m, n \in Texts : Unit(m) \o Unit(n) \in Seq(All)
<1>1. Seq(Texts) \subseteq Seq(All)
  BY DEF All
<1> HIDE DEF All
<1> QED BY <1>1, ServerTexts, UnitTexts

\* The steps, as long as the session is being set up.
Setup == Counted /\ Queues /\ Heard(h, Talk)

LEMMA StaysHeard ==
    ASSUME Setup, h'.rq = h.rq, wire' = wire, Hushed(h') => Hushed(h),
           h'.init = "ServerInitialisation" => h'.init = h.init /\ h'.tight = h.tight,
           h'.init \in {"SecurityReason", "ServerInitialisation"} \/ h.init \notin {"SecurityReason", "ServerInitialisation"},
           \A m : Follows(h, m) => Follows(h', m)
    PROVE  Heard(h', Talk')
<1>1. Talk' = Talk
  BY DEF Talk
<1> QED BY <1>1 DEF Setup, Heard

LEMMA SameHeard ==
    ASSUME Setup, h'.rq = h.rq, wire' = wire, h'.init = h.init, h'.scheme = h.scheme, h'.ver = h.ver,
           h'.tight = h.tight, h'.ven = h.ven, h'.ra2 = h.ra2, h'.ard = "" <=> h.ard = ""
    PROVE  Heard(h', Talk')
<1>1. Hushed(h') => Hushed(h)
  BY DEF Hushed
<1>2. \A m : Follows(h, m) => Follows(h', m)
  BY DEF Follows
<1> QED BY <1>1, <1>2, StaysHeard

\* The whole of an answer is read, and the next one asked for.
LEMMA ReplyHeard ==
    ASSUME Setup, Whole, h.init \notin {"SecurityReason", "ServerInitialisation"}, ~Follows(h, HeadMsg), h'.rq = Rest,
           UNCHANGED wire \/ \E S \in SUBSET Seq(All) : Sends(S) /\ \A a \in S : Heard(h', a)
    PROVE  Heard(h', Talk')
<1>1. Len(Talk) <= 2
  BY ShortTalk DEF Setup
<1>2. Rest = <<>> /\ wire = <<>>
  BY <1>1, AllRead DEF Setup
<1> QED BY <1>2, AnswerHeard, SilentHeard DEF Setup

\* The client speaks first.
LEMMA SaidHeard ==
    ASSUME Setup, Hushed(h), h'.rq = h.rq, NEW S, S \subseteq Seq(All), Sends(S), \A a \in S : Heard(h', a)
    PROVE  Heard(h', Talk')
<1>1. h.rq = <<>> /\ wire = <<>>
  BY NothingSaid DEF Setup, Heard
<1> QED BY <1>1, AnswerHeard DEF Setup

\* The first of two messages is read, and the other is where one is expected.
LEMMA FirstHeard ==
    ASSUME Setup, Whole, h.init \notin {"SecurityReason", "ServerInitialisation"}, h'.rq = Rest,
           wire' = wire \/ Sends({<<>>}), ~Hushed(h'), h'.init # "ServerInitialisation"
    PROVE  Heard(h', Talk')
<1>1. Len(Talk) <= 2 + 2
  <2>1. Len(Talk) <= 4 /\ Len(Talk) \in Nat
    BY ShortTalk, TalkType DEF Setup
  <2> QED BY <2>1
<1>2. Len(Rest \o wire) \in Nat /\ Len(Rest \o wire) <= 2
  BY <1>1, HalfRead DEF Setup
<1>3. wire' = wire
  BY ConcatEmptySeq DEF Sends, Setup, Queues
<1>4. Talk' = Rest \o wire
  BY <1>3 DEF Talk
<1> QED BY <1>2, <1>4 DEF Heard

LEMMA FailsElse ==
    ASSUME Sound(c), c' = Fail(c)
    PROVE  c'.conn # "connecting"
BY FailMilder DEF Over

LEMMA PausesHeard ==
    ASSUME Setup, Sound(c), c'.conn = "connecting",
           Waits \/ AsksCredentials \/ \E x : FailsWith(x)
    PROVE  Heard(h', Talk')
<1>1. h' = h /\ wire' = wire
  BY FailsElse DEF Waits, AsksCredentials, FailsWith, Quiet
<1> QED BY <1>1, SameHeard

LEMMA OpeningHeard ==
    ASSUME Setup, Sound(c), c'.conn = "connecting",
           NegotiateProtocolVersion \/ NegotiateSecurity \/ HandleSecurityReason \/ HandleSecurityResult
    PROVE  Heard(h', Talk')
<1>0. Handshake(h) /\ Counted
  BY DEF Setup, Counted
<1>1. CASE Waits \/ \E x : FailsWith(x)
  BY <1>1, PausesHeard
<1>2. CASE NegotiateProtocolVersion /\ ~(Waits \/ \E x : FailsWith(x))
  <2>1. Whole /\ h.init = "ProtocolVersion"
    BY <1>2 DEF NegotiateProtocolVersion, Calls
  <2>2. ~Follows(h, HeadMsg)
    BY <2>1 DEF Follows
  <2>3. CASE h' = [h EXCEPT !.rq = Rest] /\ Sends({Unit(v) : v \in Versions \ {"repeater"}})
    <3> DEFINE S == {Unit(v) : v \in Versions \ {"repeater"}}
    <3>1. h'.rq = Rest /\ h'.init = "ProtocolVersion"
      BY <1>0, <2>1, <2>3 DEF Handshake
    <3>2. ~Hushed(h')
      BY <3>1 DEF Hushed
    <3>3. \A m : Heard(h', Unit(m))
      BY <3>1, <3>2, OneHeard
    <3>4. \A a \in S : Heard(h', a)
      BY <3>3
    <3>5. S \in SUBSET Seq(All)
      BY AllSent, VersionsAssumption, ZenonT(40) DEF Texts
    <3> HIDE DEF S
    <3>6. Sends(S)
      BY <2>3 DEF S
    <3> QED BY <2>1, <2>2, <3>1, <3>4, <3>5, <3>6, ReplyHeard
  <2>4. CASE h' = [h EXCEPT !.rq = Rest, !.ver = HeadMsg, !.init = "Security"] /\ Sends(Securities(HeadMsg))
    <3>1. h'.rq = Rest /\ h'.init = "Security"
      BY <1>0, <2>1, <2>4 DEF Handshake
    <3>2. ~Hushed(h') /\ Follows(h', "0")
      BY <3>1 DEF Hushed, Follows
    <3>3. (\A m : Heard(h', Unit(m))) /\ Heard(h', Unit("0") \o Unit("reason"))
      BY <3>1, <3>2, OneHeard, TwoHeard
    <3>4. \A a \in Securities(HeadMsg) : Heard(h', a)
      BY <3>3 DEF Securities
    <3>5. Securities(HeadMsg) \in SUBSET Seq(All)
      BY AllSent
    <3> QED BY <2>1, <2>2, <2>4, <3>1, <3>4, <3>5, ReplyHeard
  <2> QED BY <1>2, <2>3, <2>4 DEF NegotiateProtocolVersion
<1>3. CASE NegotiateSecurity /\ ~(Waits \/ \E x : FailsWith(x))
  <2>1. Whole /\ h.init = "Security" /\ h.ra2 = "" /\ h.ard = "" /\ ~h.tight
    BY <1>0, <1>3 DEF NegotiateSecurity, Calls, Counted, Stages
  <2>2. CASE h' = [h EXCEPT !.rq = Rest, !.init = "SecurityReason"] /\ wire' = wire
    <3>1. h'.rq = Rest /\ h'.init = "SecurityReason"
      BY <1>0, <2>2 DEF Handshake
    <3>2. ~Hushed(h')
      BY <3>1 DEF Hushed
    <3> QED BY <2>1, <2>2, <3>1, <3>2, FirstHeard
  <2>3. CASE /\ h' = [h EXCEPT !.rq = Rest, !.scheme = HeadMsg, !.init = "Authentication"]
             /\ HeadMsg # "0" /\ Sends(Openings(HeadMsg))
    <3>1. /\ h'.rq = Rest /\ h'.init = "Authentication" /\ h'.scheme = HeadMsg /\ h'.ver = h.ver
          /\ h'.ra2 = "" /\ h'.ard = "" /\ ~h'.tight
      BY <1>0, <2>1, <2>3 DEF Handshake
    <3>2. \A a \in Openings(HeadMsg) : Heard(h', a)
      BY <3>1, OpeningsHeard
    <3>3. Openings(HeadMsg) \in SUBSET Seq(All)
      BY AllSent
    <3>4. ~Follows(h, HeadMsg)
      BY <2>1, <2>3 DEF Follows
    <3> QED BY <2>1, <2>3, <3>1, <3>2, <3>3, <3>4, ReplyHeard
  <2> QED BY <1>3, <2>2, <2>3 DEF NegotiateSecurity, Quiet
<1>4. CASE HandleSecurityResult /\ ~(Waits \/ \E x : FailsWith(x))
  <2>1. Whole /\ h.init = "SecurityResult"
    BY <1>4 DEF HandleSecurityResult, Calls
  <2>2. CASE h' = [h EXCEPT !.rq = Rest, !.init = "ClientInitialisation"] /\ wire' = wire /\ HeadMsg = "ok"
    <3>1. h'.rq = Rest
      BY <1>0, <2>2 DEF Handshake
    <3>2. ~Follows(h, HeadMsg)
      BY <2>1, <2>2 DEF Follows
    <3> QED BY <2>1, <2>2, <3>1, <3>2, ReplyHeard
  <2>3. CASE h' = [h EXCEPT !.rq = Rest, !.init = "SecurityReason"] /\ wire' = wire
    <3>1. h'.rq = Rest /\ h'.init = "SecurityReason"
      BY <1>0, <2>3 DEF Handshake
    <3>2. ~Hushed(h')
      BY <3>1 DEF Hushed
    <3> QED BY <2>1, <2>3, <3>1, <3>2, FirstHeard
  <2> QED BY <1>4, <2>2, <2>3 DEF HandleSecurityResult, Quiet
<1>5. HandleSecurityReason => (Waits \/ \E x : FailsWith(x))
  BY DEF HandleSecurityReason
<1> QED BY <1>1, <1>2, <1>3, <1>4, <1>5

LEMMA SchemesHeard ==
    ASSUME Setup, Sound(c), c'.conn = "connecting",
           NegotiateNone \/ NegotiateXvpAuth \/ NegotiatePlainAuth \/ NegotiateChallenge \/ NegotiateARDAuth \/ UnsupportedScheme
    PROVE  Heard(h', Talk')
<1>0. Handshake(h) /\ Counted /\ h.init = "Authentication" /\ h.scheme # "ra2" /\ h.ra2 = ""
  BY DEF Setup, Counted, Stages, NegotiateNone, NegotiateXvpAuth, NegotiatePlainAuth, NegotiateChallenge,
         NegotiateARDAuth, UnsupportedScheme, Auth, Calls
<1>1. CASE Waits \/ AsksCredentials \/ \E x : FailsWith(x)
  BY <1>1, PausesHeard
<1>2. CASE NegotiateNone
  <2>1. h.scheme = "none" /\ wire' = wire
    BY <1>2 DEF NegotiateNone, Auth, Quiet
  <2>2. CASE h.ver = "3.8"
    <3>1. h'.init = "SecurityResult" /\ h'.rq = h.rq
      BY <1>0, <1>2, <2>2 DEF NegotiateNone, Handshake
    <3>2. ~Hushed(h')
      BY <3>1 DEF Hushed
    <3>3. \A m : Follows(h, m) => Follows(h', m)
      BY <1>0, <2>1, <3>1 DEF Follows
    <3> QED BY <1>0, <2>1, <3>1, <3>2, <3>3, StaysHeard
  <2>3. CASE h.ver # "3.8"
    <3>1. Hushed(h)
      BY <1>0, <2>1, <2>3 DEF Hushed
    <3>2. h'.rq = h.rq
      BY <1>0, <1>2 DEF NegotiateNone, Handshake
    <3>3. h.rq = <<>> /\ wire = <<>>
      BY <3>1, NothingSaid DEF Setup, Heard
    <3> QED BY <2>1, <3>2, <3>3, SilentHeard DEF Setup
  <2> QED BY <2>2, <2>3
<1>3. CASE NegotiateXvpAuth /\ ~AsksCredentials
  <2>1. h.scheme = "xvp" /\ h' = [h EXCEPT !.scheme = "vnc"] /\ Sends({Unit("challenge")})
    BY <1>3 DEF NegotiateXvpAuth, Auth
  <2>2. h'.rq = h.rq /\ h'.init = "Authentication" /\ h'.scheme = "vnc" /\ h'.ra2 = ""
    BY <1>0, <2>1 DEF Handshake
  <2>3. ~Hushed(h') /\ Hushed(h)
    BY <1>0, <2>1, <2>2 DEF Hushed
  <2>4. Heard(h', Unit("challenge"))
    BY <2>2, <2>3, OneHeard
  <2>5. {Unit("challenge")} \subseteq Seq(All)
    BY AllSent DEF Texts
  <2> QED BY <2>1, <2>2, <2>3, <2>4, <2>5, SaidHeard
<1>4. ASSUME h'.init = "SecurityResult"
      PROVE  (\A a \in Results : Heard(h', a)) /\ Results \in SUBSET Seq(All)
  <2>1. ~Hushed(h') /\ Follows(h', "refused")
    BY <1>4 DEF Hushed, Follows
  <2> QED BY <1>4, <2>1, ResultsHeard, AllSent
<1>5. CASE NegotiatePlainAuth /\ ~AsksCredentials
  <2>1. Answered(h) /\ h.scheme \in {"plain", "unix"}
    BY <1>5 DEF NegotiatePlainAuth, Auth
  <2>2. Hushed(h)
    BY <1>0, <2>1 DEF Hushed
  <2>3. h'.init = "SecurityResult" /\ h'.rq = h.rq /\ Sends(Results)
    BY <1>0, <2>1 DEF Answered, Handshake
  <2> QED BY <1>4, <2>2, <2>3, SaidHeard
<1>7. CASE NegotiateChallenge /\ ~(Waits \/ AsksCredentials)
  <2>1. Whole /\ Answered([h EXCEPT !.rq = Rest]) /\ h.scheme \in {"vnc", "mslogon"}
    BY <1>7 DEF NegotiateChallenge, Auth
  <2>2. ~Follows(h, HeadMsg)
    BY <1>0, <2>1 DEF Follows
  <2>3. h'.init = "SecurityResult" /\ h'.rq = Rest /\ Sends(Results)
    BY <1>0, <2>1 DEF Answered, Handshake
  <2> QED BY <1>0, <1>4, <2>1, <2>2, <2>3, ReplyHeard
<1>8. CASE NegotiateARDAuth /\ ~(Waits \/ AsksCredentials)
  <2>1. h.scheme = "ard"
    BY <1>8 DEF NegotiateARDAuth, Auth
  <2>2. CASE h.ard = "ready" /\ Answered([h EXCEPT !.ard = "sent"])
    <3>1. h'.init = "SecurityResult" /\ h'.rq = h.rq /\ Sends(Results)
      BY <1>0, <2>2 DEF Answered, Handshake
    <3>2. Hushed(h)
      BY <1>0, <2>1, <2>2 DEF Hushed
    <3> QED BY <1>4, <3>1, <3>2, SaidHeard
  <2>3. CASE Whole /\ h' = [h EXCEPT !.rq = Rest, !.ard = "working"] /\ wire' = wire
    <3>1. h'.rq = Rest
      BY <1>0, <2>3 DEF Handshake
    <3>2. ~Follows(h, HeadMsg)
      BY <1>0, <2>1 DEF Follows
    <3> QED BY <1>0, <2>3, <3>1, <3>2, ReplyHeard
  <2> QED BY <1>8, <2>2, <2>3 DEF NegotiateARDAuth, Quiet
<1>9. UnsupportedScheme => \E x : FailsWith(x)
  BY DEF UnsupportedScheme
<1> QED BY <1>1, <1>2, <1>3, <1>5, <1>7, <1>8, <1>9

LEMMA TunnelsHeard ==
    ASSUME Setup, Sound(c), c'.conn = "connecting", NegotiateTightTunnels \/ NegotiateTightSubAuth \/ NegotiateVeNCryptAuth
    PROVE  Heard(h', Talk')
<1>0. Handshake(h) /\ Counted /\ h.init = "Authentication" /\ h.scheme \in {"tight", "vencrypt"} /\ h.ra2 = ""
  BY DEF Setup, Counted, Stages, NegotiateTightTunnels, NegotiateTightSubAuth, NegotiateVeNCryptAuth, Auth, Calls
<1>1. CASE Waits \/ \E x : FailsWith(x)
  BY <1>1, PausesHeard
<1>2. CASE NegotiateTightTunnels /\ ~(Waits \/ \E x : FailsWith(x))
  <2>1. /\ Whole /\ h.scheme = "tight" /\ h' = [h EXCEPT !.rq = Rest, !.tight = TRUE]
        /\ \/ HeadMsg = "notunnels" /\ wire' = wire
           \/ HeadMsg = "tunnel" /\ Sends({Unit(m) : m \in {"empty", "none", "vnc", "unix", "others"}})
    BY <1>2 DEF NegotiateTightTunnels, Auth, Quiet
  <2>2. h'.rq = Rest /\ h'.init = "Authentication" /\ h'.scheme = "tight" /\ h'.ra2 = ""
    BY <1>0, <2>1 DEF Handshake
  <2>3. ~Hushed(h')
    BY <2>2 DEF Hushed
  <2>4. CASE HeadMsg = "notunnels" /\ wire' = wire
    BY <1>0, <2>1, <2>2, <2>3, <2>4, FirstHeard
  <2>5. CASE HeadMsg = "tunnel" /\ Sends({Unit(m) : m \in {"empty", "none", "vnc", "unix", "others"}})
    <3> DEFINE S == {Unit(m) : m \in {"empty", "none", "vnc", "unix", "others"}}
    <3>1. \A a \in S : Heard(h', a)
      BY <2>2, <2>3, OneHeard
    <3>2. S \in SUBSET Seq(All)
      BY AllSent, ZenonT(40) DEF Texts
    <3>3. Sends(S)
      BY <2>5
    <3> HIDE DEF S
    <3>4. ~Follows(h, HeadMsg)
      BY <1>0, <2>1, <2>5 DEF Follows
    <3> QED BY <1>0, <2>1, <2>2, <3>1, <3>2, <3>3, <3>4, ReplyHeard
  <2> QED BY <2>1, <2>4, <2>5
<1>3. CASE NegotiateTightSubAuth /\ ~(Waits \/ \E x : FailsWith(x))
  <2>1. Whole /\ h.scheme = "tight" /\ h.tight
    BY <1>3 DEF NegotiateTightSubAuth, Auth
  <2>2. ~Follows(h, HeadMsg)
    BY <1>0, <2>1 DEF Follows
  <2>3. CASE h' = [h EXCEPT !.rq = Rest, !.init = "SecurityResult"] /\ Sends(Results)
    <3>1. h'.rq = Rest /\ h'.init = "SecurityResult"
      BY <1>0, <2>3 DEF Handshake
    <3>2. ~Hushed(h') /\ Follows(h', "refused")
      BY <3>1 DEF Hushed, Follows
    <3>3. (\A a \in Results : Heard(h', a)) /\ Results \in SUBSET Seq(All)
      BY <3>1, <3>2, ResultsHeard, AllSent
    <3> QED BY <1>0, <2>1, <2>2, <2>3, <3>1, <3>3, ReplyHeard
  <2>4. CASE HeadMsg \in {"vnc", "unix"} /\ h' = [h EXCEPT !.rq = Rest, !.scheme = HeadMsg] /\ Sends(Openings(HeadMsg))
    <3>1. h'.rq = Rest /\ h'.init = "Authentication" /\ h'.scheme = HeadMsg /\ h'.ver = h.ver /\ h'.ra2 = ""
      BY <1>0, <2>4 DEF Handshake
    <3>2. HeadMsg # "ard" /\ HeadMsg # "tight"
      BY <2>4
    <3>3. (\A a \in Openings(HeadMsg) : Heard(h', a)) /\ Openings(HeadMsg) \in SUBSET Seq(All)
      BY <3>1, <3>2, OpeningsHeard, AllSent
    <3> QED BY <1>0, <2>1, <2>2, <2>4, <3>1, <3>3, ReplyHeard
  <2> QED BY <1>3, <2>3, <2>4 DEF NegotiateTightSubAuth
<1>4. CASE NegotiateVeNCryptAuth /\ ~(Waits \/ \E x : FailsWith(x))
  <2>1. Whole /\ h.scheme = "vencrypt"
    BY <1>4 DEF NegotiateVeNCryptAuth, Auth
  <2>2. CASE HeadMsg = "version" /\ VeNCryptSteps(0)
    <3>1. h' = [h EXCEPT !.rq = Rest, !.ven = 1] /\ Sends(VeNCryptAnswers)
      BY <2>2 DEF VeNCryptSteps
    <3>2. h'.rq = Rest /\ h'.init = "Authentication" /\ h'.scheme = "vencrypt" /\ h'.ra2 = "" /\ h'.ven = 1
      BY <1>0, <2>1, <3>1 DEF Handshake
    <3>3. ~Hushed(h') /\ Follows(h', "ack")
      BY <3>2 DEF Hushed, Follows
    <3>4. Heard(h', Unit("refuses")) /\ \A m : Heard(h', Unit("ack") \o Unit(m))
      BY <3>2, <3>3, OneHeard, TwoHeard
    <3>5. (\A a \in VeNCryptAnswers : Heard(h', a)) /\ VeNCryptAnswers \in SUBSET Seq(All)
      BY <3>4, AllSent DEF VeNCryptAnswers
    <3>6. ~Follows(h, HeadMsg)
      BY <1>0, <2>1, <2>2 DEF Follows
    <3> QED BY <1>0, <2>1, <3>1, <3>2, <3>5, <3>6, ReplyHeard
  <2>3. CASE HeadMsg = "ack" /\ VeNCryptSteps(1)
    <3>1. h' = [h EXCEPT !.rq = Rest, !.ven = 2] /\ Sends({<<>>})
      BY <2>3 DEF VeNCryptSteps
    <3>2. h'.rq = Rest /\ h'.init = "Authentication" /\ h'.scheme = "vencrypt" /\ h'.ra2 = ""
      BY <1>0, <2>1, <3>1 DEF Handshake
    <3>3. ~Hushed(h')
      BY <3>2 DEF Hushed
    <3> QED BY <1>0, <2>1, <3>1, <3>2, <3>3, FirstHeard
  <2>4. CASE /\ h.ven = 2 /\ HeadMsg \in {"plain", "vnc", "none"}
             /\ h' = [h EXCEPT !.rq = Rest, !.ven = 4, !.scheme = HeadMsg]
             /\ Sends(Openings(HeadMsg))
    <3>1. h'.rq = Rest /\ h'.init = "Authentication" /\ h'.scheme = HeadMsg /\ h'.ver = h.ver /\ h'.ra2 = ""
      BY <1>0, <2>4 DEF Handshake
    <3>2. HeadMsg # "ard" /\ HeadMsg # "tight"
      BY <2>4
    <3>3. (\A a \in Openings(HeadMsg) : Heard(h', a)) /\ Openings(HeadMsg) \in SUBSET Seq(All)
      BY <3>1, <3>2, OpeningsHeard, AllSent
    <3>4. ~Follows(h, HeadMsg)
      BY <1>0, <2>1, <2>4 DEF Follows
    <3> QED BY <1>0, <2>1, <2>4, <3>1, <3>3, <3>4, ReplyHeard
  <2> QED BY <1>4, <2>2, <2>3, <2>4 DEF NegotiateVeNCryptAuth
<1> QED BY <1>1, <1>2, <1>3, <1>4

LEMMA ClientInitHeard ==
    ASSUME Setup, ClientInitialisation
    PROVE  Heard(h', Talk')
<1>0. Handshake(h) /\ h.init = "ClientInitialisation"
  BY DEF Setup, Counted, ClientInitialisation, Calls
<1> DEFINE a == Unit("server") \o (IF h.tight THEN Unit("extension") ELSE <<>>)
<1>1. h' = [h EXCEPT !.init = "ServerInitialisation"] /\ Sends({a})
  BY DEF ClientInitialisation
<1>2. h'.init = "ServerInitialisation" /\ h'.rq = h.rq /\ h'.tight = h.tight
  BY <1>0, <1>1 DEF Handshake
<1>3. Hushed(h) /\ ~Hushed(h')
  BY <1>0, <1>2 DEF Hushed
<1>4. Unit("server") \in Seq(All) /\ Unit("server") \o Unit("extension") \in Seq(All)
  BY AllSent DEF Texts
<1>5. a = IF h.tight THEN Unit("server") \o Unit("extension") ELSE Unit("server")
  BY <1>4, ConcatEmptySeq
<1>6. Len(Unit("server")) = 2 /\ Len(Unit("server") \o Unit("extension")) = 4
  BY UnitLen
<1> HIDE DEF a
<1>7. a \in Seq(All) /\ Len(a) = IF h.tight THEN 4 ELSE 2
  BY <1>4, <1>5, <1>6
<1>8. Heard(h', a)
  BY <1>2, <1>3, <1>7 DEF Heard
<1> QED BY <1>1, <1>2, <1>3, <1>7, <1>8, SaidHeard

LEMMA ServerInitHeard ==
    ASSUME Setup, Sound(c), c.conn = "connecting", c'.conn = "connecting", NegotiateServerInit
    PROVE  Heard(h', Talk')
<1>1. CASE h' = h /\ wire' = wire
  BY <1>1, SameHeard
<1>2. CASE c' = UpdateConnectionState([c EXCEPT !.grabbed = TRUE], "connected")
  <2> DEFINE x == [c EXCEPT !.grabbed = TRUE]
  <2>1. x \in Connection /\ x.conn = "connecting"
    BY DEF Sound, Connection
  <2> HIDE DEF x
  <2>2. \E a, b, told : UpdateConnectionState(x, "connected") = [x EXCEPT !.conn = "connected", !.onclose = a, !.timer = b, !.told = told]
    BY <2>1 DEF UpdateConnectionState, Transition, Connection
  <2>3. UpdateConnectionState(x, "connected").conn = "connected"
    BY <2>1, <2>2 DEF Connection
  <2> QED BY <1>2, <2>3 DEF x
<1> QED BY <1>1, <1>2 DEF NegotiateServerInit, Quiet

\* Where RSA-AES awaits after a step.
LEMMA AwaitHeard ==
    ASSUME Setup, h.init = "Authentication", h.scheme = "ra2", NEW at, at # "hash",
           \/ h' = Awaits(h, at) /\ wire' = wire
              /\ (Hushed(h) \/ at \notin {"approve", "approved", "generate", "ciphers", "decrypt", "creds"})
              /\ h.ra2 # "hash"
           \/ Whole /\ h' = Awaits([h EXCEPT !.rq = Rest], at) /\ wire' = wire
              /\ (h.ra2 # "hash" \/ at = "subtype")
    PROVE  Heard(h', Talk')
<1>0. Handshake(h)
  BY DEF Setup, Counted
<1>1. CASE /\ h' = Awaits(h, at) /\ wire' = wire /\ h.ra2 # "hash"
           /\ (Hushed(h) \/ at \notin {"approve", "approved", "generate", "ciphers", "decrypt", "creds"})
  <2>1. h'.rq = h.rq /\ h'.init = "Authentication" /\ h'.scheme = "ra2" /\ h'.ra2 = at
    BY <1>0, <1>1, AwaitsFields
  <2>2. Hushed(h') => Hushed(h)
    BY <1>1, <2>1 DEF Hushed
  <2>3. \A m : ~Follows(h, m)
    BY <1>1 DEF Follows
  <2> QED BY <1>1, <2>1, <2>2, <2>3, StaysHeard
<1>2. CASE /\ Whole /\ h' = Awaits([h EXCEPT !.rq = Rest], at) /\ wire' = wire
           /\ (h.ra2 # "hash" \/ at = "subtype")
  <2>1. PICK x : x = [h EXCEPT !.rq = Rest]
    OBVIOUS
  <2>2. Handshake(x) /\ x.init = "Authentication" /\ x.scheme = "ra2" /\ x.rq = Rest
    BY <1>0, <1>2, <2>1, RestType DEF Handshake
  <2>3. h'.rq = Rest /\ h'.init = "Authentication" /\ h'.scheme = "ra2" /\ h'.ra2 = at
    <3>1. /\ Awaits(x, at).rq = Rest /\ Awaits(x, at).init = "Authentication" /\ Awaits(x, at).scheme = "ra2"
          /\ Awaits(x, at).ra2 = at
      BY ONLY <2>2, AwaitsFields
    <3>2. h' = Awaits(x, at)
      BY <1>2, <2>1
    <3> QED BY ONLY <3>1, <3>2
  <2>4. CASE at = "subtype"
    <3>1. ~Hushed(h')
      BY <2>3, <2>4 DEF Hushed
    <3> QED BY <1>2, <2>3, <3>1, FirstHeard
  <2>5. CASE h.ra2 # "hash"
    <3>1. ~Follows(h, HeadMsg)
      BY <2>5 DEF Follows
    <3> QED BY <1>2, <2>3, <3>1, ReplyHeard
  <2> QED BY <1>2, <2>4, <2>5
<1> QED BY <1>1, <1>2

LEMMA RA2AuthHeard ==
    ASSUME Setup, NegotiateRA2neAuth
    PROVE  Heard(h', Talk')
<1>1. h.init = "Authentication" /\ h.scheme = "ra2" /\ wire' = wire /\ Handshake(h)
  BY DEF NegotiateRA2neAuth, Auth, Calls, Quiet, Setup, Counted
<1>2. CASE h' = h
  BY <1>1, <1>2, SameHeard
<1>3. CASE h.ra2 = "" /\ h' = Awaits(h, "key")
  BY <1>1, <1>3, AwaitHeard
<1>4. CASE h' = Awaits(h, h.ra2)
  <2>1. /\ h'.rq = h.rq /\ h'.init = h.init /\ h'.scheme = h.scheme /\ h'.ra2 = h.ra2
        /\ h'.ver = h.ver /\ h'.tight = h.tight /\ h'.ven = h.ven /\ h'.ard = h.ard
    BY <1>1, <1>4, AwaitsFields
  <2> QED BY <1>1, <2>1, SameHeard
<1> QED BY <1>2, <1>3, <1>4 DEF NegotiateRA2neAuth, CheckInternalEvents

LEMMA RA2Heard ==
    ASSUME Setup, Sound(c), c'.conn = "connecting", RA2
    PROVE  Heard(h', Talk')
<1>0. Handshake(h) /\ h.init = "Authentication" /\ h.scheme = "ra2"
      /\ (h.ra2 \in {"hash", "subtype", "keyrest"} => Whole)
  <2>1. \E at : at # "" /\ RA2Goes(at)
    BY DEF RA2, RA2Key, RA2Verify, RA2Approved, RA2SendKey, RA2Random, RA2SendHash, RA2Hash, RA2Subtype,
           RA2AskCredentials, RA2SendCredentials
  <2> QED BY <2>1 DEF RA2Goes, Setup, Counted, Stages
<1>1. ~RA2Throws
  BY FailsElse DEF RA2Throws
<1>2. h.ra2 \in {"approve", "approved", "generate", "ciphers", "decrypt", "creds"} => Hushed(h)
  BY <1>0 DEF Hushed
<1>3. CASE RA2Key
  <2>1. h.ra2 = "key" /\ h' = Awaits(h, "keyrest") /\ wire' = wire
    BY <1>1, <1>3 DEF RA2Key, RA2Goes, Quiet
  <2> QED BY <1>0, <2>1, AwaitHeard
<1>4. CASE RA2Verify
  <2>1. h.ra2 = "keyrest" /\ h' = Awaits([h EXCEPT !.rq = Rest], "approve") /\ wire' = wire
    BY <1>4 DEF RA2Verify, RA2Goes
  <2> QED BY <1>0, <2>1, AwaitHeard
<1>5. CASE RA2Approved
  <2>1. h.ra2 = "approved" /\ h' = Awaits(h, "generate") /\ wire' = wire
    BY <1>5 DEF RA2Approved, RA2Goes, Quiet
  <2> QED BY <1>0, <1>2, <2>1, AwaitHeard
<1>6. CASE RA2Random
  <2>1. h.ra2 = "random" /\ Whole /\ h' = Awaits([h EXCEPT !.rq = Rest], "ciphers") /\ wire' = wire
    BY <1>1, <1>6 DEF RA2Random, RA2Goes, Quiet
  <2> QED BY <1>0, <2>1, AwaitHeard
<1>7. CASE RA2Hash
  <2>1. h.ra2 = "hash" /\ h' = Awaits([h EXCEPT !.rq = Rest], "subtype") /\ wire' = wire
    BY <1>1, <1>7 DEF RA2Hash, RA2Goes, Quiet
  <2> QED BY <1>0, <2>1, AwaitHeard
<1>8. CASE RA2Subtype
  <2>1. h.ra2 = "subtype" /\ h' = Awaits([h EXCEPT !.rq = Rest], "decrypt") /\ wire' = wire
    BY <1>8 DEF RA2Subtype, RA2Goes, Quiet
  <2> QED BY <1>0, <2>1, AwaitHeard
<1>9. CASE RA2AskCredentials
  <2>1. h.ra2 = "decrypt" /\ h' = Awaits(h, "creds") /\ wire' = wire
    BY <1>9 DEF RA2AskCredentials, RA2Goes
  <2> QED BY <1>0, <1>2, <2>1, AwaitHeard
<1>10. CASE RA2SendKey
  <2>1. h.ra2 = "generate" /\ h' = Awaits(h, "random") /\ Sends({Unit("random")})
    BY <1>10 DEF RA2SendKey, RA2Goes
  <2>2. h'.rq = h.rq /\ h'.init = "Authentication" /\ h'.scheme = "ra2" /\ h'.ra2 = "random"
    BY <1>0, <2>1, AwaitsFields
  <2>3. ~Hushed(h')
    BY <2>2 DEF Hushed
  <2>4. Heard(h', Unit("random")) /\ {Unit("random")} \subseteq Seq(All)
    BY <2>2, <2>3, OneHeard, AllSent DEF Texts
  <2> QED BY <1>2, <2>1, <2>2, <2>4, SaidHeard
<1>11. CASE RA2SendHash
  <2> DEFINE S == {Unit(m) \o Unit("subtype") : m \in {"hash", "badhash"}}
  <2>1. h.ra2 = "ciphers" /\ h' = Awaits(h, "hash") /\ Sends(S)
    BY <1>11 DEF RA2SendHash, RA2Goes
  <2>2. h'.rq = h.rq /\ h'.init = "Authentication" /\ h'.scheme = "ra2" /\ h'.ra2 = "hash"
    BY <1>0, <2>1, AwaitsFields
  <2>3. ~Hushed(h') /\ Follows(h', "hash") /\ Follows(h', "badhash")
    BY <2>2 DEF Hushed, Follows
  <2>4. \A a \in S : Heard(h', a)
    BY <2>2, <2>3, TwoHeard
  <2>5. S \subseteq Seq(All)
    BY AllSent DEF Texts
  <2> HIDE DEF S
  <2> QED BY <1>2, <2>1, <2>2, <2>4, <2>5, SaidHeard
<1>12. CASE RA2SendCredentials
  <2>1. h.ra2 = "creds" /\ h' = Settled(h) /\ Sends(Results)
    BY <1>12 DEF RA2SendCredentials, RA2Goes
  <2>2. h'.rq = h.rq /\ h'.init = "SecurityResult"
    BY <1>0, <2>1 DEF Settled, Handshake
  <2>3. ~Hushed(h') /\ Follows(h', "refused")
    BY <2>2 DEF Hushed, Follows
  <2>4. (\A a \in Results : Heard(h', a)) /\ Results \subseteq Seq(All)
    BY <2>2, <2>3, ResultsHeard, AllSent
  <2> QED BY <1>2, <2>1, <2>2, <2>4, SaidHeard
<1> QED BY <1>3, <1>4, <1>5, <1>6, <1>7, <1>8, <1>9, <1>10, <1>11, <1>12 DEF RA2

\* Events of the channel and of the page.
LEMMA ReceiveHeard ==
    ASSUME Setup, Receive
    PROVE  Heard(h', Talk')
<1>1. PICK n \in 1..Len(wire) : /\ h' = [h EXCEPT !.rq = @ \o SubSeq(wire, 1, n)]
                                /\ wire' = SubSeq(wire, n + 1, Len(wire))
  BY DEF Receive
<1> DEFINE a == SubSeq(wire, 1, n)
           b == SubSeq(wire, n + 1, Len(wire))
<1>2. wire \in Seq(All) /\ h.rq \in Seq(All) /\ Handshake(h) /\ Len(wire) \in Nat
  BY LenProperties DEF Setup, Queues, Counted
<1>3. a \in Seq(All) /\ b \in Seq(All)
  BY <1>2, SubSeqProperties
<1>4. wire = a \o b
  <2>1. wire = SubSeq(wire, 1, Len(wire))
    BY <1>2, SubSeqFull
  <2>2. SubSeq(wire, 1, n) \o SubSeq(wire, n + 1, Len(wire)) = SubSeq(wire, 1, Len(wire))
    BY <1>2, ConcatAdjacentSubSeq
  <2> QED BY <2>1, <2>2
<1>5. h'.rq = h.rq \o a /\ wire' = b
  BY <1>1, <1>2 DEF Handshake
<1> HIDE DEF a, b
<1>6. (h.rq \o a) \o b = h.rq \o (a \o b)
  <2>1. \A s, t, u \in Seq(All) : (s \o t) \o u = s \o (t \o u)
    BY ONLY ConcatAssociative
  <2> QED BY <1>2, <1>3, <2>1
<1>7. Talk' = Talk
  BY <1>4, <1>5, <1>6 DEF Talk
<1>8. /\ h'.init = h.init /\ h'.scheme = h.scheme /\ h'.ver = h.ver /\ h'.tight = h.tight /\ h'.ven = h.ven
      /\ h'.ra2 = h.ra2 /\ h'.ard = h.ard
  BY <1>1, <1>2 DEF Handshake
<1>9. Hushed(h') = Hushed(h) /\ \A m : Follows(h, m) => Follows(h', m)
  BY <1>8 DEF Hushed, Follows
<1> QED BY <1>7, <1>8, <1>9 DEF Setup, Heard

LEMMA EventsHeard ==
    ASSUME Setup, Sound(c), c.conn = "connecting", c'.conn = "connecting",
           \/ NormalMsg \/ ServerSpeaks \/ SocketOpen \/ SocketClose \/ DisconnectTimeout \/ ResumeAuthentication
           \/ SendCredentials \/ ApproveServer \/ DisconnectCall \/ ARDAuthAsync
    PROVE  Heard(h', Talk')
<1>0. Handshake(h) /\ Queues
  BY DEF Setup, Counted
<1>1. CASE NormalMsg
  <2>1. h.init = "ServerInitialisation"
    BY <1>1 DEF NormalMsg, Setup, Counted, Stages
  <2>2. CASE ~Whole
    <3>1. h' = h /\ wire' = wire
      BY <1>1, <2>2 DEF NormalMsg
    <3> QED BY <3>1, SameHeard
  <2>3. CASE Whole
    <3>1. h' = [h EXCEPT !.rq = Rest] /\ wire' = wire
      BY <1>1, <2>3 DEF NormalMsg
    <3>2. h'.rq = Rest /\ h'.init = "ServerInitialisation" /\ h'.tight = h.tight
      BY <1>0, <2>1, <3>1 DEF Handshake
    <3>3. Talk' = Rest \o wire
      BY <3>1, <3>2 DEF Talk
    <3>4. PICK n \in Nat : Len(Talk) = n
      BY <1>0, TalkType
    <3>5. Len(Talk) <= n + 2
      BY <3>4
    <3>6. PICK k \in Nat : Len(Rest \o wire) = k /\ k <= n
      BY <1>0, <2>3, <3>4, <3>5, HalfRead
    <3>7. n <= IF h.tight THEN 4 ELSE 2
      BY <2>1, <3>4 DEF Setup, Heard
    <3>8. k <= IF h'.tight THEN 4 ELSE 2
      BY <3>2, <3>6, <3>7
    <3>9. ~Hushed(h')
      BY <3>2 DEF Hushed
    <3> QED BY <3>2, <3>3, <3>6, <3>8, <3>9 DEF Heard
  <2> QED BY <2>2, <2>3
<1>2. CASE SocketOpen
  <2>1. h.init = ""
    BY <1>2 DEF SocketOpen, Setup, Counted, Stages
  <2>2. h.rq = <<>>
    BY <2>1, NothingSaid DEF Setup, Heard, Hushed
  <2>3. PICK v \in Versions : wire' = Unit(v)
    BY <1>2 DEF SocketOpen
  <2>4. h'.rq = <<>> /\ h'.init = "ProtocolVersion"
    BY <1>0, <1>2, <2>2 DEF SocketOpen, Handshake
  <2>5. Unit(v) \in Seq(All)
    BY AllSent, VersionsAssumption DEF Texts
  <2>6. Talk' = Unit(v)
    BY <2>3, <2>4, <2>5, ConcatEmptySeq DEF Talk
  <2>7. ~Hushed(h')
    BY <2>4 DEF Hushed
  <2> QED BY <2>4, <2>6, <2>7, OneHeard
<1>3. CASE ServerSpeaks
  BY <1>3 DEF ServerSpeaks, Speaks
<1>4. CASE SocketClose \/ DisconnectTimeout
  <2>1. h' = h /\ wire' = wire
    BY <1>4 DEF SocketClose, DisconnectTimeout
  <2> QED BY <2>1, SameHeard
<1>5. CASE ResumeAuthentication \/ SendCredentials \/ ARDAuthAsync
  <2>1. wire' = wire /\ \/ \E k : h' = [h EXCEPT !.resume = k]
                        \/ \E k : h' = [h EXCEPT !.creds = TRUE, !.resume = k]
                        \/ h.ard = "working" /\ \E k : h' = [h EXCEPT !.ard = "ready", !.resume = k]
    BY <1>5 DEF ResumeAuthentication, SendCredentials, ARDAuthAsync, Quiet
  <2>2. /\ h'.rq = h.rq /\ h'.init = h.init /\ h'.scheme = h.scheme /\ h'.ver = h.ver
        /\ h'.tight = h.tight /\ h'.ven = h.ven /\ h'.ra2 = h.ra2 /\ (h'.ard = "" <=> h.ard = "")
    BY <1>0, <2>1 DEF Handshake
  <2> QED BY <2>1, <2>2, SameHeard
<1>6. CASE ApproveServer
  <2>1. wire' = wire /\ (h' = h \/ (h.ra2 = "approve" /\ h' = Awaits(h, "approved")))
    BY <1>6 DEF ApproveServer
  <2>2. CASE h' = h
    BY <2>1, <2>2, SameHeard
  <2>3. CASE h.ra2 = "approve" /\ h' = Awaits(h, "approved")
    <3>1. h.init = "Authentication" /\ h.scheme = "ra2"
      BY <2>3 DEF Setup, Counted, Stages
    <3>2. Hushed(h)
      BY <2>3, <3>1 DEF Hushed
    <3> QED BY <2>1, <2>3, <3>1, <3>2, AwaitHeard
  <2> QED BY <2>1, <2>2, <2>3
<1>7. ~DisconnectCall
  BY UpdateMilder DEF DisconnectCall, Over
<1> QED BY <1>1, <1>2, <1>3, <1>4, <1>5, <1>6, <1>7

-----------------------------------------------------------------------------
(* The session with everything it has to let go of. *)

EndInv == SizeInv /\ Counted /\ HeardNow /\ LetsGo(c)

LEMMA EndStep ==
    ASSUME Sound(c), Queues, Counted, HeardNow, LetsGo(c), Next
    PROVE  Counted' /\ HeardNow' /\ LetsGo(c')
<1>1. CASE InitMsg /\ ~NegotiateServerInit
  <2>1. Keeps
    BY <1>1, InitMsgConnection
  <2>2. Milder(c, c')
    BY <2>1, KeepsMilder
  <2>3. Counted'
    BY <1>1, OpeningCounted, SchemesCounted, ARDCounted, TunnelsCounted, RA2AuthCounted, ClientInitCounted DEF InitMsg
  <2>4. ASSUME c'.conn = "connecting" PROVE Heard(h', Talk')
    <3>1. Setup
      BY <2>2, <2>4 DEF Milder, HeardNow, Setup
    <3> QED BY <1>1, <2>4, <3>1, OpeningHeard, SchemesHeard, TunnelsHeard, RA2AuthHeard, ClientInitHeard DEF InitMsg
  <2> QED BY <2>2, <2>3, <2>4 DEF Milder, HeardNow
<1>2. CASE NegotiateServerInit
  <2>1. ASSUME c.conn = "connecting" PROVE Len(h.rq) <= InitSize
    <3>1. h.init = "ServerInitialisation"
      BY <1>2 DEF NegotiateServerInit, Calls
    <3>2. Len(Talk) <= InitSize
      BY <2>1, <3>1 DEF HeardNow, Heard, InitSize
    <3>3. InitSize \in Nat
      BY DEF InitSize
    <3>4. PICK a \in Nat, b \in Nat : Len(h.rq) = a /\ Len(wire) = b /\ Len(Talk) = a + b
      BY TalkType
    <3> QED BY <3>2, <3>3, <3>4
  <2>2. Counted' /\ LetsGo(c')
    BY <1>2, <2>1, ServerInitCounted
  <2>3. c'.conn = "connecting" => c.conn = "connecting"
    <3>1. c' = c \/ c' = UpdateConnectionState([c EXCEPT !.grabbed = TRUE], "connected")
      BY <1>2 DEF NegotiateServerInit, Quiet
    <3> DEFINE x == [c EXCEPT !.grabbed = TRUE]
    <3>2. x \in Connection /\ x.conn = c.conn
      BY DEF Sound, Connection
    <3> HIDE DEF x
    <3>3. CASE ~Transition(x.conn, "connected")
      <4>1. UpdateConnectionState(x, "connected") = x
        BY <3>3 DEF UpdateConnectionState
      <4> QED BY <3>1, <3>2, <4>1 DEF x
    <3>4. CASE Transition(x.conn, "connected")
      BY <3>2, <3>4 DEF Transition
    <3> QED BY <3>3, <3>4
  <2>4. ASSUME c'.conn = "connecting" PROVE Heard(h', Talk')
    <3>1. Setup
      BY <2>3, <2>4 DEF HeardNow, Setup
    <3> QED BY <1>2, <2>3, <2>4, <3>1, ServerInitHeard
  <2> QED BY <2>2, <2>4 DEF HeardNow
<1>3. CASE RA2
  <2>1. Keeps
    BY <1>3, RA2Connection
  <2>2. Milder(c, c')
    BY <2>1, KeepsMilder
  <2>3. ASSUME c'.conn = "connecting" PROVE Heard(h', Talk')
    <3>1. Setup
      BY <2>2, <2>3 DEF Milder, HeardNow, Setup
    <3> QED BY <1>3, <2>3, <3>1, RA2Heard
  <2> QED BY <1>3, <2>2, <2>3, RA2Counted DEF Milder, HeardNow
<1>4. CASE \/ NormalMsg \/ ServerSpeaks \/ SocketOpen \/ SocketClose \/ DisconnectTimeout \/ ResumeAuthentication
           \/ SendCredentials \/ ApproveServer \/ DisconnectCall \/ ARDAuthAsync \/ Receive
  <2>1. Milder(c, c')
    <3>1. CASE ResumeAuthentication \/ SendCredentials \/ ApproveServer \/ ARDAuthAsync
      BY <3>1 DEF ResumeAuthentication, SendCredentials, ApproveServer, ARDAuthAsync, Quiet, Milder
    <3>2. CASE SocketOpen
      <4>1. c'.conn = c.conn /\ c'.ready = "open" /\ c'.grabbed = c.grabbed
        BY <3>2 DEF SocketOpen, Sound, Connection
      <4> QED BY <4>1 DEF Milder, LetsGo, Over
    <3> QED BY <1>4, <3>1, <3>2, NormalCounted, CloseCounted, CallCounted
  <2>2. Counted'
    BY <1>4, NormalCounted, CloseCounted, CallCounted, OpenCounted, ResumeCounted, GivenCounted, ApprovedCounted, DigestCounted
  <2>3. ASSUME c'.conn = "connecting" PROVE Heard(h', Talk')
    <3>1. Setup /\ c.conn = "connecting"
      BY <2>1, <2>3 DEF Milder, HeardNow, Setup
    <3> QED BY <1>4, <2>3, <3>1, EventsHeard, ReceiveHeard
  <2> QED BY <2>1, <2>2, <2>3 DEF Milder, HeardNow
<1> QED BY <1>1, <1>2, <1>3, <1>4 DEF Next

(* A session that is over takes no bytes, has its channel closed or closing, *)
(* has given the keyboard back, and its timer runs until the end is          *)
(* announced: for every security type and every order of events.             *)
THEOREM SessionLetsGo == WSpec => []EndedLetsGo
<1>1. WInit => EndInv
  <2> SUFFICES ASSUME WInit PROVE EndInv
    OBVIOUS
  <2>1. SizeInv
    BY SizeInvInit
  <2>2. Init
    BY DEF WInit
  <2>3. PICK given \in BOOLEAN : h = [HInit EXCEPT !.creds = given]
    BY <2>2 DEF Init
  <2>4. Handshake(h) /\ h.init = "" /\ h.ra2 = "" /\ h.ard = "" /\ h.resume = 0 /\ h.tight = FALSE /\ h.go = FALSE
    <3>1. <<>> \in Seq(All)
      OBVIOUS
    <3> QED BY <2>3, <3>1 DEF HInit, Handshake
  <2>5. c.conn = "connecting" /\ c.ready = "connecting" /\ loop = "idle" /\ ui = {} /\ wire = <<>> /\ h.rq = <<>>
    BY <2>2, <2>3 DEF Init, CInit, HInit
  <2>6. Calling
    <3>1. Owed = 0 + 0 + 0 + 0
      BY <2>4, <2>5 DEF Owed, One
    <3>2. Owed <= 2 /\ Owed <= 1
      BY <3>1
    <3> QED BY <2>4, <2>5, <3>2 DEF Calling
  <2>7. Counted
    BY <2>4, <2>5, <2>6 DEF Counted, Stages, NobodyReads, Loops
  <2>8. Talk = <<>>
    BY <2>5, ConcatEmptySeq DEF Talk
  <2> QED BY <2>1, <2>5, <2>7, <2>8, HeardNothing DEF EndInv, HeardNow, LetsGo, Over
<1>2. EndInv /\ [WNext]_wvars => EndInv'
  <2> SUFFICES ASSUME EndInv, [WNext]_wvars PROVE EndInv'
    OBVIOUS
  <2>1. SizeInv' /\ Sound(c) /\ Queues
    BY SizeInvStep DEF EndInv, SizeInv
  <2>2. CASE SessionStep \/ ExtendedDesktopSize
    <3>1. Next
      BY <2>2 DEF SessionStep, ExtendedDesktopSize, Next
    <3> QED BY <2>1, <3>1, EndStep DEF EndInv, LetsGo, Over
  <2>3. CASE ServerResizes \/ ServerAnswers
    <3>1. UNCHANGED <<c, h, ui>> /\ loop = "idle" /\ loop' = "idle" /\ c.conn = "connected"
      BY <2>3 DEF ServerResizes, ServerAnswers, Speaks, Idle
    <3>2. Milder(c, c')
      BY <3>1 DEF Milder
    <3>3. Counted'
      BY <3>1, <3>2, ConnectionCounted DEF EndInv
    <3> QED BY <2>1, <3>1, <3>3 DEF EndInv, HeardNow, LetsGo, Over
  <2>4. CASE UNCHANGED vars
    <3>1. UNCHANGED <<c, h, loop, wire, ui>>
      BY <2>4 DEF vars
    <3>2. Owed' = Owed /\ InitSize' = InitSize /\ Whole' = Whole /\ Talk' = Talk
      BY <3>1 DEF Owed, InitSize, Whole, Talk
    <3>3. Counted'
      BY <3>1, <3>2 DEF EndInv, Counted, Stages, Calling, NobodyReads
    <3>4. HeardNow' /\ LetsGo(c')
      BY <3>1, <3>2 DEF EndInv, HeardNow
    <3> QED BY <2>1, <3>3, <3>4 DEF EndInv
  <2>5. SessionStep \/ ExtendedDesktopSize \/ ServerResizes \/ ServerAnswers \/ UNCHANGED vars
    BY DEF WNext, WindowResized, Observed, Frame, ResizeTimer, Cools, SetClipViewport, SetScaleViewport, Drag,
       Changes, Alone, wvars, vars
  <2> QED BY <2>2, <2>3, <2>4, <2>5
<1>3. EndInv => EndedLetsGo
  BY DEF EndInv, SizeInv, Sound, LetsGo, Over, EndedLetsGo
<1> QED BY <1>1, <1>2, <1>3, PTL DEF WSpec
=============================================================================
