----------------------------- MODULE RfbSession -----------------------------
(***************************************************************************)
(* The life of an RFB object of novnc-ui/core/rfb.js: the connection       *)
(* states, the Websock under it, the handshake with every security type,   *)
(* and RSAAESAuthenticationState of ra2.js, whose code runs between        *)
(* awaits.  JavaScript runs each event to its end, so `loop` says whether  *)
(* a handler is in the middle of reading messages; nothing else runs then. *)
(* A message of the server is two units, its head and the rest of it, so   *)
(* that a chunk of the channel may end inside it; what a unit holds is     *)
(* abstract.  A server answers what the client sends (external).           *)
(***************************************************************************)
EXTENDS Integers, Sequences

CONSTANTS Versions,   \* what the server's version reads
          Schemes,    \* security types a server asks for
          MaxMsgs     \* bound: messages the server sends after the handshake

Supported == {"none", "vnc", "ra2", "tight", "vencrypt", "xvp", "ard", "mslogon", "plain"}

ASSUME VersionsAssumption == Versions \subseteq {"repeater", "bad", "3.3", "3.7", "3.8"}
ASSUME SchemesAssumption == Schemes \subseteq Supported \cup {"unsupported"}

VARIABLES
    c,      \* the connection: what _updateConnectionState, _fail and the Websock keep
    h,      \* the handshake: what _initMsg and the negotiations keep
    loop,   \* "idle", "init", "normal" (_handleMessage) or "once" (_initMsg from a timer)
    wire,   \* units on their way to the client
    ui,     \* the prompts open in front of the user: "credentials", "server"
    msgs    \* messages sent by the server after the handshake

vars == <<c, h, loop, wire, ui, msgs>>

Unit(m) == <<m, "rest">>
Whole   == Len(h.rq) >= 2           \* rQwait finds the whole message
Rest    == SubSeq(h.rq, 3, Len(h.rq))
HeadMsg == h.rq[1]

-----------------------------------------------------------------------------
(* The connection. *)

CInit == [conn    |-> "connecting",    \* _rfbConnectionState after the constructor
          timer   |-> FALSE,           \* _disconnTimer
          clean   |-> TRUE,            \* _rfbCleanDisconnect
          ready   |-> "connecting",    \* readyState of the channel
          recv    |-> TRUE,            \* its onmessage is _recvMessage
          onclose |-> TRUE,            \* the 'close' handler of Websock is _socketClose
          grabbed |-> FALSE,           \* the keyboard's listeners are in place
          told    |-> <<>>]            \* "connect" and "disconnect" events, in order

Transition(old, new) ==
    \/ new = "connected" /\ old = "connecting"
    \/ new = "disconnected" /\ old = "disconnecting"
    \/ new = "disconnecting" /\ old \in {"connected", "connecting"}

Disconnect(x) ==
    [x EXCEPT !.grabbed = FALSE,
              !.recv    = FALSE,
              !.ready   = IF @ \in {"connecting", "open"} THEN "closing" ELSE @]

\* Faulty variant: any state may follow any other.
UpdateConnectionStateUnguarded(x, new) ==
    LET y == [x EXCEPT !.conn = new, !.timer = FALSE] IN
    CASE new = "connected"     -> [y EXCEPT !.told = Append(@, "connect")]
      [] new = "disconnecting" -> [Disconnect(y) EXCEPT !.timer = TRUE]
      [] new = "disconnected"  -> [y EXCEPT !.told = Append(@, "disconnect")]

\* Faulty variant: _disconnect is not called.
UpdateConnectionStateSocketKept(x, new) ==
    IF ~Transition(x.conn, new) THEN x
    ELSE LET y == [x EXCEPT !.conn = new, !.timer = FALSE] IN
         CASE new = "connected"     -> [y EXCEPT !.told = Append(@, "connect")]
           [] new = "disconnecting" -> [y EXCEPT !.timer = TRUE]
           [] new = "disconnected"  -> [y EXCEPT !.told = Append(@, "disconnect")]

\* A transition clears the timer and with it the 'close' handler; "disconnecting" sets it anew.
UpdateConnectionState(x, new) ==
    IF ~Transition(x.conn, new) THEN x
    ELSE LET y == [x EXCEPT !.conn    = new,
                            !.onclose = @ /\ ~(x.timer /\ new # "disconnecting"),
                            !.timer   = @ /\ new = "disconnecting"]
         IN CASE new = "connected"     -> [y EXCEPT !.told = Append(@, "connect")]
              [] new = "disconnecting" -> [Disconnect(y) EXCEPT !.timer = TRUE]
              [] new = "disconnected"  -> [y EXCEPT !.told = Append(@, "disconnect")]

Ended(x) == UpdateConnectionState(UpdateConnectionState(x, "disconnecting"), "disconnected")
Fail(x)  == Ended([x EXCEPT !.clean = FALSE])

-----------------------------------------------------------------------------
(* The handshake.  A negotiation is a step of _initMsg; Return says whether *)
(* the loop of _handleMessage calls it again.                              *)

HInit == [init   |-> "",       \* _rfbInitState
          scheme |-> "",       \* _rfbAuthScheme
          ver    |-> "",       \* _rfbVersion
          tight  |-> FALSE,    \* _rfbTightVNC
          ven    |-> 0,        \* _rfbVeNCryptState
          ra2    |-> "",       \* where negotiateRA2neAuthAsync awaits; "" is no object
          go     |-> FALSE,    \* ... and whether what it awaits is there
          ard    |-> "",       \* "": params wanted, "working", "ready", "sent"
          creds  |-> FALSE,    \* _rfbCredentials hold what the scheme asks for
          rq     |-> <<>>,     \* receive queue of Websock
          resume |-> 0]        \* _initMsg calls waiting in a setTimeout

Return(more) == loop' = IF loop = "init" /\ more /\ c'.conn = "connecting" THEN "init" ELSE "idle"
Calls(state) == loop \in {"init", "once"} /\ h.init = state
Quiet        == UNCHANGED <<c, wire, ui, msgs>>

\* What the server sends after a client's message; nothing arrives when the channel is not open.
Results == {Unit("ok")} \cup (IF h.ver = "3.8" THEN {Unit("refused") \o Unit("reason")} ELSE {Unit("refused")})
Openings(scheme) ==
    CASE scheme = "none"     -> IF h.ver = "3.8" THEN Results ELSE {<<>>}
      [] scheme = "vnc"      -> {Unit("challenge")}
      [] scheme = "ard"      -> {Unit("params")}
      [] scheme = "mslogon"  -> {Unit("params")}
      [] scheme = "ra2"      -> {Unit("key"), Unit("badkey")}
      [] scheme = "vencrypt" -> {Unit("version"), Unit("badversion")}
      [] scheme = "tight"    -> {Unit("tunnel"), Unit("othertunnels")}
                                  \cup {Unit("notunnels") \o Unit(m) : m \in {"empty", "none", "vnc", "unix", "others"}}
      [] OTHER               -> {<<>>}     \* plain, xvp, unix: the client speaks
Sends(answers) == \E a \in answers : wire' = IF c.ready = "open" THEN wire \o a ELSE wire
FailsWith(x) == /\ c' = Fail(c) /\ h' = x /\ Return(FALSE) /\ UNCHANGED <<wire, ui, msgs>>

\* Not the whole message yet; goback leaves the queue as it was.
Waits == ~Whole /\ Return(FALSE) /\ UNCHANGED h /\ Quiet

Securities(ver) ==
    LET reason == Unit("0") \o Unit("reason")
    IN {Unit(s) : s \in Schemes} \cup {reason}

\* undefined is returned: the loop ends although more data may be there.
NegotiateProtocolVersion ==
    /\ Calls("ProtocolVersion")
    /\ \/ Waits
       \/ /\ Whole /\ HeadMsg = "bad"
          /\ FailsWith([h EXCEPT !.rq = Rest])
       \/ /\ Whole /\ HeadMsg = "repeater"
          /\ h' = [h EXCEPT !.rq = Rest]
          /\ UNCHANGED <<c, ui, msgs>>
          /\ Sends({Unit(v) : v \in Versions \ {"repeater"}})
          /\ Return(TRUE)
       \/ /\ Whole /\ HeadMsg \notin {"bad", "repeater"}
          /\ h' = [h EXCEPT !.rq = Rest, !.ver = HeadMsg, !.init = "Security"]
          /\ UNCHANGED <<c, ui, msgs>>
          /\ Sends(Securities(HeadMsg))
          /\ Return(FALSE)

NegotiateSecurity ==
    /\ Calls("Security")
    /\ \/ Waits
       \/ /\ Whole /\ HeadMsg = "0"
          /\ h' = [h EXCEPT !.rq = Rest, !.init = "SecurityReason"]
          /\ Quiet /\ Return(TRUE)
       \/ /\ Whole /\ HeadMsg = "unsupported" /\ h.ver # "3.3"
          /\ FailsWith([h EXCEPT !.rq = Rest])
       \/ /\ Whole /\ HeadMsg # "0" /\ (HeadMsg # "unsupported" \/ h.ver = "3.3")
          /\ h' = [h EXCEPT !.rq = Rest, !.scheme = HeadMsg, !.init = "Authentication"]
          /\ UNCHANGED <<c, ui, msgs>>
          /\ Sends(Openings(HeadMsg))
          /\ Return(TRUE)

\* The securityfailure event, then _fail.
HandleSecurityReason ==
    /\ Calls("SecurityReason")
    /\ Waits \/ (Whole /\ FailsWith([h EXCEPT !.rq = Rest]))

Auth(scheme) == Calls("Authentication") /\ h.scheme = scheme

\* dispatchEvent("credentialsrequired") when something of the credentials is missing.
AsksCredentials ==
    /\ ~h.creds
    /\ ui' = ui \cup {"credentials"}
    /\ Return(FALSE)
    /\ UNCHANGED <<c, h, wire, msgs>>

\* The credentials, or what is computed from them, are sent.
Answered(x) ==
    /\ h' = [x EXCEPT !.init = "SecurityResult"]
    /\ UNCHANGED <<c, ui, msgs>>
    /\ Sends(Results)
    /\ Return(TRUE)

NegotiateNone ==
    /\ Auth("none")
    /\ h' = [h EXCEPT !.init = IF h.ver = "3.8" THEN "SecurityResult" ELSE "ClientInitialisation"]
    /\ Quiet /\ Return(TRUE)

\* The scheme becomes VNCAuth and is negotiated in the same call.
NegotiateXvpAuth ==
    /\ Auth("xvp")
    /\ \/ AsksCredentials
       \/ /\ h.creds
          /\ h' = [h EXCEPT !.scheme = "vnc"]
          /\ UNCHANGED <<c, loop, ui, msgs>>
          /\ Sends({Unit("challenge")})

NegotiatePlainAuth ==                     \* and _negotiateTightUnixAuth
    /\ Auth("plain") \/ Auth("unix")
    /\ AsksCredentials \/ (h.creds /\ Answered(h))

\* The challenge, or the parameters, are waited for first: _negotiateStdVNCAuth, MSLogonII.
NegotiateChallenge ==
    /\ Auth("vnc") \/ Auth("mslogon")
    /\ Waits \/ (Whole /\ AsksCredentials) \/ (Whole /\ h.creds /\ Answered([h EXCEPT !.rq = Rest]))

\* Once "ready", the answer is sent; the parameters are read when it is not.
NegotiateARDAuth ==
    /\ Auth("ard")
    /\ \/ AsksCredentials
       \/ /\ h.creds /\ h.ard = "ready"
          /\ Answered([h EXCEPT !.ard = "sent"])
       \/ h.creds /\ h.ard # "ready" /\ Waits
       \/ /\ h.creds /\ h.ard # "ready" /\ Whole
          /\ h' = [h EXCEPT !.rq = Rest, !.ard = "working"]
          /\ Quiet /\ Return(FALSE)

\* The first pass of _negotiateTightAuth reads the tunnels, the second the sub-auth types.
NegotiateTightTunnels ==
    /\ Auth("tight") /\ ~h.tight
    /\ \/ Waits
       \/ /\ Whole /\ HeadMsg = "notunnels"      \* falls through to the second pass
          /\ h' = [h EXCEPT !.rq = Rest, !.tight = TRUE]
          /\ UNCHANGED loop /\ Quiet
       \/ /\ Whole /\ HeadMsg = "tunnel"
          /\ h' = [h EXCEPT !.rq = Rest, !.tight = TRUE]
          /\ UNCHANGED <<c, ui, msgs>>
          /\ Sends({Unit(m) : m \in {"empty", "none", "vnc", "unix", "others"}})
          /\ Return(FALSE)
       \/ /\ Whole /\ HeadMsg = "othertunnels"
          /\ FailsWith([h EXCEPT !.rq = Rest, !.tight = TRUE])

NegotiateTightSubAuth ==
    /\ Auth("tight") /\ h.tight
    /\ \/ Waits
       \/ /\ Whole /\ HeadMsg \in {"empty", "none"}
          /\ h' = [h EXCEPT !.rq = Rest, !.init = "SecurityResult"]
          /\ UNCHANGED <<c, ui, msgs>>
          /\ Sends(Results)
          /\ Return(TRUE)
       \/ /\ Whole /\ HeadMsg \in {"vnc", "unix"}
          /\ h' = [h EXCEPT !.rq = Rest, !.scheme = HeadMsg]
          /\ UNCHANGED <<c, ui, msgs>>
          /\ Sends(Openings(HeadMsg))
          /\ Return(TRUE)
       \/ /\ Whole /\ HeadMsg = "others"
          /\ FailsWith([h EXCEPT !.rq = Rest])

\* One step per _rfbVeNCryptState; the code falls through from each to the next.
VeNCryptAnswers == {Unit("refuses")} \cup {Unit("ack") \o Unit(m) : m \in {"empty", "others", "plain", "vnc", "none"}}
VeNCryptSteps(n) ==
    /\ h' = [h EXCEPT !.rq = Rest, !.ven = n + 1]
    /\ UNCHANGED <<c, loop, ui, msgs>>
    /\ Sends(IF n = 0 THEN VeNCryptAnswers ELSE {<<>>})

NegotiateVeNCryptAuth ==
    /\ Auth("vencrypt")
    /\ \/ Waits
       \/ Whole /\ HeadMsg = "version" /\ VeNCryptSteps(0)
       \/ Whole /\ HeadMsg = "ack" /\ VeNCryptSteps(1)
       \/ Whole /\ HeadMsg \in {"badversion", "refuses", "empty", "others"} /\ FailsWith([h EXCEPT !.rq = Rest])
       \/ /\ Whole /\ h.ven = 2 /\ HeadMsg \in {"plain", "vnc", "none"}
          /\ h' = [h EXCEPT !.rq = Rest, !.ven = 4, !.scheme = HeadMsg]
          /\ UNCHANGED <<c, ui, msgs>>
          /\ Sends(Openings(HeadMsg))
          /\ Return(TRUE)

UnsupportedScheme == Auth("unsupported") /\ FailsWith(h)

HandleSecurityResult ==
    /\ Calls("SecurityResult")
    /\ \/ Waits
       \/ /\ Whole /\ HeadMsg = "ok"
          /\ h' = [h EXCEPT !.rq = Rest, !.init = "ClientInitialisation"]
          /\ Quiet /\ Return(TRUE)
       \/ /\ Whole /\ HeadMsg # "ok" /\ h.ver = "3.8"
          /\ h' = [h EXCEPT !.rq = Rest, !.init = "SecurityReason"]
          /\ Quiet /\ Return(TRUE)
       \/ /\ Whole /\ HeadMsg # "ok" /\ h.ver # "3.8"      \* securityfailure event
          /\ FailsWith([h EXCEPT !.rq = Rest])

ClientInitialisation ==
    /\ Calls("ClientInitialisation")
    /\ h' = [h EXCEPT !.init = "ServerInitialisation"]
    /\ UNCHANGED <<c, ui, msgs>>
    /\ Sends({Unit("server") \o (IF h.tight THEN Unit("extension") ELSE <<>>)})
    /\ Return(TRUE)

\* What no step reads once the session is connected is dropped from h.
Negotiated(x) == [HInit EXCEPT !.init = x.init, !.tight = x.tight, !.rq = x.rq, !.resume = x.resume]

\* With TightVNC the extension must have come too, or everything is put back.
NegotiateServerInit ==
    LET size == IF h.tight THEN 4 ELSE 2
        read == [h EXCEPT !.rq = SubSeq(@, size + 1, Len(@))]
    IN
    /\ Calls("ServerInitialisation")
    /\ \/ Len(h.rq) < size /\ Return(FALSE) /\ UNCHANGED h /\ Quiet
       \/ /\ Len(h.rq) >= size
          /\ c' = UpdateConnectionState([c EXCEPT !.grabbed = TRUE], "connected")
          /\ h' = Negotiated(read)
          /\ Return(TRUE)
          /\ UNCHANGED <<wire, ui, msgs>>

-----------------------------------------------------------------------------
(* RSAAESAuthenticationState.  ra2 is the place of the pending await; go is *)
(* set when the promise it waits for is resolved.                          *)

Awaits(x, at) ==
    [x EXCEPT !.ra2 = at,
              !.go  = CASE at \in {"hash", "subtype", "keyrest"} -> Len(x.rq) >= 2
                        [] at \in {"key", "random"}              -> Len(x.rq) >= 1
                        [] at = "creds"                          -> x.creds
                        [] at = "approve"                        -> FALSE
                        [] OTHER                                 -> TRUE]     \* crypto: resolves by itself

\* Faulty variant: data that comes while the negotiation waits is not looked at.
CheckInternalEventsOnce(x) == x

\* checkInternalEvents: data or credentials may have come.
CheckInternalEvents(x) == IF x.ra2 \in {"", "approve"} \/ x.go THEN x ELSE Awaits(x, x.ra2)

\* The first call makes the object and starts the negotiation; later ones only look for events.
NegotiateRA2neAuth ==
    /\ Auth("ra2")
    /\ h' = IF h.ra2 = "" THEN Awaits(h, "key") ELSE CheckInternalEvents(h)
    /\ Quiet /\ Return(FALSE)

\* .then and .finally run after success and after failure alike.
Settled(x) == [x EXCEPT !.init = "SecurityResult", !.ra2 = "", !.go = FALSE]

RA2Goes(at) == loop = "idle" /\ h.ra2 = at /\ h.go
RA2Throws == c' = Fail(c) /\ h' = Settled(h) /\ UNCHANGED <<loop, wire, ui, msgs>>

RA2Key ==
    /\ RA2Goes("key")
    /\ \/ HeadMsg = "badkey" /\ RA2Throws
       \/ HeadMsg # "badkey" /\ h' = Awaits(h, "keyrest") /\ UNCHANGED loop /\ Quiet

\* The key is there: the user is asked; the promise exists before the event.
RA2Verify ==
    /\ RA2Goes("keyrest")
    /\ h' = Awaits([h EXCEPT !.rq = Rest], "approve")
    /\ ui' = ui \cup {"server"}
    /\ UNCHANGED <<c, loop, wire, msgs>>

\* After approval: the client's key and random go out (two awaits, one step).
RA2SendKey ==
    /\ RA2Goes("generate")
    /\ h' = Awaits(h, "random")
    /\ UNCHANGED <<c, loop, ui, msgs>>
    /\ Sends({Unit("random")})

RA2Approved ==
    /\ RA2Goes("approved")
    /\ h' = Awaits(h, "generate")
    /\ UNCHANGED loop /\ Quiet

\* Two bytes are waited for, and the message read: if the rest of it has not come, what is read is not the message.
RA2Random ==
    /\ RA2Goes("random")
    /\ \/ ~Whole /\ RA2Throws
       \/ Whole /\ h' = Awaits([h EXCEPT !.rq = Rest], "ciphers") /\ UNCHANGED loop /\ Quiet

RA2SendHash ==
    /\ RA2Goes("ciphers")
    /\ h' = Awaits(h, "hash")
    /\ UNCHANGED <<c, loop, ui, msgs>>
    /\ Sends({Unit(m) \o Unit("subtype") : m \in {"hash", "badhash"}})

RA2Hash ==
    /\ RA2Goes("hash")
    /\ \/ HeadMsg = "badhash" /\ RA2Throws
       \/ HeadMsg # "badhash" /\ h' = Awaits([h EXCEPT !.rq = Rest], "subtype") /\ UNCHANGED loop /\ Quiet

RA2Subtype ==
    /\ RA2Goes("subtype")
    /\ h' = Awaits([h EXCEPT !.rq = Rest], "decrypt")
    /\ UNCHANGED loop /\ Quiet

\* The wait is registered, then the event is dispatched.
RA2AskCredentials ==
    /\ RA2Goes("decrypt")
    /\ h' = Awaits(h, "creds")
    /\ ui' = IF h.creds THEN ui ELSE ui \cup {"credentials"}
    /\ UNCHANGED <<c, loop, wire, msgs>>

RA2SendCredentials ==
    /\ RA2Goes("creds")
    /\ h' = Settled(h)
    /\ UNCHANGED <<c, loop, ui, msgs>>
    /\ Sends(Results)

RA2 == \/ RA2Key \/ RA2Verify \/ RA2Approved \/ RA2SendKey \/ RA2Random \/ RA2SendHash \/ RA2Hash
       \/ RA2Subtype \/ RA2AskCredentials \/ RA2SendCredentials

-----------------------------------------------------------------------------
(* Events of the channel, of timers, and calls of the page. *)

Idle == loop = "idle"

\* onopen; the handler is off once the page has called disconnect().
SocketOpen ==
    /\ Idle /\ c.ready = "connecting"
    /\ c' = [c EXCEPT !.ready = "open"]
    /\ h' = [h EXCEPT !.init = "ProtocolVersion"]
    /\ \E v \in Versions : wire' = Unit(v)
    /\ UNCHANGED <<loop, ui, msgs>>

\* onclose, at most once; a server that goes away, or the end of a close.
ClosedBy(x) ==
    IF ~x.onclose THEN x
    ELSE [(IF x.conn \in {"connecting", "disconnected"} THEN Fail(x) ELSE Ended(x)) EXCEPT !.onclose = FALSE]
SocketClose ==
    /\ Idle /\ c.ready # "closed"
    /\ c' = ClosedBy([c EXCEPT !.ready = "closed"])
    /\ UNCHANGED <<h, loop, wire, ui, msgs>>

\* The three seconds of _disconnTimer.
DisconnectTimeout ==
    /\ Idle /\ c.timer
    /\ c' = UpdateConnectionState(c, "disconnected")
    /\ UNCHANGED <<h, loop, wire, ui, msgs>>

\* _recvMessage with a chunk of any length, then _handleMessage.
Receive ==
    /\ Idle /\ c.recv /\ c.ready = "open"
    /\ \E n \in 1..Len(wire) :
         /\ h' = [h EXCEPT !.rq = @ \o SubSeq(wire, 1, n)]
         /\ wire' = SubSeq(wire, n + 1, Len(wire))
    /\ loop' = CASE c.conn = "connecting" -> "init"
                 [] c.conn = "connected"  -> "normal"
                 [] OTHER                 -> "idle"
    /\ UNCHANGED <<c, ui, msgs>>

\* The loop of a connected session does not look at the connection state again: a message of an
\* unknown type fails the session and the next one is handled all the same.
NormalMsg ==
    /\ loop = "normal"
    /\ \/ ~Whole /\ loop' = "idle" /\ UNCHANGED <<c, h>>
       \/ /\ Whole
          /\ c' = IF HeadMsg = "unknown" THEN Fail(c) ELSE c
          /\ h' = [h EXCEPT !.rq = Rest]
          /\ loop' = IF Rest = <<>> THEN "idle" ELSE "normal"
    /\ UNCHANGED <<wire, ui, msgs>>

\* The server of a running session speaks when it likes.
Speaks(m) ==
    /\ Idle /\ c.conn = "connected" /\ c.ready = "open"
    /\ wire' = wire \o Unit(m)
    /\ UNCHANGED <<c, h, loop, ui>>
ServerSpeaks ==
    /\ msgs < MaxMsgs /\ msgs' = msgs + 1
    /\ \E m \in {"bell", "unknown"} : Speaks(m)

\* The timer of _resumeAuthentication: one call of _initMsg, whatever the state is by then.
ResumeAuthentication ==
    /\ Idle /\ h.resume > 0
    /\ h' = [h EXCEPT !.resume = @ - 1]
    /\ loop' = "once"
    /\ Quiet

\* sendCredentials with all that was asked for.
SendCredentials ==
    /\ Idle /\ "credentials" \in ui
    /\ h' = [h EXCEPT !.creds = TRUE, !.resume = @ + 1]
    /\ ui' = ui \ {"credentials"}
    /\ UNCHANGED <<c, loop, wire, msgs>>

ApproveServer ==
    /\ Idle /\ "server" \in ui
    /\ ui' = ui \ {"server"}
    /\ h' = IF h.ra2 = "approve" THEN Awaits(h, "approved") ELSE h
    /\ UNCHANGED <<c, loop, wire, msgs>>

\* The public disconnect(); RA2's pending wait for data, credentials or approval is rejected.
DisconnectCall ==
    /\ Idle
    /\ c' = UpdateConnectionState(c, "disconnecting")
    /\ h' = IF h.ra2 \in {"key", "keyrest", "random", "hash", "subtype", "creds", "approve"} /\ ~h.go
            THEN Settled(h) ELSE h
    /\ UNCHANGED <<loop, wire, ui, msgs>>

\* The digest, the key and the cipher of _negotiateARDAuthAsync.
ARDAuthAsync ==
    /\ Idle /\ h.ard = "working"
    /\ h' = [h EXCEPT !.ard = "ready", !.resume = @ + 1]
    /\ UNCHANGED loop /\ Quiet

InitMsg ==
    \/ NegotiateProtocolVersion \/ NegotiateSecurity \/ HandleSecurityReason \/ NegotiateNone
    \/ NegotiateXvpAuth \/ NegotiatePlainAuth \/ NegotiateChallenge \/ NegotiateARDAuth
    \/ NegotiateTightTunnels \/ NegotiateTightSubAuth \/ NegotiateVeNCryptAuth \/ NegotiateRA2neAuth
    \/ UnsupportedScheme \/ HandleSecurityResult \/ ClientInitialisation \/ NegotiateServerInit

Init ==
    /\ c = CInit
    /\ \E given \in BOOLEAN : h = [HInit EXCEPT !.creds = given]
    /\ loop = "idle" /\ wire = <<>> /\ ui = {} /\ msgs = 0

Next ==
    \/ InitMsg \/ NormalMsg \/ RA2 \/ SocketOpen \/ SocketClose \/ DisconnectTimeout \/ Receive
    \/ ServerSpeaks \/ ResumeAuthentication \/ SendCredentials \/ ApproveServer \/ DisconnectCall
    \/ ARDAuthAsync

\* Handlers run, timers and promises fire, and the user and the channel answer; the socket need not
\* report its close, and nobody need disconnect.
Fairness ==
    /\ WF_vars(InitMsg \/ NormalMsg) /\ WF_vars(RA2) /\ WF_vars(DisconnectTimeout)
    /\ WF_vars(ResumeAuthentication) /\ WF_vars(ARDAuthAsync)
    /\ WF_vars(SocketOpen) /\ WF_vars(Receive) /\ WF_vars(SendCredentials) /\ WF_vars(ApproveServer)

Spec == Init /\ [][Next]_vars /\ Fairness
-----------------------------------------------------------------------------
\* The page is told of a connection at most once, of its end at most once, and nothing comes after
\* the end: the events follow the states of the documentation comment ("disconnected - permanent").
Announced ==
    /\ c.conn = "connecting"    => c.told = <<>>
    /\ c.conn = "connected"     => c.told = <<"connect">>
    /\ c.conn = "disconnecting" => c.told \in {<<>>, <<"connect">>}
    /\ c.conn = "disconnected"  => c.told \in {<<"disconnect">>, <<"connect", "disconnect">>}

\* A session that is over has let go of everything: no bytes are taken from the channel, the channel
\* is closed or closing, the keyboard belongs to the page again, and no timer stays behind the end.
EndedLetsGo ==
    /\ c.conn \in {"disconnecting", "disconnected"} =>
          ~c.recv /\ c.ready \in {"closing", "closed"} /\ ~c.grabbed
    /\ c.timer <=> c.conn = "disconnecting"

\* With a server and a user who answer, a handshake ends: no await, prompt or half message leaves the
\* session connecting for ever, however the channel cuts the messages.
HandshakeSettles == c.conn = "connecting" ~> c.conn # "connecting"
=============================================================================
