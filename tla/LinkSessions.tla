---------------------------- MODULE LinkSessions ----------------------------
(***************************************************************************)
(* The sessions between two routers: the outbound link layer of one, which *)
(* dials, and the inbound link layer of the other (link/server.cpp,        *)
(* iwp/linklayer.cpp), with the handshake of iwp/session.cpp.              *)
(*                                                                         *)
(*   out: Intro ->   in: IntroAck ->   out: SessionRequest ->              *)
(*   in: LIM ->      out: its LIM, Ready once that is acknowledged         *)
(*                                                                         *)
(* Each layer keeps three maps; as each has one peer here, a map is the    *)
(* session it holds for that peer, or NoSession.  A session key is named   *)
(* by the attempt whose Intro carried its nonce; 0 is the key both sides   *)
(* derive from the public key of the inbound router.                       *)
(*                                                                         *)
(* A tick is PingInterval, 5 s.  Packets in flight live less than that,    *)
(* and so does the delivery of a LIM (DeliveryTimeout, 500 ms); within a   *)
(* tick the network loses, repeats and reorders them.  A packet goes over  *)
(* a worker to HandlePlaintext in one step: a session that is dropped      *)
(* meanwhile has heard nothing for its alive timeout, so its LIM is not    *)
(* outstanding and the packet is as good as lost.                          *)
(***************************************************************************)
EXTENDS Integers, Sequences

CONSTANTS ConnectTimeout,   \* LinkLayerConnectTimeout, in ticks
          AliveTimeout,     \* per side: how long TimedOut waits for a packet, in ticks
          MaxAttempts,      \* bound: calls of TryEstablishTo
          MaxCalls       \* bound: calls of CloseSessionTo and RenegotiateSession, restarts

Sides == {"out", "in"}

ASSUME LinkAssumption ==
  /\ ConnectTimeout \in Nat \ {0} /\ MaxAttempts \in Nat /\ MaxCalls \in Nat
  /\ AliveTimeout \in [Sides -> Nat \ {0}]

VARIABLES pending,      \* m_Pending
          authedLinks,  \* m_AuthedLinks
          authedAddrs,  \* m_AuthedAddrs: is the address of the peer in it?
          net,          \* packets in flight
          attempts,     \* calls of TryEstablishTo that dialled
          reports,      \* what the router was told of each attempt
          pumped,       \* the sides whose Pump and Tick ran in this tick
          calls      \* counts what MaxCalls bounds

vars == <<pending, authedLinks, authedAddrs, net, attempts, reports, pumped, calls>>
maps == <<pending, authedLinks, authedAddrs>>

Keys == 1 .. MaxAttempts
Peer(s) == CHOOSE o \in Sides : o # s

NoSession == [state |-> "none"]

\* created and lastRX are ages.  gotLIM: GotLIM points at GotRenegLIM.  limSent: our
\* LIM awaits its acknowledgement.  seen: the peer's LIM is in the replay filter.
NewSession(k) ==
  [state |-> "Initial", key |-> k, created |-> 0, lastRX |-> 0,
   gotLIM |-> FALSE, limSent |-> FALSE, seen |-> FALSE]

Packet(to, type, k) == [to |-> to, type |-> type, key |-> k]
Send(packets) == net' = net \cup packets
Older(n, cap) == IF n < cap THEN n + 1 ELSE cap

Init ==
  /\ pending = [s \in Sides |-> NoSession]
  /\ authedLinks = [s \in Sides |-> NoSession]
  /\ authedAddrs = [s \in Sides |-> FALSE]
  /\ net = {}
  /\ attempts = 0
  /\ reports = [k \in Keys |-> <<>>]
  /\ pumped = {}
  /\ calls = 0

-----------------------------------------------------------------------------
(* Dialling *)

\* What TryEstablishTo and PutSession ask first.
MayDial == authedLinks["out"] = NoSession /\ pending["out"] = NoSession

\* TryEstablishTo, which ends with Session::Start and GenerateAndSendIntro.
TryEstablishTo ==
  /\ MayDial /\ attempts < MaxAttempts
  /\ attempts' = attempts + 1
  /\ pending' = [pending EXCEPT
       !["out"] = [NewSession(attempts + 1) EXCEPT !.state = "Introduction"]]
  /\ Send({Packet("in", "Intro", attempts + 1)})
  /\ UNCHANGED <<authedLinks, authedAddrs, reports, pumped, calls>>

-----------------------------------------------------------------------------
(* What a session does to the maps of its layer.  held says which map it is in. *)

Put(s, held, session) ==
  /\ pending' = IF held = "pending" THEN [pending EXCEPT ![s] = session] ELSE pending
  /\ authedLinks' = IF held = "authed" THEN [authedLinks EXCEPT ![s] = session] ELSE authedLinks

\* Session::Close tells the peer; only a Ready session is unmapped.
CLOS(s, session) ==
  IF session.state = "Closed" THEN {} ELSE {Packet(Peer(s), "CLOS", session.key)}
UnmapAddr(s, session) ==
  authedAddrs' = IF session.state = "Ready" THEN [authedAddrs EXCEPT ![s] = FALSE]
                 ELSE authedAddrs

\* The address is mapped although the layer refused the session.
EnterMapsUnchecked(s, session, out) ==
  /\ authedAddrs' = [authedAddrs EXCEPT ![s] = TRUE]
  /\ IF authedLinks[s] = NoSession
     THEN /\ authedLinks' = [authedLinks EXCEPT ![s] = session]
          /\ pending' = [pending EXCEPT ![s] = NoSession]
          /\ Send(out)
     ELSE /\ pending' = [pending EXCEPT ![s] = [session EXCEPT !.state = "Closed"]]
          /\ Send(out \cup CLOS(s, session))
          /\ UNCHANGED authedLinks

\* LinkLayer::MapAddr and ILinkLayer::MapAddr for a session that just became Ready: it
\* moves from m_Pending to m_AuthedLinks; if there is one already, it is closed instead.
EnterMaps(s, session, out) ==
  IF authedLinks[s] = NoSession
  THEN /\ authedLinks' = [authedLinks EXCEPT ![s] = session]
       /\ pending' = [pending EXCEPT ![s] = NoSession]
       /\ authedAddrs' = [authedAddrs EXCEPT ![s] = TRUE]
       /\ Send(out)
  ELSE /\ pending' = [pending EXCEPT ![s] = [session EXCEPT !.state = "Closed"]]
       /\ UnmapAddr(s, session)
       /\ Send(out \cup CLOS(s, session))
       /\ UNCHANGED authedLinks

Report(k, what) == reports' = [reports EXCEPT ![k] = Append(@, what)]

-----------------------------------------------------------------------------
(* Packets.  A packet of another key than the session's does not decrypt. *)

\* The session stays in its initial state.
HandleGotIntroStays(s, p) ==
  /\ p.type = "Intro"
  /\ Put(s, "pending", NewSession(p.key))
  /\ Send({Packet(Peer(s), "IntroAck", p.key)})
  /\ UNCHANGED <<authedAddrs, reports>>

\* HandleGotIntro: the first packet of an inbound session.
HandleGotIntro(s, p) ==
  /\ p.type = "Intro"
  /\ Put(s, "pending", [NewSession(p.key) EXCEPT !.state = "Introduction"])
  /\ Send({Packet(Peer(s), "IntroAck", p.key)})
  /\ UNCHANGED <<authedAddrs, reports>>

\* HandleCreateSessionRequest: the token has to be the one of our IntroAck.  (Of a repeated
\* Intro a later session has the same key but another token, and refuses; here it accepts.)
HandleCreateSessionRequest(s, session, p) ==
  /\ p.type = "SessionRequest" /\ p.key = session.key
  /\ Put(s, "pending", [session EXCEPT !.state = "LinkIntro", !.lastRX = 0, !.limSent = TRUE])
  /\ Send({Packet(Peer(s), "LIM", p.key)})
  /\ UNCHANGED <<authedAddrs, reports>>

\* HandleGotIntroAck takes any packet of the session that is long enough for the answer;
\* a CLOS can be.  The token it then sends back is not one the peer accepts.
HandleGotIntroAck(s, session, p) ==
  /\ p.type \in {"IntroAck", "CLOS"} /\ p.key = session.key
  /\ Put(s, "pending", [session EXCEPT !.state = "LinkIntro", !.lastRX = 0])
  /\ Send(IF p.type = "IntroAck" THEN {Packet(Peer(s), "SessionRequest", p.key)} ELSE {})
  /\ UNCHANGED <<authedAddrs, reports>>

\* A message that was handed up is acknowledged by ACKS, one in the replay filter by MACK.
LIMAck(s, k) == Packet(Peer(s), "ACKS", k)
LIMAckAgain(s, k) == Packet(Peer(s), "MACK", k)

\* GotInboundLIM: Ready, mapped, reported.  GotOutboundLIM: our own LIM follows.
\* GotRenegLIM leaves the session as it is.
GotLIM(s, held, session) ==
  LET heard == [session EXCEPT !.lastRX = 0, !.seen = TRUE, !.gotLIM = TRUE] IN
  /\ \/ /\ ~session.gotLIM /\ s = "in"
        /\ EnterMaps(s, [heard EXCEPT !.state = "Ready"], {LIMAck(s, session.key)})
     \/ /\ ~session.gotLIM /\ s = "out"
        /\ Put(s, held, [heard EXCEPT !.limSent = TRUE])
        /\ Send({LIMAck(s, session.key), Packet(Peer(s), "LIM", session.key)})
        /\ UNCHANGED authedAddrs
     \/ /\ session.gotLIM
        /\ Put(s, held, heard)
        /\ Send({LIMAck(s, session.key)})
        /\ UNCHANGED authedAddrs
  /\ UNCHANGED reports

\* The peer's LIM, or the rest of one the receiver had given up (IwpTransfer, Tick): that
\* is in the replay filter and acknowledged without having been handed up.
HandleLIM(s, held, session) ==
  \/ ~session.seen /\ GotLIM(s, held, session)
  \/ /\ Put(s, held, [session EXCEPT !.lastRX = 0, !.seen = TRUE])
     /\ Send({LIMAckAgain(s, session.key)})
     /\ UNCHANGED <<authedAddrs, reports>>

\* The completion handler stays armed.
HandleLIMAckAgain(s, held, session, p) ==
  LET heard == [session EXCEPT !.lastRX = IF p.type = "ACKS" THEN 0 ELSE @] IN
  IF s = "out" /\ session.limSent
  THEN EnterMaps(s, [heard EXCEPT !.state = "Ready"], {}) /\ Report(session.key, "established")
  ELSE Put(s, held, heard) /\ UNCHANGED <<authedAddrs, net, reports>>

\* HandleACKS, which sets m_LastRX, and HandleMACK, which does not.  If our LIM is what is
\* acknowledged, the completion handler of GotOutboundLIM runs.
HandleLIMAck(s, held, session, p) ==
  LET heard == [session EXCEPT !.lastRX = IF p.type = "ACKS" THEN 0 ELSE @,
                               !.limSent = FALSE]
  IN
  IF s = "out" /\ session.limSent
  THEN EnterMaps(s, [heard EXCEPT !.state = "Ready"], {}) /\ Report(session.key, "established")
  ELSE Put(s, held, heard) /\ UNCHANGED <<authedAddrs, net, reports>>

\* HandleCLOS: we close as well.
HandleCLOS(s, held, session) ==
  /\ Put(s, held, [session EXCEPT !.state = "Closed"])
  /\ UnmapAddr(s, session)
  /\ Send(CLOS(s, session))
  /\ UNCHANGED reports

\* HandleSessionData, DecryptWorker and HandlePlaintext, in LinkIntro and ever after: a
\* closed session that is still in a map handles what arrives like any other.
HandleSessionData(s, held, session, p) ==
  /\ p.key = session.key
  /\ \/ p.type = "LIM" /\ HandleLIM(s, held, session)
     \/ p.type \in {"ACKS", "MACK"} /\ HandleLIMAck(s, held, session, p)
     \/ p.type = "CLOS" /\ HandleCLOS(s, held, session)

\* Session::Recv_LL
Recv_LL(s, held, session, p) ==
  \/ session.state = "Introduction" /\ s = "in" /\ HandleCreateSessionRequest(s, session, p)
  \/ session.state = "Introduction" /\ s = "out" /\ HandleGotIntroAck(s, session, p)
  \/ session.state \in {"LinkIntro", "Ready", "Closed"} /\ HandleSessionData(s, held, session, p)

\* LinkLayer::RecvFrom.  A new inbound session that cannot make sense of its first
\* packet is dropped again.
RecvFrom(p) ==
  LET s == p.to IN
  /\ \/ authedAddrs[s] /\ authedLinks[s] # NoSession /\ Recv_LL(s, "authed", authedLinks[s], p)
     \/ ~authedAddrs[s] /\ pending[s] # NoSession /\ Recv_LL(s, "pending", pending[s], p)
     \/ ~authedAddrs[s] /\ pending[s] = NoSession /\ s = "in" /\ HandleGotIntro(s, p)
  /\ UNCHANGED <<attempts, pumped, calls>>

-----------------------------------------------------------------------------
(* Keepalives and ordinary messages.  All they do here is set m_LastRX, which *)
(* is the same at any moment of a tick: they arrive at once or not at all.    *)

\* The session of key k that s has in this map, if any, has heard a packet.
Refreshed(map, s, k) ==
  IF map[s] # NoSession /\ map[s].state # "Introduction" /\ map[s].key = k
  THEN [map EXCEPT ![s].lastRX = 0] ELSE map

\* SendMessageBuffer: a Ready session sends a message, as often as it likes.  Its fragments
\* (XMIT, DATA) are handled in LinkIntro as well as in Ready, and what answers them (ACKS,
\* NACK) may be lost.
SendMessageBuffer(s) ==
  LET k == authedLinks[s].key IN
  /\ authedLinks[s].state = "Ready"
  /\ pending' = Refreshed(pending, Peer(s), k)
  /\ \/ authedLinks' = Refreshed(authedLinks, Peer(s), k)
     \/ /\ \E x \in {pending[Peer(s)], authedLinks[Peer(s)]} : x # NoSession /\ x.key = k
        /\ authedLinks' = Refreshed(Refreshed(authedLinks, Peer(s), k), s, k)
  /\ UNCHANGED <<authedAddrs, net, attempts, reports, pumped, calls>>

-----------------------------------------------------------------------------
(* Timers, closing and restarts *)

\* Only an unfinished handshake times out.
TimedOutUnlessReady(s, session) ==
  session # NoSession /\ session.state # "Ready" /\ session.created >= ConnectTimeout

\* Session::TimedOut
TimedOut(s, session) ==
  /\ session # NoSession
  /\ IF session.state \in {"Ready", "LinkIntro"} THEN session.lastRX > AliveTimeout[s]
     ELSE session.created >= ConnectTimeout

\* HandleTimeout is not called for a session that timed out.
ReportTimeoutNever(s) == reports' = reports

\* HandleTimeout, for a pending session we dialled.
ReportTimeout(s) ==
  IF s = "out" /\ TimedOut(s, pending[s]) THEN Report(pending[s].key, "timeout")
  ELSE UNCHANGED reports

\* ILinkLayer::Pump: a session that timed out is closed if it was established, and just
\* dropped if it was pending.  A Ready session that stays sends its keepalive.
Pump(s) ==
  LET dead == TimedOut(s, authedLinks[s])
      links == IF dead THEN [authedLinks EXCEPT ![s] = NoSession] ELSE authedLinks
      waiting == IF TimedOut(s, pending[s]) THEN [pending EXCEPT ![s] = NoSession] ELSE pending
  IN
  /\ s \notin pumped
  /\ pumped' = pumped \cup {s}
  /\ IF dead THEN UnmapAddr(s, authedLinks[s]) ELSE UNCHANGED authedAddrs
  /\ Send(IF dead THEN CLOS(s, authedLinks[s]) ELSE {})
  /\ \/ authedLinks' = links /\ pending' = waiting
     \/ /\ links[s] # NoSession /\ links[s].state = "Ready"
        /\ authedLinks' = Refreshed(links, Peer(s), links[s].key)
        /\ pending' = Refreshed(waiting, Peer(s), links[s].key)
  /\ ReportTimeout(s)
  /\ UNCHANGED <<attempts, calls>>

\* The delivery timeout and the replay window are shorter than a tick.
Aged(s, session) ==
  IF session = NoSession THEN NoSession
  ELSE [session EXCEPT !.created = Older(@, ConnectTimeout), !.lastRX = Older(@, AliveTimeout[s] + 1),
                       !.limSent = FALSE, !.seen = FALSE]

TimePasses ==
  /\ pumped = Sides
  /\ pumped' = {}
  /\ pending' = [s \in Sides |-> Aged(s, pending[s])]
  /\ authedLinks' = [s \in Sides |-> Aged(s, authedLinks[s])]
  /\ net' = {}
  /\ UNCHANGED <<authedAddrs, attempts, reports, calls>>

\* RenegotiateSession: our RC changed and the peer is sent a new LIM.
RenegotiateSession(s) ==
  /\ authedLinks[s].state = "Ready" /\ calls < MaxCalls
  /\ calls' = calls + 1
  /\ Send({Packet(Peer(s), "LIM", authedLinks[s].key)})
  /\ UNCHANGED <<maps, attempts, reports, pumped>>

\* ILinkLayer::CloseSessionTo: closed and erased at once.
CloseSessionTo(s) ==
  /\ authedLinks[s] # NoSession /\ calls < MaxCalls
  /\ calls' = calls + 1
  /\ authedLinks' = [authedLinks EXCEPT ![s] = NoSession]
  /\ UnmapAddr(s, authedLinks[s])
  /\ Send(CLOS(s, authedLinks[s]))
  /\ UNCHANGED <<pending, attempts, reports, pumped>>

\* The router stops (ILinkLayer::Stop closes every session) or crashes, and starts anew.
Restart(s) ==
  /\ calls < MaxCalls
  /\ calls' = calls + 1
  /\ \/ Send(UNION {CLOS(s, x) : x \in {pending[s], authedLinks[s]} \ {NoSession}})
     \/ UNCHANGED net
  /\ pending' = [pending EXCEPT ![s] = NoSession]
  /\ authedLinks' = [authedLinks EXCEPT ![s] = NoSession]
  /\ authedAddrs' = [authedAddrs EXCEPT ![s] = FALSE]
  /\ IF s = "out" /\ pending[s] # NoSession THEN Report(pending[s].key, "lost")
     ELSE UNCHANGED reports
  /\ UNCHANGED <<attempts, pumped>>

Next ==
  \/ TryEstablishTo
  \/ \E p \in net : RecvFrom(p)
  \/ \E s \in Sides : \/ Pump(s) \/ SendMessageBuffer(s) \/ RenegotiateSession(s)
                      \/ CloseSessionTo(s) \/ Restart(s)
  \/ TimePasses

Spec == Init /\ [][Next]_vars

\* Clocks run and both event loops turn; the network owes nothing.
FairSpec == Spec /\ WF_vars(TimePasses) /\ \A s \in Sides : WF_vars(Pump(s))

-----------------------------------------------------------------------------
(* Properties *)

Session ==
  [state : {"Introduction", "LinkIntro", "Ready", "Closed"}, key : Keys,
   created : 0 .. ConnectTimeout, lastRX : Nat, gotLIM : BOOLEAN, limSent : BOOLEAN,
   seen : BOOLEAN]

\* The values the variables take.
LinkTypeOK ==
  /\ {pending[s] : s \in Sides} \cup {authedLinks[s] : s \in Sides} \subseteq
       Session \cup {NoSession}
  /\ authedAddrs \in [Sides -> BOOLEAN]
  /\ attempts \in 0 .. MaxAttempts

\* RecvFrom looks an address up in m_AuthedAddrs and drops the packet if m_AuthedLinks
\* has no session for it: an address is mapped exactly while m_AuthedLinks holds a Ready
\* session, and no Ready session is left in m_Pending, where its address cannot find it.
MapsAgree ==
  \A s \in Sides :
    /\ authedAddrs[s] <=> authedLinks[s].state = "Ready"
    /\ pending[s].state # "Ready"

\* The router hears once of every attempt it made, established or timed out; the session
\* maker finalizes the request on each report.
OneReport == \A k \in Keys : Len(reports[k]) <= 1

Unreported(k) == attempts >= k /\ reports[k] = <<>>

\* A message of the peer arrives at the session that is being dialled.
KeptAlive ==
  /\ SendMessageBuffer("in")
  /\ pending["out"] # NoSession /\ pending["out"].key = authedLinks["in"].key

\* Every attempt is reported in the end, also when its packets are lost, its peer closes or
\* restarts, or the acknowledgement of its LIM is lost; with one exception.  In the last
\* case the accepting side is Ready and the dialling one never will be: TimedOut goes by
\* m_LastRX in LinkIntro, so the attempt lasts as long as the peer sends it messages.
\* Keepalives alone do not keep it, as they are not answered.
ReportedUnlessKeptAlive ==
  \A k \in Keys : []<>~Unreported(k) \/ []<><<KeptAlive>>_vars

Holds(s, k) == \E x \in {pending[s], authedLinks[s]} : x # NoSession /\ x.key = k

\* A session whose peer closed, lost or replaced its end does not last: it would hold the
\* address and keep the peer from a new handshake.
HalfOpenEnds ==
  \A s \in Sides, k \in Keys :
    []<>~(Holds(s, k) /\ ~Holds(Peer(s), k))
=============================================================================
