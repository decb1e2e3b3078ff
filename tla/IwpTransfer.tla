---------------------------- MODULE IwpTransfer ----------------------------
(***************************************************************************)
(* Message delivery of an established IWP session (iwp/session.cpp,        *)
(* iwp/message_buffer.cpp), one direction: the sender cuts a message into  *)
(* fragments, the receiver acknowledges them, delivers the message once it *)
(* is whole and remembers it in a replay filter.  The UDP network loses,   *)
(* duplicates, reorders and delays packets.                                *)
(*                                                                         *)
(* Time is counted in link layer ticks (LINK_LAYER_TICK_INTERVAL, 100 ms). *)
(* A timestamp of the code is kept as its age, so that states repeat.      *)
(* HandlePlaintext ends with SendMACK and Pump; so does every action that  *)
(* handles a packet.                                                       *)
(***************************************************************************)
EXTENDS Integers, Sequences, Functions

CONSTANTS Ids,               \* message ids (m_TXID counts up and is not reused)
          MaxFragments,      \* bound: fragments of a message
          DeliveryTimeout,   \* in ticks, as the four below
          ReceiveTimeout,    \* what InboundMessage::IsTimedOut compares with
          ReplayWindow,
          ACKResendInterval,
          TXFlushInterval,
          MaxDelay           \* bound: ticks a packet can spend in the network

ASSUME TransferAssumption ==
  /\ MaxFragments \in Nat \ {0}
  /\ {DeliveryTimeout, ReceiveTimeout, ReplayWindow, ACKResendInterval,
      TXFlushInterval, MaxDelay} \subseteq Nat

VARIABLES txMsgs,      \* m_TXMsgs of the sender, by id
          rxMsgs,      \* m_RXMsgs of the receiver, by id
          replay,      \* m_ReplayFilter: age of each remembered id
          net,         \* the packets in flight, with the age of their youngest copy
          size,        \* fragments of each message; 0 before it is sent
          answers,     \* what the completion handlers were called with
          delivered,   \* how often each message went to HandleMessage
          ticked       \* the sides whose Tick already ran in this tick

vars == <<txMsgs, rxMsgs, replay, net, size, answers, delivered, ticked>>

Fragments == 0 .. MaxFragments - 1
FragmentsOf(id) == 0 .. size[id] - 1
Sides == {"sender", "receiver"}

Packet(cmd, id, arg) == [cmd |-> cmd, id |-> id, arg |-> arg]
XMIT(id) == Packet("XMIT", id, {})
DATA(id, fragments) == {Packet("DATA", id, {f}) : f \in fragments}
ACKS(id, bits) == Packet("ACKS", id, bits)
MACK(id) == Packet("MACK", id, {})
NACK(id) == Packet("NACK", id, {})
ToReceiver == {"XMIT", "DATA"}

Without(f, dropped) == Restrict(f, DOMAIN f \ dropped)
With(f, x, v) == [y \in DOMAIN f \cup {x} |-> IF y = x THEN v ELSE f[y]]
\* A copy in the network may arrive any number of times, or never, until it is too old.
Send(packets) ==
  net' = [p \in DOMAIN net \cup packets |-> IF p \in packets THEN 0 ELSE net[p]]
Older(n, cap) == IF n < cap THEN n + 1 ELSE cap

Init ==
  /\ txMsgs = [x \in {} |-> {}]
  /\ rxMsgs = [x \in {} |-> {}]
  /\ replay = [x \in {} |-> 0]
  /\ net = [p \in {} |-> 0]
  /\ size = [id \in Ids |-> 0]
  /\ answers = [id \in Ids |-> <<>>]
  /\ delivered = [id \in Ids |-> 0]
  /\ ticked = {}

-----------------------------------------------------------------------------
(* The sender *)

\* Pump: what OutboundMessage::FlushUnAcked sends for every message not flushed
\* for TXFlushInterval.  out is what the handler sent before.
DueFlush(msgs) == {id \in DOMAIN msgs : msgs[id].sinceFlush >= TXFlushInterval}
SenderPump(msgs, out) ==
  /\ txMsgs' = [id \in DOMAIN msgs |->
       IF id \in DueFlush(msgs) THEN [msgs[id] EXCEPT !.sinceFlush = 0] ELSE msgs[id]]
  /\ Send(out \cup UNION {DATA(id, FragmentsOf(id) \ msgs[id].acks) : id \in DueFlush(msgs)})

\* SendMessageBuffer, while fewer than MaxSendQueueSize messages are in m_TXMsgs.
\* Fragment 0 counts as acknowledged: it travels in the XMIT.
SendMessageBuffer(id, n) ==
  /\ size[id] = 0
  /\ size' = [size EXCEPT ![id] = n]
  /\ txMsgs' = With(txMsgs, id, [acks |-> {0}, age |-> 0, sinceFlush |-> 0])
  /\ Send({XMIT(id)} \cup DATA(id, 1 .. n - 1))
  /\ UNCHANGED <<rxMsgs, replay, answers, delivered, ticked>>

\* InformTimeout is left out: the message is only forgotten.
AnsweredTimeoutSilent(dead) == answers' = answers

\* InformTimeout: the completion handlers are told eDeliveryDropped.
AnsweredTimeout(dead) ==
  answers' = [id \in Ids |-> IF id \in dead THEN Append(answers[id], "dropped") ELSE answers[id]]

SenderTimedOut == {id \in DOMAIN txMsgs : txMsgs[id].age > DeliveryTimeout}

\* The sender's Tick and the Pump of the same loop iteration.
SenderTick ==
  /\ "sender" \notin ticked
  /\ ticked' = ticked \cup {"sender"}
  /\ SenderPump(Without(txMsgs, SenderTimedOut), {})
  /\ AnsweredTimeout(SenderTimedOut)
  /\ UNCHANGED <<rxMsgs, replay, size, delivered>>

\* The erase is forgotten: the message is completed and stays in m_TXMsgs.
SenderDoneKeeping(id) ==
  /\ SenderPump(txMsgs, {})
  /\ answers' = IF id \in DOMAIN txMsgs THEN [answers EXCEPT ![id] = Append(@, "success")]
                ELSE answers

\* Completed and the erase that follows it: the handler is told eDeliverySuccess.
\* Completed also clears the handler; OneVerdict does not lean on that.
SenderDone(id) ==
  /\ SenderPump(Without(txMsgs, {id}), {})
  /\ answers' = IF id \in DOMAIN txMsgs THEN [answers EXCEPT ![id] = Append(@, "success")]
                ELSE answers

\* HandleACKS: the bitmask replaces what was known, and missing fragments go out.
HandleACKS(id, bits) ==
  IF id \notin DOMAIN txMsgs \/ FragmentsOf(id) \subseteq bits
  THEN SenderDone(id)
  ELSE /\ SenderPump([txMsgs EXCEPT ![id].acks = bits, ![id].sinceFlush = 0],
                     DATA(id, FragmentsOf(id) \ bits))
       /\ UNCHANGED answers

HandleMACK(id) == SenderDone(id)

HandleNACK(id) ==
  /\ SenderPump(txMsgs, IF id \in DOMAIN txMsgs THEN {XMIT(id)} ELSE {})
  /\ UNCHANGED answers

-----------------------------------------------------------------------------
(* The receiver *)

\* Pump: ACKS for every message not acknowledged for ACKResendInterval.
DueACKS(msgs) == {id \in DOMAIN msgs : msgs[id].sinceACKS > ACKResendInterval}
ReceiverPump(msgs, out) ==
  /\ rxMsgs' = [id \in DOMAIN msgs |->
       IF id \in DueACKS(msgs) THEN [msgs[id] EXCEPT !.sinceACKS = 0] ELSE msgs[id]]
  /\ Send(out \cup {ACKS(id, msgs[id].got) : id \in DueACKS(msgs)})

\* The completed message is not entered in the replay filter.
RememberForgotten(id) == replay' = replay

Remember(id) == replay' = With(replay, id, 0)

\* HandleRecvMsgCompleted: delivered unless the filter knows it, and acknowledged.
HandleRecvMsgCompleted(id) ==
  IF id \in DOMAIN replay
  THEN ReceiverPump(Without(rxMsgs, {id}), {}) /\ UNCHANGED <<replay, delivered>>
  ELSE /\ Remember(id)
       /\ delivered' = [delivered EXCEPT ![id] = @ + 1]
       /\ ReceiverPump(Without(rxMsgs, {id}), {ACKS(id, FragmentsOf(id))})

\* InboundMessage::HandleData and what follows it in HandleXMIT and HandleDATA.
HandleData(id, msg) ==
  IF FragmentsOf(id) \subseteq msg.got THEN HandleRecvMsgCompleted(id)
  ELSE ReceiverPump(With(rxMsgs, id, msg), {}) /\ UNCHANGED <<replay, delivered>>

HandleXMIT(id) ==
  IF id \in DOMAIN replay
  THEN ReceiverPump(rxMsgs, {MACK(id)}) /\ UNCHANGED <<replay, delivered>>
  ELSE IF id \in DOMAIN rxMsgs
  THEN ReceiverPump(rxMsgs, {}) /\ UNCHANGED <<replay, delivered>>
  ELSE HandleData(id, [got |-> {0}, idle |-> 0, sinceACKS |-> ACKResendInterval + 1])

\* The answer to a fragment of a message that is not being received.
UnknownDATA(id) == IF id \in DOMAIN replay THEN {MACK(id)} ELSE {NACK(id)}

HandleDATA(id, fragment) ==
  IF id \notin DOMAIN rxMsgs
  THEN ReceiverPump(rxMsgs, UnknownDATA(id)) /\ UNCHANGED <<replay, delivered>>
  ELSE HandleData(id, [rxMsgs[id] EXCEPT !.got = @ \cup fragment, !.idle = 0])

\* Faulty variant: a message of which only the first fragment arrived is never found.
ReceiverTimedOutSome ==
  {id \in DOMAIN rxMsgs : rxMsgs[id].idle > ReceiveTimeout /\ rxMsgs[id].got # {0}}

ReceiverTimedOut == {id \in DOMAIN rxMsgs : rxMsgs[id].idle > ReceiveTimeout}

\* Off by one: an entry survives the window by a tick.
DecayedLate == {id \in DOMAIN replay : replay[id] > ReplayWindow}

\* What m_ReplayFilter.Decay drops.
Decayed == {id \in DOMAIN replay : replay[id] >= ReplayWindow}

\* The receiver's Tick: messages that timed out enter the replay filter, and the filter
\* decays; then the Pump of the same loop iteration.
ReceiverTick ==
  /\ "receiver" \notin ticked
  /\ ticked' = ticked \cup {"receiver"}
  /\ replay' = Without([id \in DOMAIN replay \cup ReceiverTimedOut |->
                          IF id \in DOMAIN replay THEN replay[id] ELSE 0],
                       Decayed)
  /\ ReceiverPump(Without(rxMsgs, ReceiverTimedOut), {})
  /\ UNCHANGED <<txMsgs, size, answers, delivered>>

-----------------------------------------------------------------------------
(* The network and time *)

Arrives(p) ==
  /\ \/ /\ p.cmd \in ToReceiver
        /\ \/ p.cmd = "XMIT" /\ HandleXMIT(p.id)
           \/ p.cmd = "DATA" /\ HandleDATA(p.id, p.arg)
        /\ UNCHANGED <<txMsgs, answers>>
     \/ /\ p.cmd \notin ToReceiver
        /\ \/ p.cmd = "ACKS" /\ HandleACKS(p.id, p.arg)
           \/ p.cmd = "MACK" /\ HandleMACK(p.id)
           \/ p.cmd = "NACK" /\ HandleNACK(p.id)
        /\ UNCHANGED <<rxMsgs, replay, delivered>>
  /\ UNCHANGED <<size, ticked>>

\* A tick goes by: both sides' timers have fired, every age grows, and a packet that
\* was MaxDelay ticks on the way is lost.
TimePasses ==
  /\ ticked = Sides
  /\ ticked' = {}
  /\ txMsgs' = [id \in DOMAIN txMsgs |->
       [txMsgs[id] EXCEPT !.age = Older(@, DeliveryTimeout + 1),
                         !.sinceFlush = Older(@, TXFlushInterval)]]
  /\ rxMsgs' = [id \in DOMAIN rxMsgs |->
       [rxMsgs[id] EXCEPT !.idle = Older(@, ReceiveTimeout + 1),
                         !.sinceACKS = Older(@, ACKResendInterval + 1)]]
  /\ replay' = [id \in DOMAIN replay |-> replay[id] + 1]
  /\ net' = [p \in {q \in DOMAIN net : net[q] < MaxDelay} |-> net[p] + 1]
  /\ UNCHANGED <<size, answers, delivered>>

Next ==
  \/ \E id \in Ids, n \in 1 .. MaxFragments : SendMessageBuffer(id, n)
  \/ \E p \in DOMAIN net : Arrives(p)
  \/ SenderTick \/ ReceiverTick \/ TimePasses

Spec == Init /\ [][Next]_vars

\* Clocks run and the link layer's timer fires on both sides; the network owes nothing.
FairSpec == Spec /\ WF_vars(SenderTick) /\ WF_vars(ReceiverTick) /\ WF_vars(TimePasses)

-----------------------------------------------------------------------------
(* Properties *)

\* The values the variables take.
TransferTypeOK ==
  /\ \A id \in DOMAIN txMsgs :
       txMsgs[id] \in [acks : SUBSET Fragments, age : 0 .. DeliveryTimeout + 1,
                       sinceFlush : 0 .. TXFlushInterval]
  /\ \A id \in DOMAIN rxMsgs :
       rxMsgs[id] \in [got : SUBSET Fragments, idle : 0 .. ReceiveTimeout + 1,
                       sinceACKS : 0 .. ACKResendInterval + 1]
  /\ \A id \in DOMAIN replay : replay[id] \in 0 .. ReplayWindow
  /\ DOMAIN txMsgs \cup DOMAIN rxMsgs \cup DOMAIN replay \subseteq Ids

\* However packets are lost, repeated, reordered and delayed by up to MaxDelay ticks
\* (DeliveryTimeout + MaxDelay, and a tick, stay below ReplayWindow), the replay filter
\* lets HandleMessage see a message at most once.
AtMostOnce == \A id \in Ids : delivered[id] <= 1

\* A completion handler is called once: a late or repeated acknowledgement neither
\* contradicts a timeout that was reported nor reports a success again.
OneVerdict == \A id \in Ids : Len(answers[id]) <= 1

\* A message reported eDeliverySuccess ("delivery status of a message",
\* link/session.hpp:34) was handed to HandleMessage at the other end.
SuccessMeansDelivered ==
  \A id \in Ids : "success" \in Range(answers[id]) => delivered[id] > 0

\* While the session lives, every message sent is answered, also over a network that
\* delivers nothing.
EveryMessageAnswered == \A id \in Ids : []<>~(size[id] > 0 /\ answers[id] = <<>>)

\* No message stays half received: the receiver gets rid of it.
ReceiverForgets == \A id \in Ids : []<>(id \notin DOMAIN rxMsgs)
=============================================================================
