-------------------------- MODULE LinkChangeProofs --------------------------
(***************************************************************************)
(* Theorems about LinkChange, for every value of its constants: the type    *)
(* invariant; that the endpoint keeps or restores its settings; what a      *)
(* packet in a driver tells of the node that sent it; that what the base    *)
(* adopts the endpoint adopted too, or adopts next.                         *)
(*                                                                          *)
(* For a base whose user types no commands and asks for one change at a     *)
(* time: a response in time tells of the new settings; and if no node       *)
(* restarts, the base can go back, and two successes mean that both ends    *)
(* agree.                                                                   *)
(***************************************************************************)
EXTENDS LinkChange, TLAPS

USE NodesAssumption, ParamAssumption, TrustAssumption, TimeAssumption

LEMMA PeerFacts == \A n \in Node : Peer(n) \in Node /\ Peer(n) # n
  BY DEF Node, Peer

-----------------------------------------------------------------------------
(* The helpers respect the types *)

LEMMA InitialTypes ==
  /\ NotSending \in Sending
  /\ NoPacket \in Packet
  /\ Stopped \in Timer
  /\ \A w \in {"off", "awaitRsp", "awaitTrust"} : Started(w) \in Timer
  /\ \A k \in MsgKind \cup {"adopting"}, want \in Setting : Message(k, want) \in Sending
  BY DEF NotSending, Sending, NoPacket, Packet, Stopped, Started, Timer,
         Message, MsgKind

LEMMA CountedType ==
  ASSUME TypeOK, NEW n \in Node, NEW k \in Nat
  PROVE  Counted(n, k) \in 0 .. Trust + 1
  BY DEF TypeOK, Counted

LEMMA AfterRxType ==
  ASSUME NEW timer \in Timer, NEW count
  PROVE  AfterRx(timer, count) \in Timer
  BY DEF AfterRx, Timer, Stopped, Started

\* An acknowledgement changes only what the sender knows of it.
LEMMA AckOutcomesType ==
  ASSUME TypeOK, NEW n \in Node, NEW m, NEW out \in AckOutcomes(n, m)
  PROVE  /\ out \in Sending
         /\ out.kind = tx[Peer(n)].kind
         /\ out.want = tx[Peer(n)].want
  <1>1. tx[Peer(n)] \in Sending
    BY PeerFacts DEF TypeOK
  <1>2. CASE m.live
    <2>1. PICK a \in BOOLEAN : out = [tx[Peer(n)] EXCEPT !.seen = TRUE, !.acked = a]
      BY <1>2, Zenon DEF AckOutcomes
    <2> QED
      BY <1>1, <2>1 DEF Sending
  <1>3. CASE ~m.live
    BY <1>1, <1>3 DEF AckOutcomes
  <1> QED
    BY <1>2, <1>3

LEMMA ServiceHeartbeatType ==
  ASSUME NEW n \in Node, NEW bufs \in [Node -> Packet], ServiceHeartbeat(n, bufs)
  PROVE  rxBuf' \in [Node -> Packet]
  <1>1. [NoPacket EXCEPT !.kind = "heartbeatReq"] \in Packet
    BY InitialTypes DEF Packet, MsgKind
  <1> QED
    BY <1>1, PeerFacts DEF ServiceHeartbeat

LEMMA FinishRxType ==
  ASSUME TypeOK, NEW n \in Node, NEW k \in Nat, NEW bufs \in [Node -> Packet],
         FinishRx(n, k, bufs)
  PROVE  /\ cur' \in [Node -> Setting]
         /\ prev' \in [Node -> Setting]
         /\ good' \in [Node -> 0 .. Trust + 1]
         /\ linkTimer' \in [Node -> Timer]
         /\ rxBuf' \in [Node -> Packet]
  <1>1. rxBuf' \in [Node -> Packet]
    BY ServiceHeartbeatType DEF FinishRx
  <1>2. good' \in [Node -> 0 .. Trust + 1]
    BY CountedType DEF FinishRx, TypeOK
  <1>3. linkTimer' \in [Node -> Timer]
    BY AfterRxType DEF FinishRx, TypeOK
  <1> QED
    BY <1>1, <1>2, <1>3 DEF FinishRx, TypeOK

LEMMA SetLinkType ==
  ASSUME TypeOK, NEW n \in Node, NEW s \in Setting, NEW c \in 0 .. Trust + 1,
         SetLink(n, s, c)
  PROVE  /\ cur' \in [Node -> Setting]
         /\ prev' \in [Node -> Setting]
         /\ good' \in [Node -> 0 .. Trust + 1]
  BY DEF SetLink, TypeOK

LEMMA BuffersType ==
  ASSUME TypeOK, NEW n \in Node
  PROVE  /\ Emptied(n) \in [Node -> Packet]
         /\ Orphaned(n) \in [Node -> Packet]
         /\ Returned(n) \in [Node -> Sending]
         /\ rxBuf \in [Node -> Packet]
  <1>1. /\ rxBuf \in [Node -> Packet] /\ tx \in [Node -> Sending]
        /\ Peer(n) \in Node
    BY PeerFacts DEF TypeOK
  <1>2. [rxBuf[Peer(n)] EXCEPT !.live = FALSE] \in Packet
    BY <1>1 DEF Packet
  <1> QED
    BY <1>1, <1>2, InitialTypes DEF Emptied, Orphaned, Returned

-----------------------------------------------------------------------------
(* Every action preserves the types *)

LEMMA TypeInit == Init => TypeOK
  <1>1. 0 \in 0 .. Trust + 1
    OBVIOUS
  <1> QED
    BY <1>1, InitialTypes DEF Init, TypeOK

LEMMA TypeLoop ==
  ASSUME TypeOK, NEW n \in Node,
         \/ \E want \in Setting : RequestLinkChange(want)
         \/ SendData(n)
         \/ \E p \in Param : \E v \in Valid[p] : Command(n, p, v)
  PROVE  TypeOK'
  <1>1. CASE \E want \in Setting : RequestLinkChange(want)
    <2>1. PICK want \in Setting : RequestLinkChange(want)
      BY <1>1
    <2>2. Message("linkChangeReq", want) \in Sending
      BY InitialTypes DEF MsgKind
    <2> QED
      BY <2>1, <2>2 DEF RequestLinkChange, TypeOK
  <1>2. CASE SendData(n)
    <2>1. Message("dataReq", Default) \in Sending
      BY InitialTypes DEF MsgKind
    <2> QED
      BY <1>2, <2>1 DEF SendData, TypeOK
  <1>3. CASE \E p \in Param : \E v \in Valid[p] : Command(n, p, v)
    <2>0. PICK p \in Param : \E v \in Valid[p] : Command(n, p, v)
      BY <1>3
    <2>1. PICK v \in Valid[p] : Command(n, p, v)
      BY <2>0
    <2>2. cur[n] \in Setting /\ prev[n] \in Setting
      BY DEF TypeOK
    <2>3. [cur[n] EXCEPT ![p] = v] \in Setting
      BY <2>2 DEF Setting
    <2>4. [prev[n] EXCEPT ![p] = cur[n][p]] \in Setting
      BY <2>2 DEF Setting
    <2>5. cur' \in [Node -> Setting] /\ prev' \in [Node -> Setting]
      BY <2>1, <2>3, <2>4 DEF Command, TypeOK
    <2>6. good' \in [Node -> 0 .. Trust + 1]
      BY <2>1 DEF Command, TypeOK
    <2> QED
      BY <2>1, <2>5, <2>6 DEF Command, TypeOK
  <1> QED
    BY <1>1, <1>2, <1>3

LEMMA TypeArrive ==
  ASSUME TypeOK, NEW n \in Node, Arrive(n)
  PROVE  TypeOK'
  <1>1. tx[Peer(n)] \in Sending /\ tx[Peer(n)].kind \in MsgKind
    BY PeerFacts DEF TypeOK, Arrive
  <1>2. [kind |-> tx[Peer(n)].kind, want |-> tx[Peer(n)].want,
         dup |-> tx[Peer(n)].seen, live |-> TRUE] \in Packet
    BY <1>1 DEF Sending, Packet
  <1> QED
    BY <1>2 DEF Arrive, TypeOK

LEMMA TypeReceive ==
  ASSUME TypeOK, NEW n \in Node, NEW out \in AckOutcomes(n, rxBuf[n]),
         \/ ReceiveLinkChangeReq(n, out)
         \/ ReceiveLinkChangeRsp(n, out)
         \/ ReceiveHeartbeatReq(n, out)
         \/ ReceiveOther(n, out)
         \/ ReceiveDuplicate(n, out)
  PROVE  TypeOK'
  <1>1. out \in Sending
    BY AckOutcomesType
  <1>2. rxBuf[n].want \in Setting
    BY DEF TypeOK, Packet
  <1>3. [tx EXCEPT ![Peer(n)] = out] \in [Node -> Sending]
    BY <1>1, PeerFacts DEF TypeOK
  <1>4. CASE ReceiveLinkChangeReq(n, out)
    <2>1. Message("adopting", rxBuf[n].want) \in Sending
      BY <1>2, InitialTypes
    <2>2. tx' \in [Node -> Sending]
      BY <1>3, <1>4, <2>1 DEF ReceiveLinkChangeReq
    <2> QED
      BY <1>4, <2>2, BuffersType DEF ReceiveLinkChangeReq, TypeOK
  <1>5. CASE ReceiveLinkChangeRsp(n, out)
    <2>1. good' \in [Node -> 0 .. Trust + 1]
      BY <1>5, CountedType DEF ReceiveLinkChangeRsp, TypeOK
    <2>2. AfterRx(Started("awaitTrust"), Counted(n, 1)) \in Timer
      BY AfterRxType, InitialTypes
    <2>3. linkTimer' \in [Node -> Timer]
      BY <1>5, <2>2 DEF ReceiveLinkChangeRsp, TypeOK
    <2>4. rxBuf' \in [Node -> Packet]
      BY <1>5, BuffersType, ServiceHeartbeatType DEF ReceiveLinkChangeRsp
    <2> QED
      BY <1>3, <1>5, <2>1, <2>3, <2>4 DEF ReceiveLinkChangeRsp, TypeOK
  <1>6. CASE ReceiveHeartbeatReq(n, out)
    <2>1. Message("heartbeatRsp", Default) \in Sending
      BY InitialTypes DEF MsgKind
    <2>2. tx' \in [Node -> Sending]
      BY <1>3, <1>6, <2>1 DEF ReceiveHeartbeatReq
    <2> QED
      BY <1>6, <2>2, BuffersType DEF ReceiveHeartbeatReq, TypeOK
  <1>7. CASE ReceiveOther(n, out)
    <2>1. FinishRx(n, 1, Emptied(n)) /\ Emptied(n) \in [Node -> Packet]
      BY <1>7, BuffersType DEF ReceiveOther
    <2> QED
      BY <1>3, <1>7, <2>1, FinishRxType DEF ReceiveOther, TypeOK
  <1>8. CASE ReceiveDuplicate(n, out)
    BY <1>3, <1>8, BuffersType DEF ReceiveDuplicate, TypeOK
  <1> QED
    BY <1>4, <1>5, <1>6, <1>7, <1>8

LEMMA TypeAdopt ==
  ASSUME TypeOK, NEW n \in Node, AdoptLinkChangeReq(n)
  PROVE  TypeOK'
  <1>1. tx[n].want \in Setting
    BY DEF TypeOK, Sending
  <1>2. Message("linkChangeRsp", tx[n].want) \in Sending
    BY <1>1, InitialTypes DEF MsgKind
  <1>3. tx' \in [Node -> Sending]
    BY <1>2 DEF AdoptLinkChangeReq, TypeOK
  <1>4. /\ cur' \in [Node -> Setting] /\ prev' \in [Node -> Setting]
        /\ good' \in [Node -> 0 .. Trust + 1]
    BY <1>1, SetLinkType DEF AdoptLinkChangeReq
  <1> QED
    BY <1>3, <1>4 DEF AdoptLinkChangeReq, TypeOK

LEMMA TypeSendReturns ==
  ASSUME TypeOK, NEW n \in Node, SendReturns(n)
  PROVE  TypeOK'
  <1>1. /\ Returned(n) \in [Node -> Sending]
        /\ Orphaned(n) \in [Node -> Packet]
        /\ rxBuf \in [Node -> Packet]
    BY BuffersType
  <1>2. tx[n].want \in Setting /\ prev[n] \in Setting
    BY DEF TypeOK, Sending
  <1>3. CASE LinkChangeReqAcked(n)
    <2>1. /\ cur' \in [Node -> Setting] /\ prev' \in [Node -> Setting]
          /\ good' \in [Node -> 0 .. Trust + 1]
      BY <1>2, <1>3, SetLinkType DEF LinkChangeReqAcked
    <2>2. linkTimer' \in [Node -> Timer]
      BY <1>3, InitialTypes DEF LinkChangeReqAcked, TypeOK
    <2>3. rxBuf' \in [Node -> Packet]
      BY <1>1, <1>3, ServiceHeartbeatType DEF LinkChangeReqAcked
    <2> QED
      BY <1>1, <1>3, <2>1, <2>2, <2>3 DEF LinkChangeReqAcked, TypeOK
  <1>4. CASE LinkChangeRspAcked(n)
    BY <1>1, <1>4, FinishRxType DEF LinkChangeRspAcked, TypeOK
  <1>5. CASE HeartbeatRspAcked(n)
    BY <1>1, <1>5, FinishRxType DEF HeartbeatRspAcked, TypeOK
  <1>6. CASE DataReqAcked(n)
    <2>1. good' \in [Node -> 0 .. Trust + 1]
      BY <1>6, CountedType DEF DataReqAcked, TypeOK
    <2> QED
      BY <1>1, <1>6, <2>1 DEF DataReqAcked, TypeOK
  <1>7. CASE RequestGivenUp(n)
    BY <1>1, <1>7 DEF RequestGivenUp, TypeOK
  <1>8. CASE LinkChangeRspGivenUp(n)
    <2>1. /\ cur' \in [Node -> Setting] /\ prev' \in [Node -> Setting]
          /\ good' \in [Node -> 0 .. Trust + 1]
      BY <1>2, <1>8, SetLinkType DEF LinkChangeRspGivenUp, Revert
    <2>2. linkTimer' \in [Node -> Timer]
      BY <1>8, AfterRxType DEF LinkChangeRspGivenUp, TypeOK
    <2> QED
      BY <1>1, <1>8, <2>1, <2>2 DEF LinkChangeRspGivenUp, TypeOK
  <1>9. CASE HeartbeatRspGivenUp(n)
    BY <1>1, <1>9, FinishRxType DEF HeartbeatRspGivenUp, TypeOK
  <1> QED
    BY <1>3, <1>4, <1>5, <1>6, <1>7, <1>8, <1>9 DEF SendReturns

LEMMA TypeTimers ==
  ASSUME TypeOK, NEW n \in Node,
         LinkTimerExpires(n) \/ HeartbeatExpires(n) \/ Restart(n)
  PROVE  TypeOK'
  <1>1. CASE LinkTimerExpires(n)
    <2>1. /\ cur' \in [Node -> Setting] /\ prev' \in [Node -> Setting]
          /\ good' \in [Node -> 0 .. Trust + 1]
      BY <1>1, SetLinkType DEF LinkTimerExpires, Revert, TypeOK
    <2>2. linkTimer' \in [Node -> Timer]
      BY <1>1, InitialTypes DEF LinkTimerExpires, TypeOK
    <2>3. rxBuf' \in [Node -> Packet]
      BY <1>1, BuffersType, ServiceHeartbeatType DEF LinkTimerExpires
    <2> QED
      BY <1>1, <2>1, <2>2, <2>3 DEF LinkTimerExpires, TypeOK
  <1>2. CASE HeartbeatExpires(n)
    <2>1. rxBuf' \in [Node -> Packet]
      BY <1>2, BuffersType, ServiceHeartbeatType DEF HeartbeatExpires
    <2> QED
      BY <1>2, <2>1 DEF HeartbeatExpires, TypeOK
  <1>3. CASE Restart(n)
    <2>1. [tx[Peer(n)] EXCEPT !.seen = FALSE] \in Sending
      BY PeerFacts DEF TypeOK, Sending
    <2>2. [rxBuf[Peer(n)] EXCEPT !.live = FALSE] \in Packet
      BY PeerFacts DEF TypeOK, Packet
    <2>3. tx' \in [Node -> Sending] /\ rxBuf' \in [Node -> Packet]
      BY <1>3, <2>1, <2>2, PeerFacts, InitialTypes DEF Restart, TypeOK
    <2>4. /\ cur' \in [Node -> Setting] /\ prev' \in [Node -> Setting]
          /\ good' \in [Node -> 0 .. Trust + 1] /\ linkTimer' \in [Node -> Timer]
      BY <1>3, InitialTypes DEF Restart, TypeOK
    <2> QED
      BY <2>3, <2>4 DEF TypeOK
  <1> QED
    BY <1>1, <1>2, <1>3

LEMMA TypeTick ==
  ASSUME TypeOK, Tick
  PROVE  TypeOK'
  <1>1. linkTimer' \in [Node -> Timer]
    <2> SUFFICES ASSUME NEW n \in Node, Running(n), ~Overdue(n)
                 PROVE  [linkTimer[n] EXCEPT !.elapsed = @ + 1] \in Timer
      BY DEF Tick, TypeOK
    <2>1. linkTimer[n] \in Timer
      BY DEF TypeOK
    <2>2. linkTimer[n].elapsed + 1 \in 0 .. TrustWait
      BY <2>1 DEF Running, Overdue, Timeout, Timer
    <2> QED
      BY <2>1, <2>2 DEF Timer
  <1>2. tx' \in [Node -> Sending]
    <2> SUFFICES ASSUME NEW n \in Node, ~Looping(n)
                 PROVE  [tx[n] EXCEPT !.waited = @ + 1] \in Sending
      BY DEF Tick, TypeOK
    <2>1. tx[n] \in Sending
      BY DEF TypeOK
    <2>2. tx[n].waited + 1 \in Nat
      BY <2>1 DEF Sending
    <2> QED
      BY <2>1, <2>2 DEF Sending
  <1> QED
    BY <1>1, <1>2 DEF Tick, TypeOK

LEMMA TypeStep == TypeOK /\ [Next]_vars => TypeOK'
  <1> SUFFICES ASSUME TypeOK, [Next]_vars PROVE TypeOK'
    OBVIOUS
  <1>1. CASE Next
    <2>1. CASE Tick
      BY <2>1, TypeTick
    <2>2. CASE \E want \in Setting : RequestLinkChange(want)
      BY <2>2, TypeLoop DEF Node
    <2>3. ASSUME NEW n \in Node,
                 \/ SendData(n) \/ Arrive(n) \/ ServiceRx(n)
                 \/ AdoptLinkChangeReq(n) \/ Discard(n) \/ SendReturns(n) \/ LinkTimerExpires(n) \/ HeartbeatExpires(n)
          PROVE  TypeOK'
      <3>1. CASE SendData(n)
        BY <3>1, TypeLoop
      <3>2. CASE Arrive(n)
        BY <3>2, TypeArrive
      <3>3. CASE ServiceRx(n)
        BY <3>3, TypeReceive DEF ServiceRx
      <3>4. CASE Discard(n)
        BY <3>4, BuffersType DEF Discard, TypeOK
      <3>5. CASE SendReturns(n)
        BY <3>5, TypeSendReturns
      <3>6. CASE LinkTimerExpires(n) \/ HeartbeatExpires(n)
        BY <3>6, TypeTimers
      <3>7. CASE AdoptLinkChangeReq(n)
        BY <3>7, TypeAdopt
      <3> QED
        BY <2>3, <3>1, <3>2, <3>3, <3>4, <3>5, <3>6, <3>7
    <2>4. ASSUME NEW n \in CommandNodes, NEW p \in Param, NEW v \in Valid[p],
                 Command(n, p, v)
          PROVE  TypeOK'
      BY <2>4, TypeLoop, OperatorAssumption DEF Node
    <2>5. ASSUME NEW n \in RestartNodes, Restart(n)
          PROVE  TypeOK'
      BY <2>5, TypeTimers, OperatorAssumption DEF Node
    <2> QED
      BY <1>1, <2>1, <2>2, <2>3, <2>4, <2>5 DEF Next
  <1>2. CASE UNCHANGED vars
    BY <1>2 DEF vars, TypeOK
  <1> QED
    BY <1>1, <1>2

\* Every reachable state is well typed: in particular the count saturates, a timer
\* never runs past its timeout and no sendtoWait lasts longer than its retries.
THEOREM TypeCorrect == Spec => []TypeOK
  BY TypeInit, TypeStep, PTL DEF Spec

-----------------------------------------------------------------------------
(* Roles: the timer of the endpoint never runs *)

\* Only the base requests, and only the endpoint adopts and responds.
Roles ==
  /\ linkTimer[Endpoint].wait = "off"
  /\ tx[Endpoint].kind # "linkChangeReq" /\ tx[Base].kind \notin {"adopting", "linkChangeRsp"}
  /\ rxBuf[Base].kind # "linkChangeReq" /\ rxBuf[Endpoint].kind # "linkChangeRsp"

LEMMA RolesInit == Init => Roles
  BY DEF Init, Roles, Node, Stopped, Started, NotSending, NoPacket

\* A heartbeat is the only packet that serviceTimers can add.
LEMMA HeartbeatKind ==
  ASSUME NEW n \in Node, NEW bufs \in [Node -> Packet], ServiceHeartbeat(n, bufs),
         NEW m \in Node
  PROVE  rxBuf'[m].kind \in {bufs[m].kind, "heartbeatReq"}
  <1>1. [NoPacket EXCEPT !.kind = "heartbeatReq"].kind = "heartbeatReq"
    BY DEF NoPacket
  <1> QED
    BY <1>1, PeerFacts DEF ServiceHeartbeat

LEMMA BufferKinds ==
  ASSUME TypeOK, NEW n \in Node, NEW m \in Node
  PROVE  /\ Emptied(n)[m].kind \in {rxBuf[m].kind, "none"}
         /\ Orphaned(n)[m].kind = rxBuf[m].kind
         /\ Returned(n)[m].kind \in {tx[m].kind, "none"}
  <1>1. NoPacket.kind = "none" /\ NotSending.kind = "none"
    BY DEF NoPacket, NotSending
  <1>2. rxBuf \in [Node -> Packet] /\ tx \in [Node -> Sending] /\ Peer(n) \in Node
    BY PeerFacts DEF TypeOK
  <1>3. [rxBuf[Peer(n)] EXCEPT !.live = FALSE].kind = rxBuf[Peer(n)].kind
    BY <1>2 DEF Packet
  <1> QED
    BY <1>1, <1>2, <1>3 DEF Emptied, Orphaned, Returned

\* What the tail of serviceRx leaves alone.
LEMMA FinishRxKinds ==
  ASSUME TypeOK, NEW n \in Node, NEW k \in Nat, NEW bufs \in [Node -> Packet],
         FinishRx(n, k, bufs), NEW m \in Node
  PROVE  /\ linkTimer[m].wait = "off" => linkTimer'[m].wait = "off"
         /\ rxBuf'[m].kind \in {bufs[m].kind, "heartbeatReq"}
         /\ cur' = cur /\ prev' = prev
  <1>1. rxBuf'[m].kind \in {bufs[m].kind, "heartbeatReq"}
    BY HeartbeatKind DEF FinishRx
  <1>2. linkTimer[m].wait = "off" => linkTimer'[m].wait = "off"
    BY DEF FinishRx, AfterRx, Stopped, Started, TypeOK
  <1> QED
    BY <1>1, <1>2 DEF FinishRx

LEMMA RolesReceive ==
  ASSUME TypeOK, Roles, NEW n \in Node, NEW out \in AckOutcomes(n, rxBuf[n]),
         \/ ReceiveLinkChangeReq(n, out)
         \/ ReceiveLinkChangeRsp(n, out)
         \/ ReceiveHeartbeatReq(n, out)
         \/ ReceiveOther(n, out)
         \/ ReceiveDuplicate(n, out)
  PROVE  Roles'
  <1>1. out.kind = tx[Peer(n)].kind /\ Peer(n) \in Node /\ Peer(n) # n
    BY AckOutcomesType, PeerFacts
  <1>2. /\ Base \in Node /\ Endpoint \in Node /\ Base # Endpoint
        /\ Emptied(n) \in [Node -> Packet]
        /\ tx \in [Node -> Sending] /\ linkTimer \in [Node -> Timer]
    BY BuffersType DEF Node, TypeOK
  <1>3. \A m \in Node : Emptied(n)[m].kind \in {rxBuf[m].kind, "none"}
    BY BufferKinds
  <1>4. CASE ReceiveLinkChangeReq(n, out)
    <2>1. n = Endpoint
      BY <1>4 DEF ReceiveLinkChangeReq, Takes, Roles, Node
    <2>2. tx'[Base].kind = tx[Base].kind /\ tx'[Endpoint].kind = "adopting"
      BY <1>1, <1>2, <1>4, <2>1 DEF ReceiveLinkChangeReq, Message, Peer
    <2> QED
      BY <1>2, <1>3, <1>4, <2>2 DEF ReceiveLinkChangeReq, Roles
  <1>5. CASE ReceiveLinkChangeRsp(n, out)
    <2>1. n = Base
      BY <1>5 DEF ReceiveLinkChangeRsp, Takes, Roles, Node
    <2>2. \A m \in Node : tx'[m].kind = tx[m].kind
      BY <1>1, <1>2, <1>5 DEF ReceiveLinkChangeRsp
    <2>3. \A m \in Node : rxBuf'[m].kind \in {Emptied(n)[m].kind, "heartbeatReq"}
      BY <1>2, <1>5, HeartbeatKind DEF ReceiveLinkChangeRsp
    <2>4. linkTimer'[Endpoint] = linkTimer[Endpoint]
      BY <1>2, <1>5, <2>1 DEF ReceiveLinkChangeRsp
    <2> QED
      BY <1>2, <1>3, <2>2, <2>3, <2>4 DEF Roles
  <1>6. CASE ReceiveHeartbeatReq(n, out)
    <2>1. \A m \in Node : tx'[m].kind \in {tx[m].kind, "heartbeatRsp"}
      BY <1>1, <1>2, <1>6 DEF ReceiveHeartbeatReq, Message
    <2> QED
      BY <1>2, <1>3, <1>6, <2>1 DEF ReceiveHeartbeatReq, Roles
  <1>7. CASE ReceiveOther(n, out)
    <2>1. \A m \in Node : tx'[m].kind = tx[m].kind
      BY <1>1, <1>2, <1>7 DEF ReceiveOther
    <2>2. FinishRx(n, 1, Emptied(n))
      BY <1>7 DEF ReceiveOther
    <2>3. /\ linkTimer'[Endpoint].wait = "off"
          /\ \A m \in Node : rxBuf'[m].kind \in {Emptied(n)[m].kind, "heartbeatReq"}
      BY <1>2, <2>2, FinishRxKinds DEF Roles
    <2> QED
      BY <1>2, <1>3, <2>1, <2>3 DEF Roles
  <1>8. CASE ReceiveDuplicate(n, out)
    <2>1. \A m \in Node : tx'[m].kind = tx[m].kind
      BY <1>1, <1>2, <1>8 DEF ReceiveDuplicate
    <2> QED
      BY <1>2, <1>3, <1>8, <2>1 DEF ReceiveDuplicate, Roles
  <1> QED
    BY <1>4, <1>5, <1>6, <1>7, <1>8

LEMMA RolesSendReturns ==
  ASSUME TypeOK, Roles, NEW n \in Node, SendReturns(n)
  PROVE  Roles'
  <1>1. /\ Base \in Node /\ Endpoint \in Node /\ Base # Endpoint
        /\ rxBuf \in [Node -> Packet] /\ Orphaned(n) \in [Node -> Packet]
        /\ linkTimer \in [Node -> Timer]
    BY BuffersType DEF Node, TypeOK
  <1>2. \A m \in Node : /\ Orphaned(n)[m].kind = rxBuf[m].kind
                        /\ Returned(n)[m].kind \in {tx[m].kind, "none"}
    BY BufferKinds
  <1>3. tx' = Returned(n)
    BY DEF SendReturns, LinkChangeReqAcked, LinkChangeRspAcked, HeartbeatRspAcked,
           DataReqAcked, RequestGivenUp, LinkChangeRspGivenUp, HeartbeatRspGivenUp
  <1> SUFFICES /\ linkTimer'[Endpoint].wait = "off"
               /\ \A m \in Node : rxBuf'[m].kind \in {rxBuf[m].kind, "heartbeatReq"}
    BY <1>1, <1>2, <1>3 DEF Roles
  <1>4. CASE LinkChangeReqAcked(n)
    <2>1. n = Base
      BY <1>4 DEF LinkChangeReqAcked, Roles, Node
    <2>2. linkTimer'[Endpoint] = linkTimer[Endpoint]
      BY <1>1, <1>4, <2>1 DEF LinkChangeReqAcked
    <2>3. \A m \in Node : rxBuf'[m].kind \in {rxBuf[m].kind, "heartbeatReq"}
      BY <1>1, <1>4, HeartbeatKind DEF LinkChangeReqAcked
    <2> QED
      BY <2>2, <2>3 DEF Roles
  <1>5. CASE LinkChangeRspAcked(n) \/ HeartbeatRspAcked(n)
    <2>1. PICK k \in Nat : FinishRx(n, k, rxBuf)
      BY <1>5 DEF LinkChangeRspAcked, HeartbeatRspAcked
    <2> QED
      BY <1>1, <2>1, FinishRxKinds DEF Roles
  <1>6. CASE DataReqAcked(n)
    BY <1>6 DEF DataReqAcked, Roles
  <1>7. CASE RequestGivenUp(n)
    BY <1>2, <1>7 DEF RequestGivenUp, Roles
  <1>8. CASE LinkChangeRspGivenUp(n)
    <2>1. linkTimer'[Endpoint].wait = "off"
      BY <1>1, <1>8 DEF LinkChangeRspGivenUp, AfterRx, Stopped, Started, Roles
    <2> QED
      BY <1>2, <1>8, <2>1 DEF LinkChangeRspGivenUp
  <1>9. CASE HeartbeatRspGivenUp(n)
    <2>1. FinishRx(n, 1, Orphaned(n))
      BY <1>9 DEF HeartbeatRspGivenUp
    <2> QED
      BY <1>1, <1>2, <2>1, FinishRxKinds DEF Roles
  <1> QED
    BY <1>4, <1>5, <1>6, <1>7, <1>8, <1>9 DEF SendReturns

LEMMA RolesTimers ==
  ASSUME TypeOK, Roles, NEW n \in Node,
         LinkTimerExpires(n) \/ HeartbeatExpires(n) \/ Restart(n)
  PROVE  Roles'
  <1>1. /\ Base \in Node /\ Endpoint \in Node /\ Base # Endpoint
        /\ rxBuf \in [Node -> Packet] /\ tx \in [Node -> Sending]
        /\ linkTimer \in [Node -> Timer]
        /\ Peer(n) \in Node /\ Peer(n) # n
    BY PeerFacts DEF Node, TypeOK
  <1>2. CASE LinkTimerExpires(n) \/ HeartbeatExpires(n)
    <2>1. \A m \in Node : rxBuf'[m].kind \in {rxBuf[m].kind, "heartbeatReq"}
      BY <1>1, <1>2, HeartbeatKind DEF LinkTimerExpires, HeartbeatExpires
    <2>2. linkTimer'[Endpoint].wait = "off" /\ tx' = tx
      BY <1>1, <1>2 DEF LinkTimerExpires, HeartbeatExpires, Stopped, Started, Roles
    <2> QED
      BY <1>1, <2>1, <2>2 DEF Roles
  <1>3. CASE Restart(n)
    <2>1. /\ [tx[Peer(n)] EXCEPT !.seen = FALSE].kind = tx[Peer(n)].kind
          /\ [rxBuf[Peer(n)] EXCEPT !.live = FALSE].kind = rxBuf[Peer(n)].kind
          /\ NotSending.kind = "none" /\ NoPacket.kind = "none"
      BY <1>1 DEF Sending, Packet, NotSending, NoPacket
    <2>2. \A m \in Node : /\ tx'[m].kind \in {tx[m].kind, "none"}
                          /\ rxBuf'[m].kind \in {rxBuf[m].kind, "none"}
      BY <1>1, <1>3, <2>1 DEF Restart
    <2>3. linkTimer'[Endpoint].wait = "off"
      BY <1>1, <1>3 DEF Restart, Stopped, Started, Roles
    <2> QED
      BY <1>1, <2>2, <2>3 DEF Roles
  <1> QED
    BY <1>2, <1>3

LEMMA RolesStep == TypeOK /\ Roles /\ [Next]_vars => Roles'
  <1> SUFFICES ASSUME TypeOK, Roles, [Next]_vars PROVE Roles'
    OBVIOUS
  <1>1. /\ Base \in Node /\ Endpoint \in Node /\ Base # Endpoint
        /\ rxBuf \in [Node -> Packet] /\ tx \in [Node -> Sending]
        /\ linkTimer \in [Node -> Timer]
    BY DEF Node, TypeOK
  <1>2. CASE Tick
    <2>1. \A m \in Node : tx'[m].kind = tx[m].kind
      BY <1>1, <1>2 DEF Tick, Sending
    <2>2. linkTimer'[Endpoint] = linkTimer[Endpoint]
      BY <1>1, <1>2 DEF Tick, Running, Roles
    <2> QED
      BY <1>1, <1>2, <2>1, <2>2 DEF Tick, Roles
  <1>3. CASE \E want \in Setting : RequestLinkChange(want)
    BY <1>1, <1>3 DEF RequestLinkChange, Message, Roles
  <1>4. ASSUME NEW n \in Node,
               \/ SendData(n) \/ Arrive(n) \/ ServiceRx(n)
               \/ AdoptLinkChangeReq(n) \/ Discard(n) \/ SendReturns(n) \/ LinkTimerExpires(n) \/ HeartbeatExpires(n)
        PROVE  Roles'
    <2>1. CASE SendData(n)
      <3>1. \A m \in Node : tx'[m].kind \in {tx[m].kind, "dataReq"}
        BY <1>1, <2>1 DEF SendData, Message
      <3> QED
        BY <1>1, <2>1, <3>1 DEF SendData, Roles
    <2>2. CASE Arrive(n)
      <3>1. /\ \A m \in Node \ {n} : rxBuf'[m] = rxBuf[m]
            /\ rxBuf'[n].kind = tx[Peer(n)].kind
        BY <1>1, <2>2 DEF Arrive
      <3>2. \/ n = Base /\ Peer(n) = Endpoint
            \/ n = Endpoint /\ Peer(n) = Base
        BY DEF Node, Peer
      <3> QED
        BY <1>1, <2>2, <3>1, <3>2 DEF Arrive, Roles
    <2>3. CASE ServiceRx(n)
      BY <2>3, RolesReceive DEF ServiceRx
    <2>4. CASE Discard(n)
      BY <1>1, <2>4, BufferKinds DEF Discard, Roles
    <2>5. CASE SendReturns(n)
      BY <2>5, RolesSendReturns
    <2>6. CASE LinkTimerExpires(n) \/ HeartbeatExpires(n)
      BY <2>6, RolesTimers
    <2>7. CASE AdoptLinkChangeReq(n)
      <3>1. n = Endpoint
        BY <2>7 DEF AdoptLinkChangeReq, Roles, Node
      <3>2. tx'[Base] = tx[Base] /\ tx'[Endpoint].kind = "linkChangeRsp"
        BY <1>1, <2>7, <3>1 DEF AdoptLinkChangeReq, Message
      <3> QED
        BY <2>7, <3>2 DEF AdoptLinkChangeReq, Roles
    <2> QED
      BY <1>4, <2>1, <2>2, <2>3, <2>4, <2>5, <2>6, <2>7
  <1>5. ASSUME NEW n \in CommandNodes, NEW p \in Param, NEW v \in Valid[p],
               Command(n, p, v)
        PROVE  Roles'
    BY <1>5 DEF Command, Roles
  <1>6. ASSUME NEW n \in RestartNodes, Restart(n)
        PROVE  Roles'
    BY <1>6, RolesTimers, OperatorAssumption DEF Node
  <1>7. CASE UNCHANGED vars
    BY <1>7 DEF vars, Roles
  <1> QED
    BY <1>2, <1>3, <1>4, <1>5, <1>6, <1>7 DEF Next

\* Only the endpoint adopts, and this touches nothing of the base.
LEMMA EndpointAdopts ==
  ASSUME TypeOK, Roles, NEW n \in Node, AdoptLinkChangeReq(n)
  PROVE  /\ n = Endpoint /\ tx[Endpoint].kind = "adopting"
         /\ tx'[Endpoint] = Message("linkChangeRsp", tx[Endpoint].want)
         /\ tx'[Base] = tx[Base] /\ rxBuf' = rxBuf /\ linkTimer' = linkTimer
         /\ cur'[Endpoint] = tx[Endpoint].want /\ prev'[Endpoint] = cur[Endpoint]
         /\ cur'[Base] = cur[Base] /\ prev'[Base] = prev[Base]
         /\ good'[Base] = good[Base]
  <1>1. n = Endpoint
    BY DEF AdoptLinkChangeReq, Roles, Node
  <1> QED
    BY <1>1 DEF AdoptLinkChangeReq, SetLink, TypeOK, Node

-----------------------------------------------------------------------------
(* The endpoint implements TentativeSettings *)

Trial == IF Trying(Endpoint) THEN {cur[Endpoint]} ELSE {}

\* A step that leaves alone what the endpoint would keep, and what it tries.
LEMMA ServerStutters ==
  ASSUME cur'[Endpoint] = cur[Endpoint],
         Trying(Endpoint)' = Trying(Endpoint),
         Trying(Endpoint) => prev'[Endpoint] = prev[Endpoint]
  PROVE  UNCHANGED <<Stable(Endpoint), Trial>>
  BY DEF Stable, Trial

LEMMA ServerInit == Init => Server!Init
  BY DEF Init, Server!Init, Stable, Trying, Node, NotSending

LEMMA ServerReceives ==
  ASSUME TypeOK, Roles, NEW n \in Node, NEW out \in AckOutcomes(n, rxBuf[n]),
         \/ ReceiveLinkChangeReq(n, out)
         \/ ReceiveLinkChangeRsp(n, out)
         \/ ReceiveHeartbeatReq(n, out)
         \/ ReceiveOther(n, out)
         \/ ReceiveDuplicate(n, out)
  PROVE  UNCHANGED <<Stable(Endpoint), Trial>>
  <1>1. /\ Base \in Node /\ Endpoint \in Node /\ Base # Endpoint
        /\ Peer(n) \in Node /\ Peer(n) # n
        /\ tx \in [Node -> Sending] /\ rxBuf \in [Node -> Packet]
        /\ cur \in [Node -> Setting] /\ prev \in [Node -> Setting]
        /\ Emptied(n) \in [Node -> Packet]
    BY PeerFacts, BuffersType DEF Node, TypeOK
  <1>2. out.kind = tx[Peer(n)].kind
    BY AckOutcomesType
  <1>3. CASE ReceiveLinkChangeReq(n, out)
    <2>1. Trying(Endpoint)' = Trying(Endpoint)
      BY <1>1, <1>2, <1>3 DEF ReceiveLinkChangeReq, Takes, Looping, Message, Trying
    <2> QED
      BY <1>3, <2>1, ServerStutters DEF ReceiveLinkChangeReq
  <1>4. CASE ReceiveHeartbeatReq(n, out)
    <2>1. Trying(Endpoint)' = Trying(Endpoint)
      BY <1>1, <1>2, <1>4 DEF ReceiveHeartbeatReq, Takes, Looping, Message, Trying
    <2> QED
      BY <1>4, <2>1, ServerStutters DEF ReceiveHeartbeatReq
  <1>5. CASE \/ ReceiveLinkChangeRsp(n, out) \/ ReceiveOther(n, out)
             \/ ReceiveDuplicate(n, out)
    <2>1. tx' = [tx EXCEPT ![Peer(n)] = out]
      BY <1>5 DEF ReceiveLinkChangeRsp, ReceiveOther, ReceiveDuplicate
    <2>2. Trying(Endpoint)' = Trying(Endpoint)
      BY <1>1, <1>2, <2>1 DEF Trying
    <2>3. cur' = cur /\ prev' = prev
      BY <1>5 DEF ReceiveLinkChangeRsp, ReceiveOther, ReceiveDuplicate, FinishRx
    <2> QED
      BY <2>2, <2>3, ServerStutters
  <1> QED
    BY <1>3, <1>4, <1>5

LEMMA ServerAdopts ==
  ASSUME TypeOK, Roles, NEW n \in Node, AdoptLinkChangeReq(n)
  PROVE  Server!Next
  <1>1. /\ ~Trying(Endpoint) /\ Trying(Endpoint)'
        /\ prev'[Endpoint] = cur[Endpoint]
    BY EndpointAdopts DEF Message, Trying
  <1>2. cur'[Endpoint] \in Setting
    BY EndpointAdopts DEF TypeOK, Sending, Node
  <1>3. Server!Try(cur'[Endpoint])
    BY <1>1 DEF Server!Try, Stable
  <1> QED
    BY <1>2, <1>3 DEF Server!Next

LEMMA ServerReturns ==
  ASSUME TypeOK, Roles, NEW n \in Node, SendReturns(n)
  PROVE  Server!Next \/ UNCHANGED <<Stable(Endpoint), Trial>>
  <1>1. /\ Base \in Node /\ Endpoint \in Node /\ Base # Endpoint
        /\ tx \in [Node -> Sending]
        /\ cur \in [Node -> Setting] /\ prev \in [Node -> Setting]
    BY DEF Node, TypeOK
  <1>2. /\ tx' = [tx EXCEPT ![n] = NotSending]
        /\ NotSending.kind = "none"
    BY DEF SendReturns, LinkChangeReqAcked, LinkChangeRspAcked, HeartbeatRspAcked,
           DataReqAcked, RequestGivenUp, LinkChangeRspGivenUp, HeartbeatRspGivenUp,
           Returned, NotSending
  <1>3. CASE LinkChangeRspAcked(n) \/ LinkChangeRspGivenUp(n)
    <2>1. n = Endpoint /\ Trying(Endpoint)
      BY <1>3 DEF LinkChangeRspAcked, LinkChangeRspGivenUp, Roles, Node, Trying
    <2>2. ~Trying(Endpoint)'
      BY <1>1, <1>2, <2>1 DEF Trying
    <2>3. CASE LinkChangeRspAcked(n)
      <3>1. cur' = cur
        BY <2>3 DEF LinkChangeRspAcked, FinishRx
      <3> QED
        BY <2>1, <2>2, <3>1 DEF Server!Next, Server!Keep, Stable
    <2>4. CASE LinkChangeRspGivenUp(n)
      <3>1. cur'[Endpoint] = prev[Endpoint]
        BY <1>1, <2>1, <2>4 DEF LinkChangeRspGivenUp, Revert, SetLink
      <3> QED
        BY <2>1, <2>2, <3>1 DEF Server!Next, Server!Restore, Stable
    <2> QED
      BY <1>3, <2>3, <2>4
  <1>4. CASE LinkChangeReqAcked(n)
    <2>1. n = Base
      BY <1>4 DEF LinkChangeReqAcked, Roles, Node
    <2>2. /\ cur'[Endpoint] = cur[Endpoint] /\ prev'[Endpoint] = prev[Endpoint]
          /\ Trying(Endpoint)' = Trying(Endpoint)
      BY <1>1, <1>2, <1>4, <2>1 DEF LinkChangeReqAcked, SetLink, Trying
    <2> QED
      BY <2>2, ServerStutters
  <1>5. CASE \/ HeartbeatRspAcked(n) \/ DataReqAcked(n)
             \/ RequestGivenUp(n) \/ HeartbeatRspGivenUp(n)
    <2>1. cur' = cur /\ prev' = prev /\ tx[n].kind # "linkChangeRsp"
      BY <1>5 DEF HeartbeatRspAcked, DataReqAcked, RequestGivenUp,
                  HeartbeatRspGivenUp, FinishRx
    <2>2. Trying(Endpoint)' = Trying(Endpoint)
      BY <1>1, <1>2, <2>1 DEF Trying
    <2> QED
      BY <2>1, <2>2, ServerStutters
  <1> QED
    BY <1>3, <1>4, <1>5 DEF SendReturns

LEMMA ServerStep ==
  TypeOK /\ Roles /\ [Next]_vars => Server!Next \/ UNCHANGED <<Stable(Endpoint), Trial>>
  <1> SUFFICES ASSUME TypeOK, Roles, [Next]_vars
               PROVE  Server!Next \/ UNCHANGED <<Stable(Endpoint), Trial>>
    OBVIOUS
  <1>1. /\ Base \in Node /\ Endpoint \in Node /\ Base # Endpoint
        /\ tx \in [Node -> Sending]
        /\ cur \in [Node -> Setting] /\ prev \in [Node -> Setting]
    BY DEF Node, TypeOK
  <1>2. CASE \/ Tick
             \/ \E want \in Setting : RequestLinkChange(want)
             \/ \E n \in Node : \/ SendData(n) \/ Arrive(n)
                                \/ Discard(n) \/ HeartbeatExpires(n)
    <2>1. cur' = cur /\ prev' = prev
      BY <1>2 DEF Tick, RequestLinkChange, SendData, Arrive, Discard, HeartbeatExpires
    <2>2. Trying(Endpoint)' = Trying(Endpoint)
      <3>1. CASE Tick
        BY <1>1, <3>1 DEF Tick, Trying, Looping, Sending
      <3>2. CASE \E want \in Setting : RequestLinkChange(want)
        BY <1>1, <3>2 DEF RequestLinkChange, Trying
      <3>3. CASE \E n \in Node : SendData(n)
        BY <1>1, <3>3 DEF SendData, Looping, Message, Trying
      <3>4. CASE \E n \in Node : Arrive(n) \/ Discard(n) \/ HeartbeatExpires(n)
        BY <3>4 DEF Arrive, Discard, HeartbeatExpires, Trying
      <3> QED
        BY <1>2, <3>1, <3>2, <3>3, <3>4
    <2> QED
      BY <2>1, <2>2, ServerStutters
  <1>3. ASSUME NEW n \in Node, ServiceRx(n)
        PROVE  Server!Next \/ UNCHANGED <<Stable(Endpoint), Trial>>
    BY <1>3, ServerReceives DEF ServiceRx
  <1>4. ASSUME NEW n \in Node, SendReturns(n)
        PROVE  Server!Next \/ UNCHANGED <<Stable(Endpoint), Trial>>
    BY <1>4, ServerReturns
  <1>5. ASSUME NEW n \in Node, LinkTimerExpires(n)
        PROVE  UNCHANGED <<Stable(Endpoint), Trial>>
    <2>1. n = Base
      BY <1>5 DEF LinkTimerExpires, Overdue, Running, Roles, Node
    <2>2. /\ cur'[Endpoint] = cur[Endpoint] /\ prev'[Endpoint] = prev[Endpoint]
          /\ Trying(Endpoint)' = Trying(Endpoint)
      BY <1>1, <1>5, <2>1 DEF LinkTimerExpires, Revert, SetLink, Trying
    <2> QED
      BY <2>2, ServerStutters
  <1>6. ASSUME NEW n \in CommandNodes, NEW p \in Param, NEW v \in Valid[p],
               Command(n, p, v)
        PROVE  Server!Next \/ UNCHANGED <<Stable(Endpoint), Trial>>
    <2>1. Trying(Endpoint)' = Trying(Endpoint)
      BY <1>6 DEF Command, Trying
    <2>2. CASE n = Endpoint
      <3>1. ~Trying(Endpoint)
        BY <1>6, <2>2 DEF Command, Looping, Trying
      <3>2. cur'[Endpoint] \in Setting
        BY <1>1, <1>6, <2>2, TypeLoop DEF TypeOK
      <3>3. Server!Command(cur'[Endpoint])
        BY <2>1, <2>2, <3>1 DEF Server!Command, Stable
      <3> QED
        BY <3>2, <3>3 DEF Server!Next
    <2>3. CASE n # Endpoint
      <3>1. cur'[Endpoint] = cur[Endpoint] /\ prev'[Endpoint] = prev[Endpoint]
        BY <1>1, <1>6, <2>3 DEF Command
      <3> QED
        BY <2>1, <3>1, ServerStutters
    <2> QED
      BY <2>2, <2>3
  <1>7. ASSUME NEW n \in RestartNodes, Restart(n)
        PROVE  Server!Next \/ UNCHANGED <<Stable(Endpoint), Trial>>
    <2>1. n \in Node /\ Peer(n) # n /\ Peer(n) \in Node
      BY PeerFacts, OperatorAssumption DEF Node
    <2>2. CASE n = Endpoint
      <3>1. ~Trying(Endpoint)'
        BY <1>1, <1>7, <2>1, <2>2 DEF Restart, NotSending, Trying
      <3>2. cur'[Endpoint] = Default
        BY <1>1, <1>7, <2>2 DEF Restart
      <3> QED
        BY <2>2, <3>1, <3>2 DEF Server!Next, Server!Restart, Stable
    <2>3. CASE n = Base
      <3>1. cur'[Endpoint] = cur[Endpoint] /\ prev'[Endpoint] = prev[Endpoint]
        BY <1>1, <1>7, <2>3 DEF Restart
      <3>2. Trying(Endpoint)' = Trying(Endpoint)
        BY <1>1, <1>7, <2>1, <2>3 DEF Restart, Sending, Trying
      <3> QED
        BY <3>1, <3>2, ServerStutters
    <2> QED
      BY <2>1, <2>2, <2>3 DEF Node
  <1>8. CASE UNCHANGED vars
    BY <1>8, ServerStutters DEF vars, Trying
  <1> QED
    BY <1>2, <1>3, <1>4, <1>5, <1>6, <1>7, <1>8, ServerAdopts DEF Next

\* Whatever is lost, repeated or restarted, and whatever the operators do, the
\* endpoint keeps the settings of a request or restores all of the old ones.
THEOREM ServerRefinement == Spec => ServerKeepsOrRestores
  <1>1. Init => Roles /\ TypeOK
    BY RolesInit, TypeInit
  <1>2. TypeOK /\ Roles /\ [Next]_vars => TypeOK' /\ Roles'
    BY TypeStep, RolesStep
  <1>3. TypeOK /\ Roles /\ [Next]_vars => [Server!Next]_<<Stable(Endpoint), Trial>>
    BY ServerStep
  <1>4. Init => Server!Init
    BY ServerInit
  <1> QED
    BY <1>1, <1>2, <1>3, <1>4, PTL DEF Spec, ServerKeepsOrRestores, Server!Spec, Trial

-----------------------------------------------------------------------------
(* What a packet and an acknowledgement tell of their sender *)

\* A node that is not sending has nothing seen or acknowledged.
Resting(n) == tx[n].kind \notin MsgKind => ~tx[n].seen /\ ~tx[n].acked

\* A request that was acknowledged is adopted before the radio hears anything else.
Secluded(n) == tx[n].kind = "adopting" => rxBuf[n].kind = "none"

\* Once n has heard its acknowledgement, nothing is left in either driver until
\* its sendtoWait returns.
Cleared(n) ==
  tx[n].acked => rxBuf[n].kind = "none" /\ rxBuf[Peer(n)].kind = "none"

\* A live packet in n's driver is the message its peer is sending, and a duplicate
\* exactly if n has seen that one; any other packet means that n has not yet seen
\* what its peer is sending.
InFlight(n) ==
  LET p == Peer(n) IN
  rxBuf[n].kind # "none" =>
    IF rxBuf[n].live
      THEN /\ tx[p].kind = rxBuf[n].kind /\ tx[p].want = rxBuf[n].want
           /\ tx[p].seen = rxBuf[n].dup
      ELSE ~tx[p].seen

Delivery == \A n \in Node : Resting(n) /\ Secluded(n) /\ Cleared(n) /\ InFlight(n)

LEMMA TwoNodes ==
  ASSUME NEW n \in Node
  PROVE  /\ Peer(n) \in Node /\ Peer(n) # n /\ Peer(Peer(n)) = n
         /\ \A m \in Node : m = n \/ m = Peer(n)
         /\ n = Base => Peer(n) = Endpoint
         /\ n = Endpoint => Peer(n) = Base
         /\ Base \in Node /\ Endpoint \in Node
  BY DEF Node, Peer

LEMMA Blank ==
  /\ NotSending.kind = "none" /\ ~NotSending.seen /\ ~NotSending.acked
  /\ NoPacket.kind = "none" /\ ~NoPacket.dup /\ ~NoPacket.live
  /\ \A k, w : /\ Message(k, w).kind = k /\ Message(k, w).want = w
               /\ ~Message(k, w).seen /\ ~Message(k, w).acked
               /\ Message(k, w).waited = 0
  /\ LET heartbeat == [NoPacket EXCEPT !.kind = "heartbeatReq"]
     IN  heartbeat.kind = "heartbeatReq" /\ ~heartbeat.dup /\ ~heartbeat.live
  BY DEF NotSending, NoPacket, Message

\* An acknowledgement tells the sender of a live packet that it was seen, and is
\* heard only by a sender on the same settings with an empty driver.
LEMMA AckOutcomesEffect ==
  ASSUME TypeOK, NEW n \in Node, NEW out \in AckOutcomes(n, rxBuf[n])
  PROVE  /\ out.waited = tx[Peer(n)].waited
         /\ ~rxBuf[n].live => out = tx[Peer(n)]
         /\ rxBuf[n].live => /\ out.seen
                             /\ out.acked => /\ Compatible(cur[n], cur[Peer(n)])
                                             /\ rxBuf[Peer(n)].kind = "none"
  <1>1. tx[Peer(n)] \in Sending
    BY PeerFacts DEF TypeOK
  <1>2. CASE rxBuf[n].live
    <2>1. PICK a \in {FALSE, Compatible(cur[n], cur[Peer(n)])
                             /\ rxBuf[Peer(n)].kind = "none"} :
            out = [tx[Peer(n)] EXCEPT !.seen = TRUE, !.acked = a]
      BY <1>2, Zenon DEF AckOutcomes
    <2>2. out.waited = tx[Peer(n)].waited /\ out.seen = TRUE /\ out.acked = a
      BY <1>1, <2>1 DEF Sending
    <2>3. a => Compatible(cur[n], cur[Peer(n)]) /\ rxBuf[Peer(n)].kind = "none"
      BY <2>1, Zenon
    <2> QED
      BY <1>2, <2>2, <2>3
  <1>3. CASE ~rxBuf[n].live
    BY <1>3 DEF AckOutcomes
  <1> QED
    BY <1>2, <1>3

\* A heartbeat is heard only in the endpoint's empty driver, and is not repeated.
HeartbeatHeard(n, bufs) ==
  /\ n = Base /\ bufs[Peer(n)].kind = "none" /\ ~Deaf(Peer(n))'
  /\ Compatible(cur'[n], cur'[Peer(n)])
  /\ rxBuf'[Peer(n)] = [NoPacket EXCEPT !.kind = "heartbeatReq"]

LEMMA HeartbeatEffect ==
  ASSUME NEW n \in Node, NEW bufs \in [Node -> Packet], ServiceHeartbeat(n, bufs)
  PROVE  /\ rxBuf'[n] = bufs[n]
         /\ \/ rxBuf'[Peer(n)] = bufs[Peer(n)]
            \/ HeartbeatHeard(n, bufs)
  BY TwoNodes DEF ServiceHeartbeat, HeartbeatHeard

\* What serviceRx, or sendtoWait while it waits, does with the packet it takes.
LEMMA ReceiveEffect ==
  ASSUME TypeOK, NEW n \in Node, NEW out \in AckOutcomes(n, rxBuf[n]),
         \/ ReceiveLinkChangeReq(n, out)
         \/ ReceiveLinkChangeRsp(n, out)
         \/ ReceiveHeartbeatReq(n, out)
         \/ ReceiveOther(n, out)
         \/ ReceiveDuplicate(n, out)
  PROVE  /\ rxBuf[n].kind # "none"
         /\ tx'[Peer(n)] = out
         /\ \/ tx'[n] = tx[n]
            \/ /\ tx[n].kind = "none" /\ ~tx'[n].seen /\ ~tx'[n].acked
               /\ tx'[n].kind # "none"
         /\ rxBuf'[n] = NoPacket
         /\ \/ rxBuf'[Peer(n)] = rxBuf[Peer(n)]
            \/ HeartbeatHeard(n, Emptied(n)) /\ tx[n].kind = "none" /\ tx'[n] = tx[n]
  <1>1. /\ Peer(n) \in Node /\ Peer(n) # n
        /\ Emptied(n) \in [Node -> Packet] /\ tx \in [Node -> Sending]
        /\ Emptied(n)[n] = NoPacket /\ Emptied(n)[Peer(n)] = rxBuf[Peer(n)]
    BY TwoNodes, BuffersType DEF TypeOK, Emptied
  <1>2. CASE ReceiveLinkChangeReq(n, out) \/ ReceiveHeartbeatReq(n, out)
    <2>1. PICK k \in {"adopting", "heartbeatRsp"}, w \in {Default, rxBuf[n].want} :
            tx' = [tx EXCEPT ![Peer(n)] = out, ![n] = Message(k, w)]
      BY <1>2 DEF ReceiveLinkChangeReq, ReceiveHeartbeatReq
    <2>2. tx'[n] = Message(k, w) /\ tx'[Peer(n)] = out
      BY <1>1, <2>1
    <2>3. rxBuf' = Emptied(n) /\ rxBuf[n].kind # "none" /\ tx[n].kind = "none"
      BY <1>2 DEF ReceiveLinkChangeReq, ReceiveHeartbeatReq, Takes, Looping
    <2> QED
      BY <1>1, <2>2, <2>3, Blank
  <1>3. CASE ReceiveLinkChangeRsp(n, out) \/ ReceiveOther(n, out)
    <2>1. tx' = [tx EXCEPT ![Peer(n)] = out] /\ rxBuf[n].kind # "none" /\ tx[n].kind = "none"
      BY <1>3 DEF ReceiveLinkChangeRsp, ReceiveOther, Takes, Looping
    <2>2. ServiceHeartbeat(n, Emptied(n)) \/ rxBuf' = Emptied(n)
      BY <1>3 DEF ReceiveLinkChangeRsp, ReceiveOther, FinishRx
    <2>3. /\ rxBuf'[n] = Emptied(n)[n]
          /\ rxBuf'[Peer(n)] = Emptied(n)[Peer(n)] \/ HeartbeatHeard(n, Emptied(n))
      BY <1>1, <2>2, HeartbeatEffect
    <2> QED
      BY <1>1, <2>1, <2>3
  <1>4. CASE ReceiveDuplicate(n, out)
    BY <1>1, <1>4 DEF ReceiveDuplicate
  <1> QED
    BY <1>2, <1>3, <1>4

\* What the end of a sendtoWait leaves behind: a packet that was acknowledged is in
\* no driver, and one that was given up is orphaned.
LEMMA ReturnEffect ==
  ASSUME TypeOK, NEW n \in Node, SendReturns(n)
  PROVE  /\ tx[n].kind # "none"
         /\ tx'[n] = NotSending /\ tx'[Peer(n)] = tx[Peer(n)]
         /\ rxBuf'[n] = rxBuf[n]
         /\ \/ tx[n].acked /\ rxBuf'[Peer(n)] = rxBuf[Peer(n)]
            \/ tx[n].acked /\ HeartbeatHeard(n, rxBuf)
            \/ ~tx[n].acked /\ rxBuf'[Peer(n)] = [rxBuf[Peer(n)] EXCEPT !.live = FALSE]
            \/ /\ ~tx[n].acked /\ HeartbeatHeard(n, Orphaned(n))
               /\ rxBuf[Peer(n)].kind = "none"
  <1>1. /\ Peer(n) \in Node /\ Peer(n) # n
        /\ rxBuf \in [Node -> Packet] /\ tx \in [Node -> Sending]
        /\ Orphaned(n) \in [Node -> Packet]
        /\ Orphaned(n)[n] = rxBuf[n]
        /\ Orphaned(n)[Peer(n)] = [rxBuf[Peer(n)] EXCEPT !.live = FALSE]
    BY TwoNodes, BuffersType DEF TypeOK, Orphaned
  <1>2. Orphaned(n)[Peer(n)].kind = rxBuf[Peer(n)].kind
    BY <1>1, BufferKinds
  <1>3. tx' = Returned(n) /\ tx[n].kind # "none"
    BY DEF SendReturns, LinkChangeReqAcked, LinkChangeRspAcked, HeartbeatRspAcked,
           DataReqAcked, RequestGivenUp, LinkChangeRspGivenUp, HeartbeatRspGivenUp
  <1>4. tx'[n] = NotSending /\ tx'[Peer(n)] = tx[Peer(n)]
    BY <1>1, <1>3 DEF Returned
  <1>5. \/ tx[n].acked /\ (ServiceHeartbeat(n, rxBuf) \/ rxBuf' = rxBuf)
        \/ ~tx[n].acked /\ (ServiceHeartbeat(n, Orphaned(n)) \/ rxBuf' = Orphaned(n))
    BY DEF SendReturns, LinkChangeReqAcked, LinkChangeRspAcked, HeartbeatRspAcked,
           DataReqAcked, RequestGivenUp, LinkChangeRspGivenUp, HeartbeatRspGivenUp,
           FinishRx, RetriesOver
  <1>6. CASE tx[n].acked /\ (ServiceHeartbeat(n, rxBuf) \/ rxBuf' = rxBuf)
    <2>1. /\ rxBuf'[n] = rxBuf[n]
          /\ rxBuf'[Peer(n)] = rxBuf[Peer(n)] \/ HeartbeatHeard(n, rxBuf)
      BY <1>1, <1>6, HeartbeatEffect
    <2> QED
      BY <1>3, <1>4, <1>6, <2>1
  <1>7. CASE ~tx[n].acked /\ (ServiceHeartbeat(n, Orphaned(n)) \/ rxBuf' = Orphaned(n))
    <2>1. /\ rxBuf'[n] = Orphaned(n)[n]
          /\ rxBuf'[Peer(n)] = Orphaned(n)[Peer(n)] \/ HeartbeatHeard(n, Orphaned(n))
      BY <1>1, <1>7, HeartbeatEffect
    <2>2. HeartbeatHeard(n, Orphaned(n)) => rxBuf[Peer(n)].kind = "none"
      BY <1>2 DEF HeartbeatHeard
    <2> QED
      BY <1>1, <1>3, <1>4, <1>7, <2>1, <2>2
  <1> QED
    BY <1>5, <1>6, <1>7

-----------------------------------------------------------------------------
(* Every action keeps Delivery, with any commands and any loss of power *)

LEMMA DeliveryReceive ==
  ASSUME TypeOK, Delivery, NEW n \in Node, NEW out \in AckOutcomes(n, rxBuf[n]),
         \/ ReceiveLinkChangeReq(n, out)
         \/ ReceiveLinkChangeRsp(n, out)
         \/ ReceiveHeartbeatReq(n, out)
         \/ ReceiveOther(n, out)
         \/ ReceiveDuplicate(n, out)
  PROVE  Delivery'
  <1>1. PICK p \in Node : p = Peer(n)
    BY TwoNodes
  <1>2. /\ p # n /\ Peer(p) = n
        /\ Resting(n) /\ Secluded(n) /\ Cleared(n) /\ InFlight(n)
        /\ Resting(p) /\ Secluded(p) /\ Cleared(p) /\ InFlight(p)
        /\ rxBuf[n].kind \in MsgKind \cup {"none"}
    BY <1>1, TwoNodes DEF Delivery, TypeOK, Packet
  <1>3. /\ out.kind = tx[p].kind /\ out.want = tx[p].want
        /\ ~rxBuf[n].live => out = tx[p]
        /\ rxBuf[n].live => out.seen /\ (out.acked => rxBuf[p].kind = "none")
    BY <1>1, AckOutcomesType, AckOutcomesEffect
  <1>4. /\ rxBuf[n].kind # "none" /\ tx'[p] = out
        /\ \/ tx'[n] = tx[n]
           \/ tx[n].kind = "none" /\ ~tx'[n].seen /\ ~tx'[n].acked /\ tx'[n].kind # "none"
        /\ rxBuf'[n].kind = "none"
        /\ \/ rxBuf'[p] = rxBuf[p]
           \/ /\ tx[n].kind = "none" /\ tx'[n] = tx[n]
              /\ ~tx'[p].acked /\ tx'[p].kind # "adopting"
              /\ rxBuf'[p].kind = "heartbeatReq" /\ ~rxBuf'[p].live
    BY <1>1, ReceiveEffect, Blank DEF HeartbeatHeard, Deaf
  <1>5. Resting(n)' /\ Resting(p)'
    BY <1>1, <1>2, <1>3, <1>4 DEF Resting, InFlight
  <1>6. Secluded(n)' /\ Secluded(p)'
    BY <1>1, <1>2, <1>3, <1>4 DEF Secluded
  <1>7. Cleared(n)' /\ Cleared(p)'
    BY <1>1, <1>2, <1>3, <1>4 DEF Cleared, Resting, MsgKind
  <1>8. InFlight(n)' /\ InFlight(p)'
    BY <1>1, <1>2, <1>3, <1>4 DEF InFlight, Resting, MsgKind
  <1> QED
    BY <1>1, <1>5, <1>6, <1>7, <1>8, TwoNodes DEF Delivery

LEMMA DeliveryReturn ==
  ASSUME TypeOK, Delivery, NEW n \in Node, SendReturns(n)
  PROVE  Delivery'
  <1>1. PICK p \in Node : p = Peer(n)
    BY TwoNodes
  <1>2. /\ p # n /\ Peer(p) = n
        /\ Resting(n) /\ Secluded(n) /\ Cleared(n) /\ InFlight(n)
        /\ Resting(p) /\ Secluded(p) /\ Cleared(p) /\ InFlight(p)
    BY <1>1, TwoNodes DEF Delivery
  <1>3. LET orphan == [rxBuf[p] EXCEPT !.live = FALSE]
        IN  orphan.kind = rxBuf[p].kind /\ ~orphan.live
    BY DEF TypeOK, Packet
  <1>4. /\ tx'[n].kind = "none" /\ ~tx'[n].seen /\ ~tx'[n].acked
        /\ tx'[p] = tx[p] /\ rxBuf'[n] = rxBuf[n]
        /\ \/ tx[n].acked /\ rxBuf'[p] = rxBuf[p]
           \/ rxBuf'[p].kind = rxBuf[p].kind /\ ~rxBuf'[p].live
           \/ /\ rxBuf'[p].kind = "heartbeatReq" /\ ~rxBuf'[p].live
              /\ ~tx'[p].acked /\ tx'[p].kind # "adopting"
    BY <1>1, <1>3, ReturnEffect, Blank DEF HeartbeatHeard, Deaf
  <1>5. Resting(n)' /\ Resting(p)'
    BY <1>2, <1>4 DEF Resting
  <1>6. Secluded(n)' /\ Secluded(p)'
    BY <1>2, <1>4 DEF Secluded
  <1>7. Cleared(n)' /\ Cleared(p)'
    BY <1>1, <1>2, <1>4 DEF Cleared
  <1>8. InFlight(n)' /\ InFlight(p)'
    BY <1>1, <1>2, <1>4 DEF InFlight, Cleared
  <1> QED
    BY <1>1, <1>5, <1>6, <1>7, <1>8, TwoNodes DEF Delivery

LEMMA DeliveryStep == TypeOK /\ Delivery /\ [Next]_vars => Delivery'
  <1> SUFFICES ASSUME TypeOK, Delivery, [Next]_vars PROVE Delivery'
    OBVIOUS
  <1>1. /\ rxBuf \in [Node -> Packet] /\ tx \in [Node -> Sending]
        /\ Base \in Node
    BY DEF TypeOK, Node
  <1>2. CASE Tick
    <2>1. \A n \in Node : /\ tx'[n].kind = tx[n].kind /\ tx'[n].want = tx[n].want
                          /\ tx'[n].seen = tx[n].seen /\ tx'[n].acked = tx[n].acked
      BY <1>1, <1>2 DEF Tick, Sending
    <2> QED
      BY <1>2, <2>1, TwoNodes DEF Tick, Delivery, Resting, Secluded, Cleared, InFlight
  <1>3. ASSUME NEW n \in Node, NEW k \in MsgKind, NEW w \in Setting,
               tx[n].kind \notin MsgKind, rxBuf' = rxBuf,
               tx' = [tx EXCEPT ![n] = Message(k, w)]
        PROVE  Delivery'
    <2>1. k # "adopting"
      BY DEF MsgKind
    <2>2. PICK p \in Node : p = Peer(n) /\ p # n /\ Peer(p) = n
      BY TwoNodes
    <2>3. /\ tx'[n].kind = k /\ ~tx'[n].seen /\ ~tx'[n].acked /\ tx'[p] = tx[p]
          /\ rxBuf[p].kind \in MsgKind \cup {"none"}
      BY <1>1, <1>3, <2>2, Blank DEF Packet
    <2>4. /\ Resting(n)' /\ Resting(p)' /\ Cleared(n)' /\ Cleared(p)'
          /\ Secluded(n)' /\ Secluded(p)'
      BY <1>3, <2>1, <2>2, <2>3 DEF Delivery, Resting, Secluded, Cleared
    <2>5. InFlight(n)' /\ InFlight(p)'
      BY <1>3, <2>2, <2>3 DEF Delivery, Resting, InFlight
    <2> QED
      BY <2>2, <2>4, <2>5, TwoNodes DEF Delivery
  <1>4. CASE \E want \in Setting : RequestLinkChange(want)
    BY <1>1, <1>3, <1>4 DEF RequestLinkChange, Looping, MsgKind
  <1>5. ASSUME NEW n \in Node, SendData(n)
        PROVE  Delivery'
    BY <1>3, <1>5 DEF SendData, Looping, MsgKind
  <1>6. ASSUME NEW n \in Node, Arrive(n)
        PROVE  Delivery'
    <2>1. PICK p \in Node : p = Peer(n) /\ p # n /\ Peer(p) = n
      BY TwoNodes
    <2>2. /\ tx[p].kind \in MsgKind /\ ~tx[p].acked
          /\ ~tx[n].acked /\ tx[n].kind # "adopting"
          /\ rxBuf'[n].kind = tx[p].kind /\ rxBuf'[n].want = tx[p].want
          /\ rxBuf'[n].dup = tx[p].seen /\ rxBuf'[n].live
          /\ rxBuf'[p] = rxBuf[p] /\ tx' = tx
      BY <1>1, <1>6, <2>1 DEF Arrive, CanHear, Deaf
    <2>3. /\ Resting(n)' /\ Resting(p)' /\ Cleared(n)' /\ Cleared(p)'
          /\ Secluded(n)' /\ Secluded(p)'
      BY <2>1, <2>2 DEF Delivery, Resting, Secluded, Cleared
    <2>4. InFlight(n)' /\ InFlight(p)'
      BY <2>1, <2>2 DEF Delivery, InFlight
    <2> QED
      BY <2>1, <2>3, <2>4, TwoNodes DEF Delivery
  <1>7. ASSUME NEW n \in Node, Discard(n)
        PROVE  Delivery'
    <2>1. tx' = tx /\ \A m \in Node : rxBuf'[m] = rxBuf[m] \/ rxBuf'[m].kind = "none"
      BY <1>1, <1>7, Blank DEF Discard, Emptied
    <2> QED
      BY <2>1, TwoNodes DEF Delivery, Resting, Secluded, Cleared, InFlight
  <1>8. ASSUME NEW n \in Node, LinkTimerExpires(n) \/ HeartbeatExpires(n)
        PROVE  Delivery'
    <2>1. tx' = tx /\ tx[n].kind = "none" /\ ServiceHeartbeat(n, rxBuf)
      BY <1>8 DEF LinkTimerExpires, HeartbeatExpires, Looping
    <2>2. PICK p \in Node : p = Peer(n) /\ p # n /\ Peer(p) = n
      BY TwoNodes
    <2>3. /\ rxBuf'[n] = rxBuf[n]
          /\ \/ rxBuf'[p] = rxBuf[p]
             \/ /\ rxBuf'[p].kind = "heartbeatReq" /\ ~rxBuf'[p].live
                /\ ~tx[p].acked /\ tx[p].kind # "adopting"
      BY <1>1, <2>1, <2>2, HeartbeatEffect, Blank DEF HeartbeatHeard, Deaf
    <2>4. /\ Resting(n)' /\ Resting(p)' /\ Cleared(n)' /\ Cleared(p)'
          /\ Secluded(n)' /\ Secluded(p)'
      BY <2>1, <2>2, <2>3 DEF Delivery, Resting, Secluded, Cleared, MsgKind
    <2>5. InFlight(n)' /\ InFlight(p)'
      BY <2>1, <2>2, <2>3 DEF Delivery, Resting, InFlight, MsgKind
    <2> QED
      BY <2>2, <2>4, <2>5, TwoNodes DEF Delivery
  <1>9. ASSUME NEW n \in RestartNodes, Restart(n)
        PROVE  Delivery'
    <2>1. n \in Node
      BY OperatorAssumption DEF Node
    <2>2. PICK p \in Node : p = Peer(n) /\ p # n /\ Peer(p) = n
      BY <2>1, TwoNodes
    <2>3. /\ tx'[n] = NotSending /\ tx'[p] = [tx[p] EXCEPT !.seen = FALSE]
          /\ rxBuf'[n] = NoPacket /\ rxBuf'[p] = [rxBuf[p] EXCEPT !.live = FALSE]
      BY <1>1, <1>9, <2>1, <2>2 DEF Restart
    <2>4. /\ tx'[p].kind = tx[p].kind /\ tx'[p].acked = tx[p].acked /\ ~tx'[p].seen
          /\ rxBuf'[p].kind = rxBuf[p].kind /\ ~rxBuf'[p].live
      BY <1>1, <2>3 DEF Sending, Packet
    <2>5. /\ Resting(n)' /\ Resting(p)' /\ Cleared(n)' /\ Cleared(p)'
          /\ Secluded(n)' /\ Secluded(p)'
      BY <2>1, <2>2, <2>3, <2>4, Blank DEF Delivery, Resting, Secluded, Cleared
    <2>6. InFlight(n)' /\ InFlight(p)'
      BY <2>1, <2>2, <2>3, <2>4, Blank DEF InFlight
    <2> QED
      BY <2>1, <2>2, <2>5, <2>6, TwoNodes DEF Delivery
  <1>10. CASE \/ UNCHANGED vars
              \/ \E n \in CommandNodes, p \in Param : \E v \in Valid[p] : Command(n, p, v)
    <2>1. tx' = tx /\ rxBuf' = rxBuf
      BY <1>10 DEF vars, Command
    <2> QED
      BY <2>1 DEF Delivery, Resting, Secluded, Cleared, InFlight
  <1>11. ASSUME NEW n \in Node, AdoptLinkChangeReq(n)
         PROVE  Delivery'
    <2>1. tx[n].kind \notin MsgKind /\ tx[n].want \in Setting
      BY <1>1, <1>11 DEF AdoptLinkChangeReq, MsgKind, Sending
    <2> QED
      BY <1>3, <1>11, <2>1 DEF AdoptLinkChangeReq, MsgKind
  <1> QED
    BY <1>2, <1>4, <1>5, <1>6, <1>7, <1>8, <1>9, <1>10, <1>11, DeliveryReceive, DeliveryReturn
    DEF Next, ServiceRx

LEMMA DeliveryInit == Init => Delivery
  BY Blank DEF Init, Delivery, Resting, Secluded, Cleared, InFlight, Node, Peer

\* What a packet in a driver and an acknowledgement tell of the node that sent
\* them is true in every reachable state, with any commands and loss of power.
THEOREM DeliveryCorrect == Spec => []Delivery
  BY TypeInit, TypeStep, DeliveryInit, DeliveryStep, PTL DEF Spec

-----------------------------------------------------------------------------
(* An acknowledged request was carried out *)

\* A request that the endpoint has seen asks for the settings it is about to adopt,
\* or for those it has or had before: it adopted them, and at most went back.
Honoured ==
  tx[Base].kind = "linkChangeReq" /\ (tx[Base].seen \/ tx[Base].acked) =>
    CarriesOut(Endpoint, tx[Base].want)

\* A step that neither answers a request nor takes the endpoint to new settings.
LEMMA HonouredKept ==
  ASSUME Honoured,
         \A s : CarriesOut(Endpoint, s) => CarriesOut(Endpoint, s)',
         \/ /\ tx'[Base].kind = tx[Base].kind /\ tx'[Base].want = tx[Base].want
            /\ tx'[Base].seen \/ tx'[Base].acked => tx[Base].seen \/ tx[Base].acked
         \/ ~tx'[Base].seen /\ ~tx'[Base].acked
         \/ tx'[Base].kind # "linkChangeReq"
  PROVE  Honoured'
  BY DEF Honoured

\* A step that neither begins nor ends an adoption, and leaves the endpoint's settings
\* alone or turns them back.
LEMMA CarriesOutKept ==
  ASSUME \/ /\ tx'[Endpoint].kind = tx[Endpoint].kind
            /\ tx'[Endpoint].want = tx[Endpoint].want
         \/ tx[Endpoint].kind # "adopting" /\ tx'[Endpoint].kind # "adopting",
         {cur[Endpoint], prev[Endpoint]} \subseteq {cur'[Endpoint], prev'[Endpoint]}
  PROVE  \A s : CarriesOut(Endpoint, s) => CarriesOut(Endpoint, s)'
  BY DEF CarriesOut

LEMMA HonouredReceive ==
  ASSUME TypeOK, Roles, Delivery, Honoured,
         NEW n \in Node, NEW out \in AckOutcomes(n, rxBuf[n]),
         \/ ReceiveLinkChangeReq(n, out)
         \/ ReceiveLinkChangeRsp(n, out)
         \/ ReceiveHeartbeatReq(n, out)
         \/ ReceiveOther(n, out)
         \/ ReceiveDuplicate(n, out)
  PROVE  Honoured'
  <1>1. /\ Base \in Node /\ Endpoint \in Node /\ Base # Endpoint
        /\ tx \in [Node -> Sending] /\ InFlight(n) /\ Secluded(n)
    BY DEF Node, TypeOK, Delivery
  <1>2. /\ out.kind = tx[Peer(n)].kind /\ out.want = tx[Peer(n)].want
        /\ ~rxBuf[n].live => out = tx[Peer(n)]
    BY AckOutcomesType, AckOutcomesEffect
  <1>3. /\ rxBuf[n].kind # "none" /\ tx'[Peer(n)] = out
        /\ tx'[n] = tx[n] \/ (~tx'[n].seen /\ ~tx'[n].acked)
    BY ReceiveEffect
  <1>4. cur' = cur /\ prev' = prev
    BY DEF ReceiveLinkChangeReq, ReceiveLinkChangeRsp, ReceiveHeartbeatReq,
           ReceiveOther, ReceiveDuplicate, FinishRx
  <1>5. CASE n = Base
    <2>1. \A s : CarriesOut(Endpoint, s) => CarriesOut(Endpoint, s)'
      BY <1>2, <1>3, <1>4, <1>5, TwoNodes, CarriesOutKept
    <2> QED
      BY <1>3, <1>5, <2>1, HonouredKept
  <1>6. CASE n = Endpoint /\ ReceiveLinkChangeReq(n, out)
    <2>1. /\ tx'[Endpoint] = Message("adopting", rxBuf[Endpoint].want)
          /\ rxBuf[Endpoint].kind = "linkChangeReq" /\ ~rxBuf[Endpoint].dup
          /\ Peer(n) = Base
      BY <1>1, <1>6, TwoNodes DEF ReceiveLinkChangeReq, Takes
    <2>2. CASE rxBuf[n].live
      <3>1. tx[Base].want = rxBuf[Endpoint].want
        BY <1>1, <1>3, <1>6, <2>1, <2>2 DEF InFlight
      <3> QED
        BY <1>2, <1>3, <2>1, <3>1, Blank DEF Honoured, CarriesOut
    <2>3. CASE ~rxBuf[n].live
      <3>1. ~tx[Base].seen
        BY <1>1, <1>6, <2>1, <2>3 DEF InFlight
      <3>2. ~tx[Base].acked
        BY <1>1, <1>3, <1>6, TwoNodes DEF Delivery, Cleared
      <3> QED
        BY <1>2, <1>3, <2>1, <2>3, <3>1, <3>2 DEF Honoured
    <2> QED
      BY <2>2, <2>3
  <1>7. CASE n = Endpoint /\ ~ReceiveLinkChangeReq(n, out)
    <2>1. Peer(n) = Base /\ tx[Endpoint].kind # "adopting"
      BY <1>3, <1>7, <1>1, TwoNodes DEF Secluded
    <2>2. tx'[Endpoint].kind # "adopting"
      BY <1>1, <1>7, <2>1, Blank
      DEF ReceiveLinkChangeRsp, ReceiveHeartbeatReq, ReceiveOther, ReceiveDuplicate
    <2>3. \A s : CarriesOut(Endpoint, s) => CarriesOut(Endpoint, s)'
      BY <1>4, <2>1, <2>2, CarriesOutKept
    <2>4. CASE rxBuf[n].live /\ rxBuf[n].dup
      <3>1. tx[Base].seen
        BY <1>1, <1>3, <2>1, <2>4 DEF InFlight
      <3> QED
        BY <1>2, <1>3, <2>1, <2>3, <3>1, HonouredKept
    <2>5. CASE rxBuf[n].live /\ ~rxBuf[n].dup
      <3>1. rxBuf[n].kind # "linkChangeReq"
        BY <1>7, <2>5 DEF ReceiveLinkChangeRsp, ReceiveHeartbeatReq, ReceiveOther,
                          ReceiveDuplicate, Takes
      <3>2. tx'[Base].kind # "linkChangeReq"
        BY <1>1, <1>2, <1>3, <2>1, <2>5, <3>1 DEF InFlight
      <3> QED
        BY <3>2 DEF Honoured
    <2>6. CASE ~rxBuf[n].live
      BY <1>2, <1>3, <2>1, <2>3, <2>6, HonouredKept
    <2> QED
      BY <2>4, <2>5, <2>6
  <1> QED
    BY <1>5, <1>6, <1>7 DEF Node

\* The endpoint adopts what it has acknowledged.
LEMMA HonouredAdopt ==
  ASSUME TypeOK, Roles, Honoured, NEW n \in Node, AdoptLinkChangeReq(n)
  PROVE  Honoured'
  <1>1. /\ tx[Endpoint].kind = "adopting" /\ tx'[Endpoint].kind # "adopting"
        /\ tx'[Base] = tx[Base] /\ cur'[Endpoint] = tx[Endpoint].want
    BY EndpointAdopts, Blank
  <1> QED
    BY <1>1 DEF Honoured, CarriesOut

LEMMA HonouredReturn ==
  ASSUME TypeOK, Roles, Honoured, NEW n \in Node, SendReturns(n)
  PROVE  Honoured'
  <1>1. /\ Base \in Node /\ Endpoint \in Node /\ Base # Endpoint
        /\ cur \in [Node -> Setting] /\ prev \in [Node -> Setting]
    BY DEF Node, TypeOK
  <1>2. tx'[n] = NotSending /\ tx'[Peer(n)] = tx[Peer(n)]
    BY ReturnEffect
  <1>3. CASE n = Base
    BY <1>2, <1>3, Blank DEF Honoured
  <1>4. CASE n = Endpoint
    <2>1. \/ cur' = cur /\ prev' = prev
          \/ SetLink(n, prev[n], 1)
      BY <1>4 DEF SendReturns, LinkChangeReqAcked, LinkChangeRspAcked, HeartbeatRspAcked,
                  DataReqAcked, RequestGivenUp, LinkChangeRspGivenUp, HeartbeatRspGivenUp,
                  FinishRx, Revert, Roles
    <2>2. {cur[Endpoint], prev[Endpoint]} \subseteq {cur'[Endpoint], prev'[Endpoint]}
      BY <1>1, <1>4, <2>1 DEF SetLink
    <2>3. tx[Endpoint].kind # "adopting"
      BY <1>4 DEF SendReturns, LinkChangeReqAcked, LinkChangeRspAcked, HeartbeatRspAcked,
                  DataReqAcked, RequestGivenUp, LinkChangeRspGivenUp, HeartbeatRspGivenUp
    <2>4. \A s : CarriesOut(Endpoint, s) => CarriesOut(Endpoint, s)'
      BY <1>2, <1>4, <2>2, <2>3, CarriesOutKept, Blank
    <2> QED
      BY <1>2, <1>4, <2>4, HonouredKept, TwoNodes
  <1> QED
    BY <1>3, <1>4 DEF Node

LEMMA HonouredStep ==
  ASSUME TypeOK, Roles, Delivery, Honoured, [Next]_vars,
         Endpoint \notin CommandNodes, Endpoint \notin RestartNodes
  PROVE  Honoured'
  <1>1. /\ Base \in Node /\ Endpoint \in Node /\ Base # Endpoint
        /\ cur \in [Node -> Setting] /\ prev \in [Node -> Setting]
        /\ tx \in [Node -> Sending]
    BY DEF Node, TypeOK
  <1>2. CASE \/ Tick \/ UNCHANGED vars
             \/ \E n \in Node : Arrive(n) \/ Discard(n) \/ HeartbeatExpires(n)
    <2>1. cur' = cur /\ prev' = prev
      BY <1>2 DEF Tick, vars, Arrive, Discard, HeartbeatExpires
    <2>2. \A n \in Node :
            /\ tx'[n].kind = tx[n].kind /\ tx'[n].want = tx[n].want
            /\ tx'[n].seen = tx[n].seen /\ tx'[n].acked = tx[n].acked
      BY <1>1, <1>2 DEF Tick, vars, Arrive, Discard, HeartbeatExpires, Sending
    <2> QED
      BY <1>1, <2>1, <2>2, CarriesOutKept, HonouredKept
  <1>3. CASE \/ \E want \in Setting : RequestLinkChange(want)
             \/ \E n \in Node : SendData(n)
    <2>1. cur' = cur /\ prev' = prev
      BY <1>3 DEF RequestLinkChange, SendData
    <2>2. /\ tx'[Base] = tx[Base] \/ (~tx'[Base].seen /\ ~tx'[Base].acked)
          /\ \/ tx'[Endpoint] = tx[Endpoint]
             \/ tx[Endpoint].kind # "adopting" /\ tx'[Endpoint].kind # "adopting"
      BY <1>1, <1>3, Blank DEF RequestLinkChange, SendData, Looping
    <2> QED
      BY <2>1, <2>2, CarriesOutKept, HonouredKept
  <1>4. ASSUME NEW n \in Node, LinkTimerExpires(n)
        PROVE  Honoured'
    <2>1. n = Base
      BY <1>4 DEF LinkTimerExpires, Overdue, Running, Roles, Node
    <2>2. /\ cur'[Endpoint] = cur[Endpoint] /\ prev'[Endpoint] = prev[Endpoint] /\ tx' = tx
      BY <1>1, <1>4, <2>1 DEF LinkTimerExpires, Revert, SetLink
    <2> QED
      BY <2>2, CarriesOutKept, HonouredKept
  <1>5. ASSUME NEW n \in CommandNodes, NEW p \in Param, NEW v \in Valid[p],
               Command(n, p, v)
        PROVE  Honoured'
    <2>1. n = Base
      BY OperatorAssumption
    <2>2. /\ cur'[Endpoint] = cur[Endpoint] /\ prev'[Endpoint] = prev[Endpoint] /\ tx' = tx
      BY <1>1, <1>5, <2>1 DEF Command
    <2> QED
      BY <2>2, CarriesOutKept, HonouredKept
  <1>6. ASSUME NEW n \in RestartNodes, Restart(n)
        PROVE  Honoured'
    <2>1. n = Base
      BY OperatorAssumption
    <2>2. /\ cur'[Endpoint] = cur[Endpoint] /\ prev'[Endpoint] = prev[Endpoint]
          /\ tx'[Base] = NotSending
      BY <1>1, <1>6, <2>1, TwoNodes DEF Restart
    <2> QED
      BY <2>2, Blank DEF Honoured
  <1> QED
    BY <1>2, <1>3, <1>4, <1>5, <1>6, HonouredReceive, HonouredAdopt, HonouredReturn
    DEF Next, ServiceRx

\* Whatever is lost or repeated, however impatient the user, and although the base may
\* be commanded or lose power: when the base adopts the settings it asked for, the
\* endpoint has adopted them for the same request, and at most gone back since, or has
\* nothing left to do but to adopt them (loraPoint2PointProtocol.cpp:422-429, 654-478).
THEOREM AckMeansAdoptionHolds ==
  ASSUME Endpoint \notin CommandNodes, Endpoint \notin RestartNodes
  PROVE  Spec => AckMeansAdoption
  <1>1. Init => TypeOK /\ Roles /\ Delivery /\ Honoured
    <2>1. Init => Honoured
      BY Blank DEF Init, Honoured, Node
    <2> QED
      BY <2>1, TypeInit, RolesInit, DeliveryInit
  <1>2. TypeOK /\ Roles /\ Delivery /\ Honoured /\ [Next]_vars
          => (TypeOK /\ Roles /\ Delivery /\ Honoured)'
    BY TypeStep, RolesStep, DeliveryStep, HonouredStep
  <1>3. Honoured => (LinkChangeReqAcked(Base) => CarriesOut(Endpoint, tx[Base].want))
    BY DEF Honoured, LinkChangeReqAcked
  <1> QED
    BY <1>1, <1>2, <1>3, PTL DEF Spec, AckMeansAdoption

-----------------------------------------------------------------------------
(* What each node does to the pair *)

\* Only the base sends heartbeats, and only the endpoint answers them.
HeartbeatRoles ==
  /\ \A n \in Node : tx[n].kind # "heartbeatReq"
  /\ tx[Base].kind # "heartbeatRsp" /\ rxBuf[Base].kind # "heartbeatReq"

\* The last poll of the radio left nothing on the air but a heartbeat.
Beaten == /\ rxBuf'[Endpoint].kind = "heartbeatReq"
          /\ ~rxBuf'[Endpoint].dup /\ ~rxBuf'[Endpoint].live

\* The packet in n's driver lost the sender that waited for its acknowledgement.
OrphanIn(n) ==
  /\ rxBuf'[n].kind = rxBuf[n].kind /\ rxBuf'[n].want = rxBuf[n].want
  /\ rxBuf'[n].dup = rxBuf[n].dup /\ ~rxBuf'[n].live

LEMMA OrphanEffect ==
  ASSUME TypeOK, NEW n \in Node, rxBuf'[n] = [rxBuf[n] EXCEPT !.live = FALSE]
  PROVE  OrphanIn(n)
  BY DEF TypeOK, Packet, OrphanIn

LEMMA BaseHeartbeat ==
  ASSUME NEW bufs \in [Node -> Packet], ServiceHeartbeat(Base, bufs)
  PROVE  /\ rxBuf'[Base] = bufs[Base]
         /\ \/ rxBuf'[Endpoint] = bufs[Endpoint]
            \/ Beaten /\ bufs[Endpoint].kind = "none"
  BY HeartbeatEffect, Blank, TwoNodes DEF HeartbeatHeard, Beaten, Node

LEMMA EndpointReceives ==
  ASSUME TypeOK, Roles, NEW out \in AckOutcomes(Endpoint, rxBuf[Endpoint]),
         \/ ReceiveLinkChangeReq(Endpoint, out)
         \/ ReceiveLinkChangeRsp(Endpoint, out)
         \/ ReceiveHeartbeatReq(Endpoint, out)
         \/ ReceiveOther(Endpoint, out)
         \/ ReceiveDuplicate(Endpoint, out)
  PROVE  /\ rxBuf[Endpoint].kind # "none" /\ rxBuf'[Endpoint] = NoPacket
         /\ rxBuf'[Base] = rxBuf[Base]
         /\ tx'[Base] = out /\ out.kind = tx[Base].kind
         /\ cur' = cur /\ prev' = prev
         /\ good'[Base] = good[Base] /\ linkTimer'[Base] = linkTimer[Base]
         /\ \/ /\ rxBuf[Endpoint].kind = "linkChangeReq" /\ ~rxBuf[Endpoint].dup
               /\ tx[Endpoint].kind = "none"
               /\ tx'[Endpoint] = Message("adopting", rxBuf[Endpoint].want)
            \/ /\ \/ rxBuf[Endpoint].dup
                  \/ rxBuf[Endpoint].kind # "linkChangeReq" /\ tx[Endpoint].kind = "none"
               /\ \/ tx'[Endpoint] = tx[Endpoint]
                  \/ tx[Endpoint].kind = "none" /\ tx'[Endpoint].kind = "heartbeatRsp"
  <1>1. /\ Base \in Node /\ Endpoint \in Node /\ Base # Endpoint
        /\ Peer(Endpoint) = Base /\ Emptied(Endpoint)[Base] = rxBuf[Base]
        /\ cur \in [Node -> Setting] /\ prev \in [Node -> Setting]
        /\ good \in [Node -> 0 .. Trust + 1] /\ linkTimer \in [Node -> Timer]
        /\ tx \in [Node -> Sending] /\ rxBuf \in [Node -> Packet]
    BY TwoNodes DEF TypeOK, Node, Emptied
  <1>2. /\ rxBuf[Endpoint].kind # "none" /\ rxBuf'[Endpoint] = NoPacket
        /\ rxBuf'[Base] = rxBuf[Base]
        /\ tx'[Base] = out /\ out.kind = tx[Base].kind
    BY <1>1, ReceiveEffect, AckOutcomesType DEF HeartbeatHeard
  <1>3. CASE ReceiveLinkChangeReq(Endpoint, out)
    <2>1. cur' = cur /\ prev' = prev /\ good' = good /\ linkTimer' = linkTimer
      BY <1>3 DEF ReceiveLinkChangeReq
    <2>2. tx'[Endpoint] = Message("adopting", rxBuf[Endpoint].want)
      BY <1>1, <1>3 DEF ReceiveLinkChangeReq
    <2>3. /\ rxBuf[Endpoint].kind = "linkChangeReq" /\ ~rxBuf[Endpoint].dup
          /\ tx[Endpoint].kind = "none"
      BY <1>3 DEF ReceiveLinkChangeReq, Takes, Looping
    <2> QED
      BY <1>2, <2>1, <2>2, <2>3
  <1>4. CASE ReceiveHeartbeatReq(Endpoint, out)
    <2>1. /\ cur' = cur /\ prev' = prev /\ good' = good /\ linkTimer' = linkTimer
          /\ rxBuf[Endpoint].kind = "heartbeatReq" /\ tx[Endpoint].kind = "none"
      BY <1>4 DEF ReceiveHeartbeatReq, Takes, Looping
    <2>2. tx'[Endpoint].kind = "heartbeatRsp"
      BY <1>1, <1>4, Blank DEF ReceiveHeartbeatReq
    <2> QED
      BY <1>2, <2>1, <2>2
  <1>5. CASE ReceiveOther(Endpoint, out)
    <2>1. /\ cur' = cur /\ prev' = prev
          /\ good'[Base] = good[Base] /\ linkTimer'[Base] = linkTimer[Base]
      BY <1>1, <1>5 DEF ReceiveOther, FinishRx
    <2>2. /\ rxBuf[Endpoint].kind # "linkChangeReq" /\ tx[Endpoint].kind = "none"
          /\ tx'[Endpoint] = tx[Endpoint]
      BY <1>1, <1>5 DEF ReceiveOther, Takes, Looping
    <2> QED
      BY <1>2, <2>1, <2>2
  <1>6. CASE ReceiveDuplicate(Endpoint, out)
    <2>1. /\ cur' = cur /\ prev' = prev /\ good' = good /\ linkTimer' = linkTimer
          /\ rxBuf[Endpoint].dup /\ tx'[Endpoint] = tx[Endpoint]
      BY <1>1, <1>6 DEF ReceiveDuplicate
    <2> QED
      BY <1>2, <2>1
  <1>7. ~ReceiveLinkChangeRsp(Endpoint, out)
    BY DEF ReceiveLinkChangeRsp, Takes, Roles
  <1> QED
    BY <1>3, <1>4, <1>5, <1>6, <1>7

LEMMA BaseReceives ==
  ASSUME TypeOK, Roles, HeartbeatRoles, NEW out \in AckOutcomes(Base, rxBuf[Base]),
         \/ ReceiveLinkChangeReq(Base, out)
         \/ ReceiveLinkChangeRsp(Base, out)
         \/ ReceiveHeartbeatReq(Base, out)
         \/ ReceiveOther(Base, out)
         \/ ReceiveDuplicate(Base, out)
  PROVE  /\ rxBuf[Base].kind # "none" /\ rxBuf'[Base] = NoPacket
         /\ \/ rxBuf'[Endpoint] = rxBuf[Endpoint]
            \/ Beaten /\ rxBuf[Endpoint].kind = "none"
         /\ tx'[Base] = tx[Base]
         /\ tx'[Endpoint] = out /\ out.kind = tx[Endpoint].kind
         /\ cur' = cur /\ prev' = prev
         /\ \/ rxBuf[Base].dup /\ good' = good /\ linkTimer' = linkTimer
            \/ /\ ~rxBuf[Base].dup /\ tx[Base].kind = "none" /\ ~Overdue(Base)
               /\ good'[Base] = Counted(Base, 1)
               /\ linkTimer'[Base] =
                    AfterRx(IF rxBuf[Base].kind = "linkChangeRsp" THEN Started("awaitTrust")
                                                                  ELSE linkTimer[Base],
                            Counted(Base, 1))
  <1>1. /\ Base \in Node /\ Endpoint \in Node /\ Base # Endpoint
        /\ Peer(Base) = Endpoint /\ Emptied(Base)[Endpoint] = rxBuf[Endpoint]
        /\ good \in [Node -> 0 .. Trust + 1] /\ linkTimer \in [Node -> Timer]
        /\ tx \in [Node -> Sending] /\ rxBuf \in [Node -> Packet]
    BY TwoNodes DEF TypeOK, Node, Emptied
  <1>2. /\ rxBuf[Base].kind # "none" /\ rxBuf'[Base] = NoPacket
        /\ \/ rxBuf'[Endpoint] = rxBuf[Endpoint]
           \/ Beaten /\ rxBuf[Endpoint].kind = "none"
        /\ tx'[Endpoint] = out /\ out.kind = tx[Endpoint].kind
    <2>1. HeartbeatHeard(Base, Emptied(Base)) => Beaten /\ rxBuf[Endpoint].kind = "none"
      BY <1>1, Blank DEF HeartbeatHeard, Beaten
    <2> QED
      BY <1>1, <2>1, ReceiveEffect, AckOutcomesType
  <1>3. ~ReceiveLinkChangeReq(Base, out) /\ ~ReceiveHeartbeatReq(Base, out)
    BY DEF ReceiveLinkChangeReq, ReceiveHeartbeatReq, Takes, Roles, HeartbeatRoles
  <1>4. CASE ReceiveLinkChangeRsp(Base, out)
    <2>1. /\ cur' = cur /\ prev' = prev
          /\ ~rxBuf[Base].dup /\ tx[Base].kind = "none" /\ ~Overdue(Base)
          /\ rxBuf[Base].kind = "linkChangeRsp"
      BY <1>4 DEF ReceiveLinkChangeRsp, Takes, Looping
    <2>2. /\ tx'[Base] = tx[Base] /\ good'[Base] = Counted(Base, 1)
          /\ linkTimer'[Base] = AfterRx(Started("awaitTrust"), Counted(Base, 1))
      BY <1>1, <1>4 DEF ReceiveLinkChangeRsp
    <2> QED
      BY <1>2, <2>1, <2>2
  <1>5. CASE ReceiveOther(Base, out)
    <2>1. /\ ~rxBuf[Base].dup /\ tx[Base].kind = "none" /\ ~Overdue(Base)
          /\ rxBuf[Base].kind # "linkChangeRsp"
      BY <1>5 DEF ReceiveOther, Takes, Looping
    <2>2. /\ tx'[Base] = tx[Base] /\ good'[Base] = Counted(Base, 1)
          /\ linkTimer'[Base] = AfterRx(linkTimer[Base], Counted(Base, 1))
          /\ cur' = cur /\ prev' = prev
      BY <1>1, <1>5 DEF ReceiveOther, FinishRx
    <2> QED
      BY <1>2, <2>1, <2>2
  <1>6. CASE ReceiveDuplicate(Base, out)
    BY <1>1, <1>2, <1>6 DEF ReceiveDuplicate
  <1> QED
    BY <1>3, <1>4, <1>5, <1>6

LEMMA EndpointReturns ==
  ASSUME TypeOK, Roles, SendReturns(Endpoint)
  PROVE  /\ tx'[Endpoint] = NotSending /\ tx'[Base] = tx[Base]
         /\ rxBuf'[Endpoint] = rxBuf[Endpoint]
         /\ cur'[Base] = cur[Base] /\ prev'[Base] = prev[Base]
         /\ good'[Base] = good[Base] /\ linkTimer'[Base] = linkTimer[Base]
         /\ \/ /\ tx[Endpoint].acked /\ rxBuf'[Base] = rxBuf[Base]
               /\ cur' = cur /\ prev' = prev
            \/ /\ ~tx[Endpoint].acked
               /\ OrphanIn(Base)
               /\ IF Trying(Endpoint)
                    THEN cur'[Endpoint] = prev[Endpoint] /\ prev'[Endpoint] = cur[Endpoint]
                    ELSE cur' = cur /\ prev' = prev
  <1>1. /\ Base \in Node /\ Endpoint \in Node /\ Base # Endpoint /\ Peer(Endpoint) = Base
        /\ cur \in [Node -> Setting] /\ prev \in [Node -> Setting]
        /\ good \in [Node -> 0 .. Trust + 1] /\ linkTimer \in [Node -> Timer]
    BY TwoNodes DEF TypeOK, Node
  <1>2. /\ tx'[Endpoint] = NotSending /\ tx'[Base] = tx[Base]
        /\ rxBuf'[Endpoint] = rxBuf[Endpoint]
        /\ \/ tx[Endpoint].acked /\ rxBuf'[Base] = rxBuf[Base]
           \/ ~tx[Endpoint].acked /\ OrphanIn(Base)
    BY <1>1, ReturnEffect, OrphanEffect DEF HeartbeatHeard
  <1>3. CASE LinkChangeRspGivenUp(Endpoint)
    <2>1. /\ cur'[Endpoint] = prev[Endpoint] /\ prev'[Endpoint] = cur[Endpoint]
          /\ cur'[Base] = cur[Base] /\ prev'[Base] = prev[Base]
          /\ good'[Base] = good[Base] /\ linkTimer'[Base] = linkTimer[Base]
      BY <1>1, <1>3 DEF LinkChangeRspGivenUp, Revert, SetLink
    <2>2. Trying(Endpoint) /\ ~tx[Endpoint].acked
      BY <1>3 DEF LinkChangeRspGivenUp, Trying, RetriesOver
    <2> QED
      BY <1>2, <2>1, <2>2
  <1>4. CASE ~LinkChangeRspGivenUp(Endpoint)
    <2>1. cur' = cur /\ prev' = prev /\ (Trying(Endpoint) => tx[Endpoint].acked)
      BY <1>4 DEF SendReturns, LinkChangeReqAcked, LinkChangeRspAcked, HeartbeatRspAcked,
                  DataReqAcked, RequestGivenUp, HeartbeatRspGivenUp, FinishRx, Roles, Trying
    <2>2. good'[Base] = good[Base] /\ linkTimer'[Base] = linkTimer[Base]
      BY <1>1, <1>4
      DEF SendReturns, LinkChangeReqAcked, LinkChangeRspAcked, HeartbeatRspAcked,
          DataReqAcked, RequestGivenUp, HeartbeatRspGivenUp, FinishRx, Roles
    <2> QED
      BY <1>2, <2>1, <2>2
  <1> QED
    BY <1>3, <1>4

LEMMA BaseReturns ==
  ASSUME TypeOK, Roles, HeartbeatRoles, Delivery, SendReturns(Base)
  PROVE  /\ tx'[Base] = NotSending /\ tx'[Endpoint] = tx[Endpoint]
         /\ rxBuf'[Base] = rxBuf[Base]
         /\ cur'[Endpoint] = cur[Endpoint] /\ prev'[Endpoint] = prev[Endpoint]
         /\ \/ /\ tx[Base].kind = "linkChangeReq" /\ tx[Base].acked
               /\ rxBuf[Base].kind = "none" /\ rxBuf[Endpoint].kind = "none"
               /\ rxBuf'[Endpoint].kind # "linkChangeReq"
               /\ cur'[Base] = tx[Base].want /\ prev'[Base] = cur[Base]
               /\ good'[Base] = 0 /\ linkTimer'[Base] = Started("awaitRsp")
            \/ /\ tx[Base].kind = "dataReq" /\ tx[Base].acked
               /\ rxBuf[Base].kind = "none" /\ rxBuf' = rxBuf
               /\ cur' = cur /\ prev' = prev
               /\ good'[Base] = Counted(Base, 1) /\ linkTimer' = linkTimer
            \/ /\ OrphanIn(Endpoint)
               /\ cur' = cur /\ prev' = prev /\ good' = good /\ linkTimer' = linkTimer
  <1>1. /\ Base \in Node /\ Endpoint \in Node /\ Base # Endpoint /\ Peer(Base) = Endpoint
        /\ cur \in [Node -> Setting] /\ prev \in [Node -> Setting]
        /\ good \in [Node -> 0 .. Trust + 1] /\ linkTimer \in [Node -> Timer]
        /\ rxBuf \in [Node -> Packet]
    BY TwoNodes DEF TypeOK, Node
  <1>2. /\ tx'[Base] = NotSending /\ tx'[Endpoint] = tx[Endpoint]
        /\ rxBuf'[Base] = rxBuf[Base]
    BY <1>1, ReturnEffect
  <1>3. tx[Base].acked => rxBuf[Base].kind = "none" /\ rxBuf[Endpoint].kind = "none"
    BY <1>1 DEF Delivery, Cleared
  <1>4. CASE LinkChangeReqAcked(Base)
    <2>1. /\ cur'[Base] = tx[Base].want /\ prev'[Base] = cur[Base]
          /\ cur'[Endpoint] = cur[Endpoint] /\ prev'[Endpoint] = prev[Endpoint]
          /\ good'[Base] = 0 /\ linkTimer'[Base] = Started("awaitRsp")
      BY <1>1, <1>4 DEF LinkChangeReqAcked, SetLink
    <2>2. tx[Base].kind = "linkChangeReq" /\ tx[Base].acked
      BY <1>4 DEF LinkChangeReqAcked
    <2>3. rxBuf'[Endpoint].kind # "linkChangeReq"
      BY <1>1, <1>3, <1>4, <2>2, HeartbeatKind DEF LinkChangeReqAcked
    <2> QED
      BY <1>2, <1>3, <2>1, <2>2, <2>3
  <1>5. CASE DataReqAcked(Base)
    <2>1. /\ good'[Base] = Counted(Base, 1) /\ rxBuf' = rxBuf
          /\ cur' = cur /\ prev' = prev /\ linkTimer' = linkTimer
          /\ tx[Base].kind = "dataReq" /\ tx[Base].acked
      BY <1>1, <1>5 DEF DataReqAcked
    <2> QED
      BY <1>2, <1>3, <2>1
  <1>6. CASE RequestGivenUp(Base)
    <2>1. OrphanIn(Endpoint)
      BY <1>1, <1>6, OrphanEffect DEF RequestGivenUp, Orphaned
    <2>2. cur' = cur /\ prev' = prev /\ good' = good /\ linkTimer' = linkTimer
      BY <1>6 DEF RequestGivenUp
    <2> QED
      BY <1>2, <2>1, <2>2
  <1> QED
    BY <1>4, <1>5, <1>6
    DEF SendReturns, LinkChangeRspAcked, HeartbeatRspAcked, LinkChangeRspGivenUp,
        HeartbeatRspGivenUp, Roles, HeartbeatRoles

LEMMA HeartbeatRolesInit == Init => HeartbeatRoles
  BY Blank DEF Init, HeartbeatRoles, Node

LEMMA HeartbeatRolesStep ==
  TypeOK /\ Roles /\ HeartbeatRoles /\ Delivery /\ [Next]_vars => HeartbeatRoles'
  <1> SUFFICES ASSUME TypeOK, Roles, HeartbeatRoles, Delivery, [Next]_vars
               PROVE  HeartbeatRoles'
    OBVIOUS
  <1>1. /\ Base \in Node /\ Endpoint \in Node /\ Base # Endpoint
        /\ \A n \in Node : n = Base \/ n = Endpoint
        /\ Peer(Base) = Endpoint /\ Peer(Endpoint) = Base
        /\ tx \in [Node -> Sending] /\ rxBuf \in [Node -> Packet]
    BY TwoNodes DEF TypeOK, Node
  <1>2. CASE Tick
    <2>1. \A n \in Node : tx'[n].kind = tx[n].kind
      BY <1>1, <1>2 DEF Tick, Sending
    <2> QED
      BY <1>1, <1>2, <2>1 DEF Tick, HeartbeatRoles
  <1>3. CASE (\E want \in Setting : RequestLinkChange(want)) \/ (\E n \in Node : SendData(n))
    <2>1. \A n \in Node : tx'[n].kind \in {tx[n].kind, "linkChangeReq", "dataReq"}
      BY <1>1, <1>3, Blank DEF RequestLinkChange, SendData
    <2> QED
      BY <1>1, <1>3, <2>1 DEF RequestLinkChange, SendData, HeartbeatRoles
  <1>4. CASE \E n \in Node : Arrive(n)
    <2>1. tx' = tx /\ rxBuf'[Base].kind \in {rxBuf[Base].kind, tx[Endpoint].kind}
      BY <1>1, <1>4 DEF Arrive
    <2> QED
      BY <1>1, <2>1 DEF HeartbeatRoles
  <1>5. CASE ServiceRx(Base)
    BY <1>1, <1>5, BaseReceives, Blank DEF ServiceRx, HeartbeatRoles
  <1>6. CASE ServiceRx(Endpoint)
    BY <1>1, <1>6, EndpointReceives, Blank DEF ServiceRx, HeartbeatRoles
  <1>7. CASE \E n \in Node : Discard(n)
    <2>1. tx' = tx /\ rxBuf'[Base].kind \in {rxBuf[Base].kind, "none"}
      BY <1>1, <1>7, Blank DEF Discard, Emptied
    <2> QED
      BY <1>1, <2>1 DEF HeartbeatRoles
  <1>8. CASE SendReturns(Base)
    BY <1>1, <1>8, BaseReturns, Blank DEF HeartbeatRoles
  <1>9. CASE SendReturns(Endpoint)
    BY <1>1, <1>9, EndpointReturns, Blank DEF HeartbeatRoles, OrphanIn
  <1>10. CASE \E n \in Node : LinkTimerExpires(n) \/ HeartbeatExpires(n)
    <2>1. PICK n \in Node : tx' = tx /\ ServiceHeartbeat(n, rxBuf)
      BY <1>10 DEF LinkTimerExpires, HeartbeatExpires
    <2>2. rxBuf'[Base] = rxBuf[Base]
      BY <1>1, <2>1, HeartbeatEffect DEF HeartbeatHeard
    <2> QED
      BY <2>1, <2>2 DEF HeartbeatRoles
  <1>11. ASSUME NEW n \in RestartNodes, Restart(n)
         PROVE  HeartbeatRoles'
    <2>1. n \in Node /\ Peer(n) \in Node /\ n # Peer(n) /\ \A m \in Node : m = n \/ m = Peer(n)
      BY OperatorAssumption, TwoNodes DEF Node
    <2>2. /\ tx'[n] = NotSending /\ tx'[Peer(n)] = [tx[Peer(n)] EXCEPT !.seen = FALSE]
          /\ rxBuf'[n] = NoPacket /\ rxBuf'[Peer(n)] = [rxBuf[Peer(n)] EXCEPT !.live = FALSE]
      BY <1>1, <1>11, <2>1 DEF Restart
    <2>3. /\ tx'[n].kind = "none" /\ tx'[Peer(n)].kind = tx[Peer(n)].kind
          /\ rxBuf'[n].kind = "none" /\ rxBuf'[Peer(n)].kind = rxBuf[Peer(n)].kind
      BY <1>1, <2>1, <2>2, Blank DEF Sending, Packet
    <2> QED
      BY <1>1, <2>1, <2>3 DEF HeartbeatRoles
  <1>12. CASE \/ UNCHANGED vars
              \/ \E n \in CommandNodes, p \in Param : \E v \in Valid[p] : Command(n, p, v)
    BY <1>12 DEF vars, Command, HeartbeatRoles
  <1>13. CASE \E n \in Node : AdoptLinkChangeReq(n)
    BY <1>1, <1>13, EndpointAdopts, Blank DEF HeartbeatRoles
  <1> QED
    BY <1>1, <1>2, <1>3, <1>4, <1>5, <1>6, <1>7, <1>8, <1>9, <1>10, <1>11, <1>12, <1>13 DEF Next

-----------------------------------------------------------------------------
(* A response in time *)

\* The user does not ask for another change while the timer of one runs.
Patient == tx[Base].kind = "linkChangeReq" => ~Running(Base)

\* The endpoint has a request to carry out, in its driver or in its hands.
Requested ==
  \/ rxBuf[Endpoint].kind = "linkChangeReq" /\ ~rxBuf[Endpoint].dup
  \/ tx[Endpoint].kind = "adopting"

\* No time passes between the start of the base's timer and the moment at which the
\* endpoint adopts what was requested.
RequestFresh == Requested /\ Running(Base) => linkTimer[Base].elapsed = 0

\* The endpoint responds on the settings that it tries, for as long as the retries
\* take on them.
TrialWaits ==
  Trying(Endpoint) => /\ tx[Endpoint].want = cur[Endpoint]
                      /\ tx[Endpoint].waited <= SendWait[cur[Endpoint]]

\* Since the endpoint began to respond, or since a later reset, the base's timer ran
\* no longer than the endpoint waited.
Paced ==
  Trying(Endpoint) /\ Running(Base) => linkTimer[Base].elapsed <= tx[Endpoint].waited

\* The response in the base's driver came on the settings that the base has, and its
\* timer is not yet due.
ResponseFresh ==
  /\ rxBuf[Base].kind = "linkChangeRsp" /\ ~rxBuf[Base].dup
  /\ SendWait[rxBuf[Base].want] < RspWait
  => /\ Compatible(cur[Base], rxBuf[Base].want)
     /\ Running(Base) => linkTimer[Base].elapsed < RspWait

Timely == Patient /\ RequestFresh /\ TrialWaits /\ Paced /\ ResponseFresh

LEMMA TimelyInit == Init => Timely
  BY Blank DEF Init, Timely, Patient, RequestFresh, Requested, TrialWaits, Paced, ResponseFresh,
               Node, Trying

LEMMA AfterRxEffect ==
  ASSUME NEW timer \in Timer, NEW count
  PROVE  /\ AfterRx(timer, count) \in Timer
         /\ AfterRx(timer, count).wait \in {"off", timer.wait}
         /\ AfterRx(timer, count).elapsed = 0
         /\ AfterRx(timer, count).wait = "off" => timer.wait = "off" \/ count > Trust
  BY DEF AfterRx, Timer, Stopped, Started

\* A timer that is due has run for RspWait at least.
LEMMA OverdueWaited ==
  ASSUME TypeOK, Overdue(Base)
  PROVE  linkTimer[Base].elapsed >= RspWait
  BY DEF TypeOK, Overdue, Timeout, Timer, Node

LEMMA TimelyReceives ==
  ASSUME TypeOK, Roles, HeartbeatRoles, Delivery, Timely, ServiceRx(Base) \/ ServiceRx(Endpoint)
  PROVE  Timely'
  <1>1. /\ Base \in Node /\ Endpoint \in Node /\ Peer(Base) = Endpoint /\ Peer(Endpoint) = Base
        /\ linkTimer[Base] \in Timer /\ tx[Endpoint] \in Sending
        /\ rxBuf[Endpoint].want \in Setting
        /\ cur[Endpoint] \in Setting /\ cur[Base] \in Setting
    BY TwoNodes DEF TypeOK, Packet, Node
  <1>2. /\ linkTimer[Base].elapsed \in Nat /\ tx[Endpoint].waited \in Nat
        /\ \A s \in Setting : SendWait[s] \in Nat
    BY <1>1 DEF Timer, Sending
  <1>3. CASE ServiceRx(Base)
    <2>1. PICK out \in AckOutcomes(Base, rxBuf[Base]) :
            \/ ReceiveLinkChangeReq(Base, out) \/ ReceiveLinkChangeRsp(Base, out)
            \/ ReceiveHeartbeatReq(Base, out) \/ ReceiveOther(Base, out)
            \/ ReceiveDuplicate(Base, out)
      BY <1>3 DEF ServiceRx
    <2>2. /\ rxBuf'[Base].kind = "none"
          /\ rxBuf'[Endpoint] = rxBuf[Endpoint] \/ rxBuf'[Endpoint].kind = "heartbeatReq"
          /\ tx'[Base] = tx[Base] /\ tx'[Endpoint].kind = tx[Endpoint].kind
          /\ tx'[Endpoint].want = tx[Endpoint].want
          /\ tx'[Endpoint].waited = tx[Endpoint].waited
          /\ cur' = cur
          /\ \/ linkTimer' = linkTimer
             \/ linkTimer'[Base].elapsed = 0 /\ tx[Base].kind = "none"
      <3>1. \A t \in Timer : \A c : AfterRx(t, c).elapsed = 0
        BY AfterRxEffect
      <3>2. IF rxBuf[Base].kind = "linkChangeRsp" THEN Started("awaitTrust") \in Timer
                                                  ELSE linkTimer[Base] \in Timer
        BY <1>1, InitialTypes
      <3> QED
        BY <1>1, <2>1, <3>1, <3>2, BaseReceives, AckOutcomesType, AckOutcomesEffect, Blank
        DEF Beaten
    <2>3. Patient' /\ RequestFresh' /\ TrialWaits' /\ Paced'
      BY <1>2, <2>2 DEF Timely, Patient, RequestFresh, Requested, TrialWaits, Paced, Trying, Running
    <2> QED
      BY <2>2, <2>3 DEF Timely, ResponseFresh
  <1>4. CASE ServiceRx(Endpoint)
    <2>1. PICK out \in AckOutcomes(Endpoint, rxBuf[Endpoint]) :
            \/ ReceiveLinkChangeReq(Endpoint, out) \/ ReceiveLinkChangeRsp(Endpoint, out)
            \/ ReceiveHeartbeatReq(Endpoint, out) \/ ReceiveOther(Endpoint, out)
            \/ ReceiveDuplicate(Endpoint, out)
      BY <1>4 DEF ServiceRx
    <2>2. /\ rxBuf'[Endpoint].kind = "none" /\ rxBuf'[Base] = rxBuf[Base]
          /\ tx'[Base].kind = tx[Base].kind
          /\ cur'[Base] = cur[Base] /\ linkTimer'[Base] = linkTimer[Base]
          /\ cur'[Endpoint] = cur[Endpoint]
          /\ \/ /\ rxBuf[Endpoint].kind = "linkChangeReq" /\ ~rxBuf[Endpoint].dup
                /\ tx'[Endpoint].kind = "adopting"
             \/ tx'[Endpoint] = tx[Endpoint] \/ tx'[Endpoint].kind = "heartbeatRsp"
      BY <1>1, <2>1, EndpointReceives, Blank
    <2>3. Patient' /\ RequestFresh' /\ ResponseFresh'
      BY <2>2 DEF Timely, Patient, RequestFresh, Requested, ResponseFresh, Running
    <2>4. TrialWaits' /\ Paced'
      BY <1>2, <2>2 DEF Timely, TrialWaits, Paced, RequestFresh, Requested, Trying, Running
    <2> QED
      BY <2>3, <2>4 DEF Timely
  <1> QED
    BY <1>3, <1>4

\* The timer has not moved when the endpoint begins to respond.
LEMMA TimelyAdopts ==
  ASSUME TypeOK, Roles, Timely, NEW n \in Node, AdoptLinkChangeReq(n)
  PROVE  Timely'
  <1>1. /\ tx[Endpoint].kind = "adopting" /\ tx'[Endpoint].kind = "linkChangeRsp"
        /\ tx'[Endpoint].want = cur'[Endpoint] /\ tx'[Endpoint].waited = 0
        /\ tx'[Base] = tx[Base] /\ rxBuf' = rxBuf /\ linkTimer' = linkTimer
        /\ cur'[Base] = cur[Base]
    BY EndpointAdopts, Blank
  <1>2. cur'[Endpoint] \in Setting
    BY EndpointAdopts DEF TypeOK, Sending, Node
  <1>3. SendWait[cur'[Endpoint]] \in Nat
    BY <1>2
  <1> QED
    BY <1>1, <1>3 DEF Timely, Patient, RequestFresh, Requested, TrialWaits, Paced,
                      ResponseFresh, Trying, Running

LEMMA TimelyReturns ==
  ASSUME TypeOK, Roles, HeartbeatRoles, Delivery, Timely,
         SendReturns(Base) \/ SendReturns(Endpoint)
  PROVE  Timely'
  <1>1. /\ Base \in Node /\ Endpoint \in Node
        /\ rxBuf[Base] \in Packet /\ rxBuf[Endpoint] \in Packet /\ tx[Endpoint] \in Sending
    BY DEF TypeOK, Node
  <1>2. CASE SendReturns(Base)
    <2>1. /\ tx'[Base].kind = "none" /\ tx'[Endpoint] = tx[Endpoint]
          /\ rxBuf'[Base] = rxBuf[Base] /\ cur'[Endpoint] = cur[Endpoint]
          /\ \/ /\ rxBuf'[Endpoint].kind # "linkChangeReq" /\ rxBuf[Base].kind = "none"
                /\ linkTimer'[Base].elapsed = 0
             \/ /\ cur' = cur /\ linkTimer' = linkTimer
                /\ rxBuf'[Endpoint].kind = rxBuf[Endpoint].kind
                /\ rxBuf'[Endpoint].dup = rxBuf[Endpoint].dup
      BY <1>1, <1>2, BaseReturns, Blank DEF Started, OrphanIn
    <2>2. tx[Endpoint].waited \in Nat
      BY <1>1 DEF Sending
    <2> QED
      BY <2>1, <2>2 DEF Timely, Patient, RequestFresh, Requested, TrialWaits, Paced, ResponseFresh,
                        Trying, Running
  <1>3. CASE SendReturns(Endpoint)
    <2>1. /\ tx'[Base] = tx[Base] /\ tx'[Endpoint].kind = "none"
          /\ cur'[Base] = cur[Base] /\ linkTimer'[Base] = linkTimer[Base]
          /\ rxBuf'[Endpoint] = rxBuf[Endpoint]
          /\ rxBuf'[Base].kind = rxBuf[Base].kind /\ rxBuf'[Base].want = rxBuf[Base].want
          /\ rxBuf'[Base].dup = rxBuf[Base].dup
      BY <1>1, <1>3, EndpointReturns, Blank DEF OrphanIn
    <2> QED
      BY <2>1 DEF Timely, Patient, RequestFresh, Requested, TrialWaits, Paced, ResponseFresh,
                  Trying, Running
  <1> QED
    BY <1>2, <1>3

LEMMA TimelyTick ==
  ASSUME TypeOK, Timely, Tick
  PROVE  Timely'
  <1>1. /\ Base \in Node /\ Endpoint \in Node
        /\ linkTimer \in [Node -> Timer] /\ tx \in [Node -> Sending] /\ cur[Endpoint] \in Setting
    BY DEF TypeOK, Node
  <1>2. /\ linkTimer[Base].elapsed \in Nat /\ tx[Endpoint].waited \in Nat
        /\ SendWait[cur[Endpoint]] \in Nat
    BY <1>1 DEF Timer, Sending
  <1>3. rxBuf' = rxBuf /\ cur' = cur /\ rxBuf[Base].kind = "none" /\ rxBuf[Endpoint].kind = "none"
    BY <1>1 DEF Tick, Idle
  <1>4. /\ tx'[Base].kind = tx[Base].kind /\ tx'[Endpoint].kind = tx[Endpoint].kind
        /\ tx'[Endpoint].want = tx[Endpoint].want
        /\ tx[Endpoint].kind # "none" => tx'[Endpoint].waited = tx[Endpoint].waited + 1
    BY <1>1 DEF Tick, Looping, Sending
  <1>5. /\ linkTimer'[Base].wait = linkTimer[Base].wait
        /\ linkTimer'[Base].elapsed \in {linkTimer[Base].elapsed, linkTimer[Base].elapsed + 1}
    BY <1>1 DEF Tick, Timer
  <1>6. /\ tx[Endpoint].kind # "adopting"
        /\ Trying(Endpoint) => tx[Endpoint].waited < SendWait[cur[Endpoint]]
    BY <1>1 DEF Tick, Idle, Looping, Deaf, Trying
  <1>7. Patient' /\ RequestFresh' /\ ResponseFresh'
    BY <1>3, <1>4, <1>5, <1>6 DEF Timely, Patient, RequestFresh, Requested, ResponseFresh, Running
  <1>8. TrialWaits' /\ Paced'
    BY <1>2, <1>3, <1>4, <1>5, <1>6 DEF Timely, TrialWaits, Paced, Trying, Running
  <1> QED
    BY <1>7, <1>8 DEF Timely

LEMMA TimelyArrive ==
  ASSUME TypeOK, Timely, NEW n \in Node, Arrive(n)
  PROVE  Timely'
  <1>1. /\ Base \in Node /\ Endpoint \in Node /\ Base # Endpoint
        /\ Peer(Base) = Endpoint /\ Peer(Endpoint) = Base
        /\ tx[Endpoint] \in Sending /\ linkTimer[Base] \in Timer /\ cur[Endpoint] \in Setting
        /\ rxBuf \in [Node -> Packet]
    BY TwoNodes DEF TypeOK, Node
  <1>2. /\ linkTimer[Base].elapsed \in Nat /\ tx[Endpoint].waited \in Nat
        /\ SendWait[cur[Endpoint]] \in Nat
    BY <1>1 DEF Timer, Sending
  <1>3. cur' = cur /\ linkTimer' = linkTimer /\ tx' = tx
    BY DEF Arrive
  <1>4. CASE n = Base
    <2>1. /\ rxBuf'[Endpoint] = rxBuf[Endpoint]
          /\ rxBuf'[Base].kind = tx[Endpoint].kind /\ rxBuf'[Base].want = tx[Endpoint].want
          /\ Compatible(cur[Base], cur[Endpoint])
      BY <1>1, <1>4 DEF Arrive
    <2>2. ResponseFresh'
      BY <1>2, <1>3, <2>1 DEF Timely, TrialWaits, Paced, ResponseFresh, Trying, Running
    <2> QED
      BY <1>3, <2>1, <2>2 DEF Timely, Patient, RequestFresh, Requested, TrialWaits, Paced, Trying, Running
  <1>5. CASE n = Endpoint
    <2>1. rxBuf'[Base] = rxBuf[Base] /\ rxBuf'[Endpoint].kind = tx[Base].kind
      BY <1>1, <1>5 DEF Arrive
    <2> QED
      BY <1>3, <2>1 DEF Timely, Patient, RequestFresh, Requested, TrialWaits, Paced, ResponseFresh,
                        Trying, Running
  <1> QED
    BY <1>4, <1>5 DEF Node

\* The timer of the base cannot expire on a response that is still in time.
LEMMA TimelyExpires ==
  ASSUME TypeOK, Roles, Timely, NEW n \in Node, LinkTimerExpires(n) \/ HeartbeatExpires(n)
  PROVE  Timely'
  <1>1. /\ Base \in Node /\ Endpoint \in Node /\ Base # Endpoint
        /\ linkTimer \in [Node -> Timer] /\ cur \in [Node -> Setting]
        /\ rxBuf \in [Node -> Packet]
    BY DEF TypeOK, Node
  <1>2. tx' = tx /\ ServiceHeartbeat(n, rxBuf)
    BY DEF LinkTimerExpires, HeartbeatExpires
  <1>3. /\ rxBuf'[Base] = rxBuf[Base]
        /\ rxBuf'[Endpoint] = rxBuf[Endpoint] \/ rxBuf'[Endpoint].kind = "heartbeatReq"
    <2>1. CASE n = Base
      BY <1>1, <1>2, <2>1, BaseHeartbeat DEF Beaten
    <2>2. CASE n = Endpoint
      BY <1>1, <1>2, <2>2, HeartbeatEffect, TwoNodes DEF HeartbeatHeard
    <2> QED
      BY <2>1, <2>2 DEF Node
  <1>4. CASE HeartbeatExpires(n)
    <2>1. cur' = cur /\ linkTimer' = linkTimer
      BY <1>4 DEF HeartbeatExpires
    <2> QED
      BY <1>2, <1>3, <2>1 DEF Timely, Patient, RequestFresh, Requested, TrialWaits, Paced, ResponseFresh,
                             Trying, Running
  <1>5. CASE LinkTimerExpires(n)
    <2>1. n = Base
      BY <1>5 DEF LinkTimerExpires, Overdue, Running, Roles, Node
    <2>2. /\ cur'[Endpoint] = cur[Endpoint] /\ linkTimer'[Base].wait = "off"
          /\ Running(Base) /\ Overdue(Base)
      BY <1>1, <1>5, <2>1 DEF LinkTimerExpires, Revert, SetLink, Overdue, Stopped, Started
    <2>3. linkTimer[Base].elapsed \in Nat /\ linkTimer[Base].elapsed >= RspWait
      BY <1>1, <2>2, OverdueWaited DEF Timer
    <2>4. ResponseFresh'
      BY <1>3, <2>2, <2>3 DEF Timely, ResponseFresh
    <2> QED
      BY <1>2, <1>3, <2>2, <2>4 DEF Timely, Patient, RequestFresh, Requested, TrialWaits, Paced,
                                    Trying, Running
  <1> QED
    BY <1>4, <1>5

LEMMA TimelyStep ==
  ASSUME TypeOK, Roles, HeartbeatRoles, Delivery, Timely, [Next]_vars,
         Base \notin CommandNodes, OverlappingRequests = FALSE
  PROVE  Timely'
  <1>1. /\ Base \in Node /\ Endpoint \in Node /\ Base # Endpoint
        /\ Peer(Base) = Endpoint /\ Peer(Endpoint) = Base
        /\ \A n \in Node : n = Base \/ n = Endpoint
        /\ tx \in [Node -> Sending] /\ rxBuf \in [Node -> Packet]
        /\ cur \in [Node -> Setting] /\ linkTimer \in [Node -> Timer]
    BY TwoNodes DEF TypeOK, Node
  <1>2. CASE \E want \in Setting : RequestLinkChange(want)
    <2>1. /\ ~Running(Base) /\ tx'[Endpoint] = tx[Endpoint]
          /\ cur' = cur /\ linkTimer' = linkTimer /\ rxBuf' = rxBuf
      BY <1>1, <1>2 DEF RequestLinkChange
    <2> QED
      BY <2>1 DEF Timely, Patient, RequestFresh, Requested, TrialWaits, Paced, ResponseFresh,
                  Trying, Running
  <1>3. ASSUME NEW n \in Node, SendData(n)
        PROVE  Timely'
    <2>1. /\ \A m \in Node : tx'[m] = tx[m] \/ tx'[m].kind = "dataReq"
          /\ cur' = cur /\ linkTimer' = linkTimer /\ rxBuf' = rxBuf
      BY <1>1, <1>3, Blank DEF SendData
    <2> QED
      BY <1>1, <2>1 DEF Timely, Patient, RequestFresh, Requested, TrialWaits, Paced, ResponseFresh,
                        Trying, Running
  <1>4. ASSUME NEW n \in Node, Discard(n)
        PROVE  Timely'
    <2>1. /\ \A m \in Node : rxBuf'[m] = rxBuf[m] \/ rxBuf'[m].kind = "none"
          /\ cur' = cur /\ linkTimer' = linkTimer /\ tx' = tx
      BY <1>1, <1>4, Blank DEF Discard, Emptied
    <2> QED
      BY <1>1, <2>1 DEF Timely, Patient, RequestFresh, Requested, TrialWaits, Paced, ResponseFresh,
                        Trying, Running
  <1>5. ASSUME NEW n \in CommandNodes, NEW p \in Param, NEW v \in Valid[p], Command(n, p, v)
        PROVE  Timely'
    <2>1. n = Endpoint
      BY OperatorAssumption
    <2>2. /\ cur'[Base] = cur[Base] /\ linkTimer' = linkTimer /\ tx' = tx /\ rxBuf' = rxBuf
          /\ ~Trying(Endpoint)
      BY <1>1, <1>5, <2>1 DEF Command, Looping, Trying
    <2> QED
      BY <2>2 DEF Timely, Patient, RequestFresh, Requested, TrialWaits, Paced, ResponseFresh,
                  Trying, Running
  <1>6. ASSUME NEW n \in RestartNodes, Restart(n)
        PROVE  Timely'
    <2>1. CASE n = Base
      <3>1. /\ tx'[Base] = NotSending /\ tx'[Endpoint] = [tx[Endpoint] EXCEPT !.seen = FALSE]
            /\ rxBuf'[Base] = NoPacket /\ linkTimer'[Base] = Stopped
            /\ cur'[Endpoint] = cur[Endpoint]
        BY <1>1, <1>6, <2>1 DEF Restart
      <3>2. /\ tx'[Endpoint].kind = tx[Endpoint].kind /\ tx'[Endpoint].want = tx[Endpoint].want
            /\ tx'[Endpoint].waited = tx[Endpoint].waited
        BY <1>1, <3>1 DEF Sending
      <3>3. tx'[Base].kind = "none" /\ rxBuf'[Base].kind = "none" /\ linkTimer'[Base].wait = "off"
        BY <3>1, Blank DEF Stopped, Started
      <3> QED
        BY <3>1, <3>2, <3>3 DEF Timely, Patient, RequestFresh, Requested, TrialWaits, Paced,
                                ResponseFresh, Trying, Running
    <2>2. CASE n = Endpoint
      <3>1. /\ tx'[Endpoint] = NotSending /\ tx'[Base] = [tx[Base] EXCEPT !.seen = FALSE]
            /\ rxBuf'[Endpoint] = NoPacket /\ linkTimer'[Base] = linkTimer[Base]
            /\ cur'[Base] = cur[Base] /\ rxBuf'[Base] = [rxBuf[Base] EXCEPT !.live = FALSE]
        BY <1>1, <1>6, <2>2 DEF Restart
      <3>2. tx'[Base].kind = tx[Base].kind /\ OrphanIn(Base)
        BY <1>1, <3>1, OrphanEffect DEF Sending
      <3>3. tx'[Endpoint].kind = "none" /\ rxBuf'[Endpoint].kind = "none"
        BY <3>1, Blank
      <3> QED
        BY <3>1, <3>2, <3>3 DEF Timely, Patient, RequestFresh, Requested, TrialWaits, Paced,
                                ResponseFresh, Trying, Running, OrphanIn
    <2> QED
      BY <2>1, <2>2, OperatorAssumption
  <1>7. CASE UNCHANGED vars
    BY <1>7 DEF vars, Timely, Patient, RequestFresh, Requested, TrialWaits, Paced, ResponseFresh,
                Trying, Running
  <1> QED
    BY <1>1, <1>2, <1>3, <1>4, <1>5, <1>6, <1>7, TimelyTick, TimelyArrive, TimelyExpires,
       TimelyReceives, TimelyAdopts, TimelyReturns DEF Next

\* If the user waits for a change to end before he asks for another, and does not
\* command the base, the base handles a response on the settings on which it was sent,
\* as long as the retries of a response end on these before the timer does
\* (cpp:502): whatever is lost or repeated, and if both ends lose power at any time.
THEOREM ResponseComesInTime ==
  ASSUME Base \notin CommandNodes, OverlappingRequests = FALSE
  PROVE  Spec => ResponseInTime
  <1> DEFINE I == TypeOK /\ Roles /\ HeartbeatRoles /\ Delivery /\ Timely
  <1>1. Init => I
    BY TypeInit, RolesInit, HeartbeatRolesInit, DeliveryInit, TimelyInit
  <1>2. I /\ [Next]_vars => I'
    BY TypeStep, RolesStep, HeartbeatRolesStep, DeliveryStep, TimelyStep
  <1>3. I => \A out \in AckOutcomes(Base, rxBuf[Base]) :
               ReceiveLinkChangeRsp(Base, out) /\ SendWait[rxBuf[Base].want] < RspWait =>
                 Compatible(cur[Base], rxBuf[Base].want)
    BY DEF Timely, ResponseFresh, ReceiveLinkChangeRsp, Takes
  <1> QED
    BY <1>1, <1>2, <1>3, PTL DEF Spec, ResponseInTime

-----------------------------------------------------------------------------
(* What makes a success count *)

\* The endpoint is, or will be, on settings on which the base reaches it.
Agree == Compatible(cur[Base], Stable(Endpoint))

\* The base sends its message on the settings on which the endpoint took it: a data
\* message is not seen from the request to the end of a trial, and no request is taken
\* before it has returned.
DataSeen ==
  tx[Base].kind = "dataReq" =>
    /\ tx[Base].seen => ~Trying(Endpoint) /\ tx[Endpoint].kind # "adopting"
    /\ tx[Base].acked => tx[Base].seen /\ Compatible(cur[Base], cur[Endpoint])

\* A request that was seen found the two in agreement, and the trial that it began
\* has not been heard of.
RequestSeen ==
  tx[Base].kind = "linkChangeReq" =>
    /\ tx[Base].seen => Agree /\ (Trying(Endpoint) => ~tx[Endpoint].seen)
    /\ tx[Base].acked => tx[Base].seen

\* A request that the endpoint is about to take finds the two in agreement.
RequestTaken ==
  rxBuf[Endpoint].kind = "linkChangeReq" /\ ~rxBuf[Endpoint].dup =>
    Agree /\ Compatible(cur[Base], cur[Endpoint])

\* A request that the endpoint is about to adopt found the two in agreement; if the base
\* has adopted it already, it has heard nothing since.
AdoptionAgrees ==
  tx[Endpoint].kind = "adopting" =>
    Agree \/ (good[Base] = 0 /\ rxBuf[Base].kind = "none" /\ Running(Base))

\* While the base waits for a response it has heard none, and no second request is
\* on its way.
Awaiting ==
  linkTimer[Base].wait = "awaitRsp" =>
    /\ FallbackIsStable
    /\ Trying(Endpoint) => ~tx[Endpoint].seen
    /\ rxBuf[Endpoint].kind # "linkChangeReq"

\* A base without a trial agrees with the settings from which the endpoint tries others.
TrialAgrees == Trying(Endpoint) /\ ~Running(Base) => Agree

\* The first success after a change of settings may be a response that the endpoint
\* rolls back; then its acknowledgement is still awaited.
FirstSuccess ==
  /\ rxBuf[Base].kind # "none" /\ ~rxBuf[Base].dup =>
       Agree \/ (good[Base] = 0 /\ (Trying(Endpoint) => rxBuf[Base].live))
  /\ Trying(Endpoint) /\ ~tx[Endpoint].seen => Agree \/ good[Base] = 0

\* The endpoint keeps what it tries only if the base, unless it has counted nothing,
\* is there too.
KeptTogether ==
  Trying(Endpoint) /\ tx[Endpoint].acked =>
    /\ tx[Endpoint].seen
    /\ Compatible(cur[Base], cur[Endpoint]) \/ good[Base] = 0

Agreement ==
  /\ DataSeen /\ RequestSeen /\ RequestTaken /\ AdoptionAgrees /\ Awaiting
  /\ TrialAgrees /\ FirstSuccess /\ KeptTogether /\ SuccessesMeanAgreement

LEMMA CompatibleSymmetric == \A s, t : Compatible(s, t) <=> Compatible(t, s)
  BY DEF Compatible

LEMMA TheTwo ==
  /\ Base \in Node /\ Endpoint \in Node /\ Base # Endpoint
  /\ Peer(Base) = Endpoint /\ Peer(Endpoint) = Base
  /\ \A n \in Node : n = Base \/ n = Endpoint
  BY DEF Node, Peer

\* The properties that a step keeps if it leaves settings and counters alone.
LEMMA AgreementKept ==
  ASSUME Agreement,
         cur' = cur, prev' = prev, good'[Base] = good[Base],
         linkTimer'[Base].wait = linkTimer[Base].wait,
         \A n \in Node : \/ /\ tx'[n].kind = tx[n].kind /\ tx'[n].seen = tx[n].seen
                            /\ tx'[n].acked = tx[n].acked
                         \/ /\ tx[n].kind = "none"
                            /\ tx'[n].kind \notin {"adopting", "linkChangeRsp"}
                            /\ ~tx'[n].seen /\ ~tx'[n].acked,
         \A n \in Node : \/ rxBuf'[n] = rxBuf[n]
                         \/ rxBuf'[n].kind = "none"
                         \/ n = Endpoint /\ rxBuf'[n].kind = "heartbeatReq"
  PROVE  Agreement'
  <1>1. Base \in Node /\ Endpoint \in Node
    BY DEF Node
  <1>2. /\ Trying(Endpoint)' <=> Trying(Endpoint)
        /\ Running(Base)' <=> Running(Base)
        /\ Agree' <=> Agree
    BY <1>1 DEF Trying, Running, Agree, Stable
  <1>3. DataSeen'
    BY <1>1, <1>2 DEF Agreement, DataSeen
  <1>4. RequestSeen'
    BY <1>1, <1>2 DEF Agreement, RequestSeen, Trying
  <1>5. RequestTaken' /\ Awaiting' /\ TrialAgrees'
    BY <1>1, <1>2 DEF Agreement, RequestTaken, Awaiting, TrialAgrees, FallbackIsStable, Trying, Stable
  <1>7. AdoptionAgrees'
    BY <1>1, <1>2 DEF Agreement, AdoptionAgrees
  <1>6. FirstSuccess' /\ KeptTogether' /\ SuccessesMeanAgreement'
    BY <1>1, <1>2 DEF Agreement, FirstSuccess, KeptTogether, SuccessesMeanAgreement, Trying, Agree
  <1> QED
    BY <1>3, <1>4, <1>5, <1>6, <1>7 DEF Agreement

LEMMA AgreementInit == Init => Agreement
  <1> SUFFICES ASSUME Init PROVE Agreement
    OBVIOUS
  <1>1. Base \in Node /\ Endpoint \in Node
    BY DEF Node
  <1>2. /\ tx[Base].kind = "none" /\ tx[Endpoint].kind = "none"
        /\ rxBuf[Base].kind = "none" /\ rxBuf[Endpoint].kind = "none"
        /\ linkTimer[Base].wait = "off" /\ good[Base] = 0
    BY <1>1, Blank DEF Init, Stopped, Started
  <1> QED
    BY <1>2 DEF Agreement, DataSeen, RequestSeen, RequestTaken, AdoptionAgrees, Awaiting,
                TrialAgrees, FirstSuccess, KeptTogether, SuccessesMeanAgreement, Trying

\* A packet comes into a driver on settings on which the two are compatible.
LEMMA AgreementArrive ==
  ASSUME TypeOK, Roles, Patient, Agreement, NEW n \in Node, Arrive(n)
  PROVE  Agreement'
  <1>1. /\ Base \in Node /\ Endpoint \in Node /\ Base # Endpoint
        /\ Peer(Base) = Endpoint /\ Peer(Endpoint) = Base
        /\ rxBuf \in [Node -> Packet]
    BY TwoNodes DEF TypeOK, Node
  <1>2. /\ cur' = cur /\ prev' = prev /\ good' = good /\ linkTimer' = linkTimer /\ tx' = tx
        /\ Compatible(cur[n], cur[Peer(n)])
        /\ tx[n].kind # "adopting" /\ tx[Peer(n)].kind # "adopting"
    BY DEF Arrive, CanHear, Deaf, MsgKind
  <1>3. /\ Trying(Endpoint)' <=> Trying(Endpoint)
        /\ Running(Base)' <=> Running(Base)
        /\ Agree' <=> Agree
    BY <1>2 DEF Trying, Running, Agree, Stable
  <1>4. Compatible(cur[Base], cur[Endpoint]) /\ (~Trying(Endpoint) => Agree)
    BY <1>1, <1>2, CompatibleSymmetric DEF Agree, Stable, Node
  <1>5. /\ DataSeen' /\ RequestSeen' /\ TrialAgrees' /\ KeptTogether' /\ SuccessesMeanAgreement'
        /\ AdoptionAgrees'
    BY <1>1, <1>2, <1>3
    DEF Agreement, DataSeen, RequestSeen, AdoptionAgrees, TrialAgrees, KeptTogether,
        SuccessesMeanAgreement, Agree, Node
  <1>6. CASE n = Base
    <2>1. /\ rxBuf'[Endpoint] = rxBuf[Endpoint]
          /\ rxBuf'[Base].dup = tx[Endpoint].seen /\ rxBuf'[Base].live
      BY <1>1, <1>6 DEF Arrive
    <2>2. RequestTaken' /\ Awaiting'
      BY <1>2, <1>3, <2>1 DEF Agreement, RequestTaken, Awaiting, FallbackIsStable, Stable
    <2>3. FirstSuccess'
      BY <1>2, <1>3, <1>4, <2>1 DEF Agreement, FirstSuccess
    <2> QED
      BY <1>5, <2>2, <2>3 DEF Agreement
  <1>7. CASE n = Endpoint
    <2>1. rxBuf'[Base] = rxBuf[Base] /\ rxBuf'[Endpoint].kind = tx[Base].kind
      BY <1>1, <1>7 DEF Arrive
    <2>2. tx[Base].kind = "linkChangeReq" => ~Running(Base) /\ Agree
      BY <1>4 DEF Patient, Agreement, TrialAgrees
    <2>3. RequestTaken' /\ Awaiting'
      BY <1>2, <1>3, <1>4, <2>1, <2>2
      DEF Agreement, RequestTaken, Awaiting, FallbackIsStable, Stable, Running
    <2>4. FirstSuccess'
      BY <1>2, <1>3, <2>1 DEF Agreement, FirstSuccess
    <2> QED
      BY <1>5, <2>3, <2>4 DEF Agreement
  <1> QED
    BY <1>6, <1>7 DEF Node

\* The endpoint acknowledges a request only in agreement, and otherwise tells the base
\* only what it found.
LEMMA AgreementEndpointReceives ==
  ASSUME TypeOK, Roles, Delivery, Agreement, ServiceRx(Endpoint)
  PROVE  Agreement'
  <1>1. PICK out \in AckOutcomes(Endpoint, rxBuf[Endpoint]) :
          \/ ReceiveLinkChangeReq(Endpoint, out) \/ ReceiveLinkChangeRsp(Endpoint, out)
          \/ ReceiveHeartbeatReq(Endpoint, out) \/ ReceiveOther(Endpoint, out)
          \/ ReceiveDuplicate(Endpoint, out)
    BY DEF ServiceRx
  <1>2. /\ Base \in Node /\ Endpoint \in Node /\ Peer(Endpoint) = Base
        /\ InFlight(Endpoint) /\ rxBuf[Endpoint].kind # "none"
    <2>1. rxBuf[Endpoint].kind # "none"
      BY <1>1, EndpointReceives
    <2> QED
      BY <2>1, TheTwo DEF Delivery
  <1>3. /\ rxBuf'[Endpoint].kind = "none" /\ rxBuf'[Base] = rxBuf[Base]
        /\ cur' = cur /\ prev' = prev
        /\ good'[Base] = good[Base] /\ linkTimer'[Base] = linkTimer[Base]
        /\ tx'[Base].kind = tx[Base].kind
        /\ tx[Endpoint].kind # "adopting"
    <2>1. tx[Endpoint].kind # "adopting"
      BY <1>2 DEF Delivery, Secluded
    <2> QED
      BY <1>1, <2>1, EndpointReceives, Blank
  \* What the base learns of its message.
  <1>4. /\ ~rxBuf[Endpoint].live => tx'[Base].seen = tx[Base].seen /\ tx'[Base].acked = tx[Base].acked
        /\ rxBuf[Endpoint].live =>
             /\ tx'[Base].seen /\ tx[Base].kind = rxBuf[Endpoint].kind
             /\ tx'[Base].acked => Compatible(cur[Base], cur[Endpoint])
             /\ rxBuf[Endpoint].dup <=> tx[Base].seen
        /\ ~rxBuf[Endpoint].live => ~tx[Base].seen
    BY <1>1, <1>2, EndpointReceives, AckOutcomesEffect, CompatibleSymmetric DEF InFlight
  <1>5. CASE rxBuf[Endpoint].kind = "linkChangeReq" /\ ~rxBuf[Endpoint].dup
    <2>1. /\ tx[Endpoint].kind = "none" /\ tx'[Endpoint].kind = "adopting"
          /\ ~Trying(Endpoint) /\ ~Trying(Endpoint)'
      BY <1>1, <1>5, EndpointReceives, Blank DEF Trying
    <2>2. Agree /\ Agree'
      BY <1>3, <1>5, <2>1 DEF Agreement, RequestTaken, Agree, Stable
    <2>3. linkTimer[Base].wait # "awaitRsp"
      BY <1>5 DEF Agreement, Awaiting
    <2>4. tx'[Base].kind = "dataReq" => ~tx'[Base].seen /\ ~tx'[Base].acked
      BY <1>3, <1>4, <1>5 DEF Agreement, DataSeen
    <2>5. tx'[Base].kind = "linkChangeReq" => (tx'[Base].acked => tx'[Base].seen)
      BY <1>3, <1>4, <1>5 DEF Agreement, RequestSeen
    <2>6. SuccessesMeanAgreement'
      BY <2>2 DEF SuccessesMeanAgreement, Agree
    <2> QED
      BY <1>3, <2>1, <2>2, <2>3, <2>4, <2>5, <2>6
      DEF Agreement, DataSeen, RequestSeen, RequestTaken, AdoptionAgrees, Awaiting, TrialAgrees,
          FirstSuccess, KeptTogether
  <1>6. CASE ~(rxBuf[Endpoint].kind = "linkChangeReq" /\ ~rxBuf[Endpoint].dup)
    <2>1. /\ rxBuf[Endpoint].dup \/ tx[Endpoint].kind = "none"
          /\ \/ tx'[Endpoint] = tx[Endpoint]
             \/ tx[Endpoint].kind = "none" /\ tx'[Endpoint].kind = "heartbeatRsp"
      BY <1>1, <1>6, EndpointReceives
    <2>2. /\ Trying(Endpoint)' <=> Trying(Endpoint)
          /\ tx'[Endpoint].kind # "adopting"
          /\ Running(Base)' <=> Running(Base)
          /\ Agree' <=> Agree
          /\ Trying(Endpoint) => tx'[Endpoint] = tx[Endpoint]
      BY <1>3, <2>1 DEF Trying, Running, Agree, Stable
    <2>3. DataSeen'
      BY <1>3, <1>4, <2>1, <2>2 DEF Agreement, DataSeen, Trying
    <2>4. RequestSeen'
      BY <1>3, <1>4, <1>6, <2>2 DEF Agreement, RequestSeen
    <2>5. RequestTaken' /\ Awaiting' /\ TrialAgrees'
      BY <1>3, <2>1, <2>2 DEF Agreement, RequestTaken, Awaiting, TrialAgrees, FallbackIsStable, Stable
    <2>6. /\ FirstSuccess' /\ KeptTogether' /\ SuccessesMeanAgreement'
          /\ AdoptionAgrees'
      BY <1>3, <2>1, <2>2
      DEF Agreement, AdoptionAgrees, FirstSuccess, KeptTogether, SuccessesMeanAgreement, Agree
    <2> QED
      BY <2>3, <2>4, <2>5, <2>6 DEF Agreement
  <1> QED
    BY <1>5, <1>6

\* The endpoint begins a trial; what it falls back on is what it had.
LEMMA AgreementAdopts ==
  ASSUME TypeOK, Roles, Delivery, Agreement, NEW n \in Node, AdoptLinkChangeReq(n)
  PROVE  Agreement'
  <1>1. /\ tx[Endpoint].kind = "adopting" /\ tx'[Endpoint].kind = "linkChangeRsp"
        /\ ~tx'[Endpoint].seen /\ ~tx'[Endpoint].acked
        /\ tx'[Base] = tx[Base] /\ rxBuf' = rxBuf /\ linkTimer' = linkTimer
        /\ prev'[Endpoint] = cur[Endpoint]
        /\ cur'[Base] = cur[Base] /\ prev'[Base] = prev[Base] /\ good'[Base] = good[Base]
    BY EndpointAdopts, Blank
  <1>2. rxBuf[Endpoint].kind = "none"
    BY <1>1, TheTwo DEF Delivery, Secluded
  <1>3. /\ Trying(Endpoint)' /\ ~Trying(Endpoint)
        /\ Stable(Endpoint)' = Stable(Endpoint)
    BY <1>1 DEF Trying, Stable
  <1>4. /\ Agree' <=> Agree
        /\ Running(Base)' <=> Running(Base)
        /\ Agree \/ (good[Base] = 0 /\ rxBuf[Base].kind = "none" /\ Running(Base))
    BY <1>1, <1>3 DEF Agree, Running, Agreement, AdoptionAgrees
  <1>5. DataSeen' /\ RequestSeen' /\ RequestTaken' /\ AdoptionAgrees'
    BY <1>1, <1>2, <1>4
    DEF Agreement, DataSeen, RequestSeen, RequestTaken, AdoptionAgrees
  <1>6. Awaiting' /\ TrialAgrees' /\ KeptTogether'
    BY <1>1, <1>2, <1>3, <1>4
    DEF Agreement, Awaiting, FallbackIsStable, TrialAgrees, KeptTogether
  <1>7. FirstSuccess' /\ SuccessesMeanAgreement'
    BY <1>1, <1>3, <1>4 DEF Agreement, FirstSuccess, SuccessesMeanAgreement, Agree
  <1> QED
    BY <1>5, <1>6, <1>7 DEF Agreement

\* The base counts a first success without agreement only if the response it handled
\* is not acknowledged, and a second one never.
LEMMA AgreementBaseReceives ==
  ASSUME TypeOK, Roles, HeartbeatRoles, Delivery, Agreement, ServiceRx(Base)
  PROVE  Agreement'
  <1>1. PICK out \in AckOutcomes(Base, rxBuf[Base]) :
          \/ ReceiveLinkChangeReq(Base, out) \/ ReceiveLinkChangeRsp(Base, out)
          \/ ReceiveHeartbeatReq(Base, out) \/ ReceiveOther(Base, out)
          \/ ReceiveDuplicate(Base, out)
    BY DEF ServiceRx
  <1>2. /\ Base \in Node /\ Endpoint \in Node /\ Peer(Base) = Endpoint /\ Peer(Endpoint) = Base
        /\ InFlight(Base) /\ rxBuf[Base].kind # "none" /\ ~tx[Endpoint].acked
        /\ good[Base] \in 0 .. Trust + 1 /\ linkTimer[Base] \in Timer
    <2>1. rxBuf[Base].kind # "none"
      BY <1>1, BaseReceives
    <2>2. InFlight(Base) /\ (tx[Endpoint].acked => rxBuf[Base].kind = "none")
      BY TheTwo DEF Delivery, Cleared
    <2> QED
      BY <2>1, <2>2, TheTwo DEF TypeOK
  <1>3. /\ rxBuf'[Base].kind = "none"
        /\ rxBuf'[Endpoint] = rxBuf[Endpoint] \/ rxBuf'[Endpoint].kind = "heartbeatReq"
        /\ tx'[Base] = tx[Base] /\ tx'[Endpoint].kind = tx[Endpoint].kind
        /\ cur' = cur /\ prev' = prev
    BY <1>1, BaseReceives, Blank DEF Beaten
  <1>4. /\ ~rxBuf[Base].live => tx'[Endpoint].seen = tx[Endpoint].seen /\ ~tx'[Endpoint].acked
        /\ rxBuf[Base].live =>
             /\ tx'[Endpoint].seen /\ tx[Endpoint].kind = rxBuf[Base].kind
             /\ tx'[Endpoint].acked => Compatible(cur[Base], cur[Endpoint])
             /\ rxBuf[Base].dup <=> tx[Endpoint].seen
    BY <1>1, <1>2, BaseReceives, AckOutcomesEffect DEF InFlight
  <1>5. /\ Trying(Endpoint)' <=> Trying(Endpoint)
        /\ Agree' <=> Agree
    BY <1>3 DEF Trying, Agree, Stable
  <1>6. RequestTaken' /\ KeptTogether' /\ AdoptionAgrees'
    BY <1>2, <1>3, <1>4, <1>5 DEF Agreement, RequestTaken, KeptTogether, AdoptionAgrees
  <1>7. CASE rxBuf[Base].dup /\ good' = good /\ linkTimer' = linkTimer
    <2>1. DataSeen' /\ RequestSeen' /\ Awaiting'
      BY <1>3, <1>4, <1>5, <1>7
      DEF Agreement, DataSeen, RequestSeen, Awaiting, FallbackIsStable, Stable
    <2>2. TrialAgrees' /\ FirstSuccess' /\ SuccessesMeanAgreement'
      BY <1>3, <1>4, <1>5, <1>7
      DEF Agreement, TrialAgrees, Running, FirstSuccess, SuccessesMeanAgreement, Agree
    <2> QED
      BY <1>6, <2>1, <2>2 DEF Agreement
  <1>8. CASE /\ ~rxBuf[Base].dup /\ tx[Base].kind = "none"
             /\ good'[Base] = Counted(Base, 1)
             /\ linkTimer'[Base] =
                  AfterRx(IF rxBuf[Base].kind = "linkChangeRsp" THEN Started("awaitTrust")
                                                                ELSE linkTimer[Base],
                          Counted(Base, 1))
    <2>1. /\ good'[Base] \in Nat
          /\ good'[Base] >= 2 => Agree
          /\ Trying(Endpoint) /\ ~rxBuf[Base].live => Agree
          /\ Counted(Base, 1) > Trust => good'[Base] >= 2
      BY <1>2, <1>8 DEF Agreement, FirstSuccess, Counted
    <2>2. /\ linkTimer'[Base].wait = "awaitRsp" =>
               linkTimer[Base].wait = "awaitRsp" /\ rxBuf[Base].kind # "linkChangeRsp"
          /\ linkTimer'[Base].wait = "off" => ~Running(Base) \/ Counted(Base, 1) > Trust
      BY <1>2, <1>8, AfterRxEffect, InitialTypes DEF Started, Running
    <2>3. DataSeen' /\ RequestSeen'
      BY <1>3, <1>8 DEF DataSeen, RequestSeen
    <2>4. Awaiting'
      BY <1>3, <1>4, <1>5, <2>2 DEF Agreement, Awaiting, FallbackIsStable, Stable, Trying
    <2>5. TrialAgrees'
      BY <1>5, <2>1, <2>2 DEF Agreement, TrialAgrees, Running
    <2>6. FirstSuccess' /\ SuccessesMeanAgreement'
      BY <1>3, <1>4, <1>5, <2>1 DEF FirstSuccess, SuccessesMeanAgreement, Agree
    <2> QED
      BY <1>6, <2>3, <2>4, <2>5, <2>6 DEF Agreement
  <1> QED
    BY <1>1, <1>7, <1>8, BaseReceives

\* The endpoint keeps its trial if the base is there too, or restores what it had.
LEMMA AgreementEndpointReturns ==
  ASSUME TypeOK, Roles, Delivery, Agreement, SendReturns(Endpoint)
  PROVE  Agreement'
  <1>1. /\ Base \in Node /\ Endpoint \in Node /\ Peer(Endpoint) = Base
        /\ tx[Endpoint].acked => rxBuf[Base].kind = "none" /\ rxBuf[Endpoint].kind = "none"
    BY TheTwo DEF Delivery, Cleared
  <1>2. /\ tx'[Endpoint].kind = "none" /\ tx'[Base] = tx[Base] /\ ~Trying(Endpoint)'
        /\ rxBuf'[Endpoint] = rxBuf[Endpoint]
        /\ rxBuf'[Base].kind = rxBuf[Base].kind /\ rxBuf'[Base].dup = rxBuf[Base].dup
        /\ cur'[Base] = cur[Base] /\ prev'[Base] = prev[Base]
        /\ good'[Base] = good[Base] /\ linkTimer'[Base] = linkTimer[Base]
    BY EndpointReturns, Blank DEF OrphanIn, Trying
  <1>3. AdoptionAgrees'
    BY <1>2 DEF AdoptionAgrees
  <1>4. CASE Trying(Endpoint) /\ tx[Endpoint].acked
    <2>1. cur' = cur /\ prev' = prev /\ tx[Endpoint].seen
      BY <1>4, EndpointReturns DEF Agreement, KeptTogether
    <2>2. /\ good'[Base] = 0 \/ Compatible(cur[Base], cur[Endpoint])
          /\ Agree' <=> Compatible(cur[Base], cur[Endpoint])
      BY <1>2, <1>4, <2>1 DEF Agreement, KeptTogether, Agree, Stable
    <2>3. /\ linkTimer[Base].wait # "awaitRsp"
          /\ ~(tx[Base].kind = "linkChangeReq" /\ tx[Base].seen)
          /\ ~(tx[Base].kind = "dataReq" /\ tx[Base].seen)
          /\ rxBuf'[Base].kind = "none" /\ rxBuf'[Endpoint].kind = "none"
      BY <1>1, <1>2, <1>4, <2>1 DEF Agreement, Awaiting, RequestSeen, DataSeen
    <2> QED
      BY <1>2, <1>3, <2>2, <2>3
      DEF Agreement, DataSeen, RequestSeen, RequestTaken, Awaiting, TrialAgrees, FirstSuccess,
          KeptTogether, SuccessesMeanAgreement, Agree
  <1>5. CASE ~(Trying(Endpoint) /\ tx[Endpoint].acked)
    <2>1. /\ Stable(Endpoint)' = Stable(Endpoint)
          /\ cur'[Endpoint] = Stable(Endpoint)
      BY <1>2, <1>5, EndpointReturns DEF Stable
    <2>2. /\ Agree' <=> Agree
          /\ Agree => Compatible(cur[Base], cur[Endpoint])'
      BY <1>2, <2>1 DEF Agree
    <2>3. DataSeen'
      BY <1>2, <2>1, <2>2 DEF Agreement, DataSeen, Stable
    <2>4. RequestSeen' /\ RequestTaken' /\ Awaiting' /\ TrialAgrees'
      BY <1>2, <2>1, <2>2
      DEF Agreement, RequestSeen, RequestTaken, Awaiting, TrialAgrees, FallbackIsStable
    <2>5. FirstSuccess' /\ KeptTogether' /\ SuccessesMeanAgreement'
      BY <1>2, <2>2 DEF Agreement, FirstSuccess, KeptTogether, SuccessesMeanAgreement, Agree
    <2> QED
      BY <1>3, <2>3, <2>4, <2>5 DEF Agreement
  <1> QED
    BY <1>4, <1>5

\* The base begins a trial from settings that agree with the endpoint's.
LEMMA AgreementBaseReturns ==
  ASSUME TypeOK, Roles, HeartbeatRoles, Delivery, Agreement, SendReturns(Base)
  PROVE  Agreement'
  <1>1. /\ tx'[Base].kind = "none" /\ tx'[Endpoint] = tx[Endpoint]
        /\ rxBuf'[Base] = rxBuf[Base]
        /\ cur'[Endpoint] = cur[Endpoint] /\ prev'[Endpoint] = prev[Endpoint]
        /\ good[Base] \in 0 .. Trust + 1
    BY BaseReturns, Blank DEF TypeOK, Node
  <1>2. /\ Trying(Endpoint)' <=> Trying(Endpoint)
        /\ Stable(Endpoint)' = Stable(Endpoint)
    BY <1>1 DEF Trying, Stable
  <1>3. CASE /\ tx[Base].kind = "linkChangeReq" /\ tx[Base].acked
             /\ rxBuf[Base].kind = "none" /\ rxBuf'[Endpoint].kind # "linkChangeReq"
             /\ prev'[Base] = cur[Base] /\ good'[Base] = 0
             /\ linkTimer'[Base] = Started("awaitRsp")
    <2>1. Agree /\ (Trying(Endpoint) => ~tx[Endpoint].seen)
      BY <1>3 DEF Agreement, RequestSeen
    <2>2. linkTimer'[Base].wait = "awaitRsp"
      BY <1>3 DEF Started
    <2>3. FallbackIsStable'
      BY <1>2, <1>3, <2>1 DEF FallbackIsStable, Agree
    <2> QED
      BY <1>1, <1>2, <1>3, <2>1, <2>2, <2>3
      DEF Agreement, DataSeen, RequestSeen, RequestTaken, AdoptionAgrees, Awaiting, TrialAgrees,
          FirstSuccess, KeptTogether, SuccessesMeanAgreement, Running
  <1>4. CASE /\ tx[Base].kind = "dataReq" /\ tx[Base].acked
             /\ rxBuf[Base].kind = "none" /\ rxBuf' = rxBuf
             /\ cur' = cur /\ prev' = prev
             /\ good'[Base] = Counted(Base, 1) /\ linkTimer' = linkTimer
    <2>1. ~Trying(Endpoint) /\ Agree /\ Agree'
      BY <1>2, <1>4 DEF Agreement, DataSeen, Agree, Stable
    <2> QED
      BY <1>1, <1>2, <1>4, <2>1
      DEF Agreement, DataSeen, RequestSeen, RequestTaken, AdoptionAgrees, Awaiting,
          FallbackIsStable, TrialAgrees, FirstSuccess, KeptTogether, SuccessesMeanAgreement, Agree
  <1>5. CASE /\ OrphanIn(Endpoint)
             /\ cur' = cur /\ prev' = prev /\ good' = good /\ linkTimer' = linkTimer
    <2>1. /\ Agree' <=> Agree
          /\ Running(Base)' <=> Running(Base)
      BY <1>2, <1>5 DEF Agree, Running
    <2>2. DataSeen' /\ RequestSeen' /\ RequestTaken' /\ Awaiting'
      BY <1>1, <1>2, <1>5, <2>1
      DEF Agreement, DataSeen, RequestSeen, RequestTaken, Awaiting, FallbackIsStable, OrphanIn
    <2>3. /\ TrialAgrees' /\ FirstSuccess' /\ KeptTogether' /\ SuccessesMeanAgreement'
          /\ AdoptionAgrees'
      BY <1>1, <1>2, <1>5, <2>1
      DEF Agreement, AdoptionAgrees, TrialAgrees, FirstSuccess, KeptTogether, SuccessesMeanAgreement, Agree
    <2> QED
      BY <2>2, <2>3 DEF Agreement
  <1> QED
    BY <1>3, <1>4, <1>5, BaseReturns

\* The base goes back to settings that agree with the endpoint's: if it still waits
\* for a response, by Awaiting, and after one because the trial of the endpoint has
\* ended by then.
LEMMA AgreementExpires ==
  ASSUME TypeOK, Roles, Timely, Agreement, LinkTimerExpires(Base),
         \A s \in Setting : SendWait[s] < TrustWait
  PROVE  Agreement'
  <1>1. /\ Base \in Node /\ Endpoint \in Node /\ Base # Endpoint
        /\ cur \in [Node -> Setting] /\ prev \in [Node -> Setting]
        /\ good \in [Node -> 0 .. Trust + 1] /\ linkTimer \in [Node -> Timer]
        /\ rxBuf \in [Node -> Packet] /\ tx[Endpoint] \in Sending
    BY DEF TypeOK, Node
  <1>2. /\ tx' = tx /\ tx[Base].kind = "none" /\ Overdue(Base) /\ Running(Base)
        /\ cur'[Base] = prev[Base] /\ good'[Base] = 0 /\ linkTimer'[Base].wait = "off"
        /\ cur'[Endpoint] = cur[Endpoint] /\ prev'[Endpoint] = prev[Endpoint]
    BY <1>1 DEF LinkTimerExpires, Looping, Overdue, Revert, SetLink, Stopped, Started
  <1>3. /\ rxBuf'[Base] = rxBuf[Base]
        /\ rxBuf'[Endpoint] = rxBuf[Endpoint] \/ rxBuf'[Endpoint].kind = "heartbeatReq"
    BY <1>1, BaseHeartbeat DEF LinkTimerExpires, Beaten
  <1>4. linkTimer[Base].wait # "awaitRsp" => ~Trying(Endpoint)
    <2>1. linkTimer[Base].wait # "awaitRsp" => linkTimer[Base].elapsed >= TrustWait
      BY <1>2 DEF Overdue, Timeout
    <2>2. Trying(Endpoint) => linkTimer[Base].elapsed < TrustWait
      <3>1. /\ linkTimer[Base].elapsed \in Nat /\ tx[Endpoint].waited \in Nat
            /\ SendWait[cur[Endpoint]] \in Nat /\ SendWait[cur[Endpoint]] < TrustWait
        BY <1>1 DEF Timer, Sending
      <3> QED
        BY <1>2, <3>1 DEF Timely, Paced, TrialWaits
    <2>3. linkTimer[Base].elapsed \in Nat
      BY <1>1 DEF Timer
    <2> QED
      BY <2>1, <2>2, <2>3
  <1>5. Trying(Endpoint) => Agree'
    BY <1>2, <1>4 DEF Agreement, Awaiting, FallbackIsStable, Agree, Stable, Trying
  <1>6. /\ ~(rxBuf[Endpoint].kind = "linkChangeReq" /\ ~rxBuf[Endpoint].dup)
        /\ tx[Endpoint].kind # "adopting"
    BY <1>1, <1>2, OverdueWaited DEF Timely, RequestFresh, Requested, Timer
  <1>7. Trying(Endpoint)' <=> Trying(Endpoint)
    BY <1>2 DEF Trying
  <1> QED
    BY <1>2, <1>3, <1>5, <1>6, <1>7
    DEF Agreement, DataSeen, RequestSeen, RequestTaken, AdoptionAgrees, Awaiting, TrialAgrees,
        FirstSuccess, KeptTogether, SuccessesMeanAgreement

LEMMA AgreementStep ==
  ASSUME TypeOK, Roles, HeartbeatRoles, Delivery, Timely, Agreement, [Next]_vars,
         CommandNodes = {}, RestartNodes = {}, \A s \in Setting : SendWait[s] < TrustWait
  PROVE  Agreement'
  <1>1. /\ Base \in Node /\ Endpoint \in Node /\ Base # Endpoint
        /\ \A n \in Node : n = Base \/ n = Endpoint
        /\ tx \in [Node -> Sending] /\ rxBuf \in [Node -> Packet]
        /\ linkTimer \in [Node -> Timer]
    BY DEF TypeOK, Node
  <1>2. CASE Tick
    <2>1. \A n \in Node : /\ tx'[n].kind = tx[n].kind /\ tx'[n].seen = tx[n].seen
                          /\ tx'[n].acked = tx[n].acked
                          /\ linkTimer'[n].wait = linkTimer[n].wait
      BY <1>1, <1>2 DEF Tick, Sending, Timer
    <2> QED
      BY <1>1, <1>2, <2>1, AgreementKept DEF Tick
  <1>3. ASSUME NEW n \in Node, NEW k \in {"linkChangeReq", "dataReq"}, NEW w \in Setting,
               Looping(n), tx' = [tx EXCEPT ![n] = Message(k, w)],
               UNCHANGED <<cur, prev, good, linkTimer, rxBuf>>
        PROVE  Agreement'
    <2>1. \A m \in Node : \/ tx'[m] = tx[m]
                          \/ /\ tx[m].kind = "none"
                             /\ tx'[m].kind \notin {"adopting", "linkChangeRsp"}
                             /\ ~tx'[m].seen /\ ~tx'[m].acked
      BY <1>1, <1>3, Blank DEF Looping
    <2> QED
      BY <1>1, <1>3, <2>1, AgreementKept
  <1>4. CASE \E want \in Setting : RequestLinkChange(want)
    BY <1>1, <1>3, <1>4 DEF RequestLinkChange
  <1>5. ASSUME NEW n \in Node, SendData(n)
        PROVE  Agreement'
    BY <1>3, <1>5 DEF SendData
  <1>6. ASSUME NEW n \in Node, Discard(n)
        PROVE  Agreement'
    <2>1. \A m \in Node : rxBuf'[m] = rxBuf[m] \/ rxBuf'[m].kind = "none"
      BY <1>1, <1>6, Blank DEF Discard, Emptied
    <2> QED
      BY <1>1, <1>6, <2>1, AgreementKept DEF Discard
  <1>7. ASSUME NEW n \in Node, HeartbeatExpires(n)
        PROVE  Agreement'
    <2>1. \A m \in Node : \/ rxBuf'[m] = rxBuf[m]
                          \/ m = Endpoint /\ rxBuf'[m].kind = "heartbeatReq"
      <3>1. /\ rxBuf'[n] = rxBuf[n]
            /\ rxBuf'[Peer(n)] = rxBuf[Peer(n)] \/ HeartbeatHeard(n, rxBuf)
        BY <1>1, <1>7, HeartbeatEffect DEF HeartbeatExpires
      <3>2. HeartbeatHeard(n, rxBuf) =>
              n = Base /\ rxBuf'[Endpoint].kind = "heartbeatReq"
        BY TheTwo, Blank DEF HeartbeatHeard
      <3> QED
        BY <3>1, <3>2, TheTwo
    <2> QED
      BY <1>1, <1>7, <2>1, AgreementKept DEF HeartbeatExpires
  <1>8. ASSUME NEW n \in Node, LinkTimerExpires(n)
        PROVE  Agreement'
    <2>1. n = Base
      BY <1>8 DEF LinkTimerExpires, Overdue, Running, Roles, Node
    <2> QED
      BY <1>8, <2>1, AgreementExpires
  <1>9. CASE UNCHANGED vars
    BY <1>1, <1>9, AgreementKept DEF vars
  <1> QED
    BY <1>1, <1>2, <1>4, <1>5, <1>6, <1>7, <1>8, <1>9, AgreementArrive, AgreementEndpointReceives,
       AgreementAdopts, AgreementBaseReceives, AgreementEndpointReturns, AgreementBaseReturns
    DEF Next, Timely

LEMMA AgreementHolds ==
  ASSUME CommandNodes = {}, RestartNodes = {}, OverlappingRequests = FALSE,
         \A s \in Setting : SendWait[s] < TrustWait
  PROVE  Spec => []Agreement
  <1> DEFINE I == TypeOK /\ Roles /\ HeartbeatRoles /\ Delivery /\ Timely /\ Agreement
  <1>1. Init => I
    BY TypeInit, RolesInit, HeartbeatRolesInit, DeliveryInit, TimelyInit, AgreementInit
  <1>2. I /\ [Next]_vars => I'
    BY TypeStep, RolesStep, HeartbeatRolesStep, DeliveryStep, TimelyStep, AgreementStep
  <1> QED
    BY <1>1, <1>2, PTL DEF Spec

\* If nobody types commands or takes a node off its power, and the user waits for a
\* change to end before he asks for another, then while the base waits for a response
\* it can go back: the endpoint is or will be on the settings that the base would
\* restore (linkChangeReqTimeout, loraPoint2PointProtocol.cpp:504).
THEOREM FallbackStaysStable ==
  ASSUME CommandNodes = {}, RestartNodes = {}, OverlappingRequests = FALSE,
         \A s \in Setting : SendWait[s] < TrustWait
  PROVE  Spec => []FallbackIsStable
  <1>1. Agreement => FallbackIsStable
    BY DEF Agreement, Awaiting, FallbackIsStable
  <1> QED
    BY <1>1, AgreementHolds, PTL

\* Under the same conditions two successes mean that both ends have settled on what
\* the base has (SUCCESSFUL_PACKETS_BEFORE_LINK_IS_TRUSTED,
\* loraPoint2PointProtocol.cpp:33): the first may be for a packet of before.
THEOREM SuccessesAgree ==
  ASSUME CommandNodes = {}, RestartNodes = {}, OverlappingRequests = FALSE,
         \A s \in Setting : SendWait[s] < TrustWait
  PROVE  Spec => []SuccessesMeanAgreement
  <1>1. Agreement => SuccessesMeanAgreement
    BY DEF Agreement
  <1> QED
    BY <1>1, AgreementHolds, PTL

=============================================================================
