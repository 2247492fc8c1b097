----------------------------- MODULE LinkChange -----------------------------
(***************************************************************************)
(* The link-change protocol of loraPoint2PointProtocol.cpp, run by the two *)
(* sketches LoRaRangeTest_Base and LoRaRangeTest_Endpoint.                  *)
(*                                                                         *)
(* Each node is one Arduino loop around one loraPoint2Point object.  A node *)
(* is either looping (serviceRx polls the radio) or inside one call of      *)
(* RHReliableDatagram::sendtoWait (tx[n].kind in MsgKind); what it does     *)
(* between two such points is one action.  A request to change the link is  *)
(* the exception: its acknowledgement leaves before the settings change,    *)
(* and the peer may act on it first, so there the server stops in between   *)
(* (tx[n].kind = "adopting").  Every other handler changes, after its       *)
(* acknowledgement, only what the peer cannot see.  The radio driver holds  *)
(* at most one received packet (rxBuf[n]).  Any packet and any              *)
(* acknowledgement may be lost; a packet is heard only by a node whose      *)
(* settings agree with the sender's on the parameters in AirParam.  Time    *)
(* is a count of ticks, and passes only while both nodes wait.              *)
(***************************************************************************)
EXTENDS Naturals

CONSTANTS
  Base, Endpoint,      \* the two radios, addresses 0xBB and 0xEE
  Param,               \* the parameters of a link
  AirParam,            \* those on which both ends must agree to hear each other
  Valid,               \* Valid[p]: the values that the setter of p accepts
  Default,             \* the settings of setupRadio
  Trust,               \* SUCCESSFUL_PACKETS_BEFORE_LINK_IS_TRUSTED
  SendWait,            \* SendWait[s]: ticks that a sendtoWait with all its retries
                       \* may take on the settings s
  RspWait,             \* LINK_CHANGE_TIMEOUT_MILLIS, in ticks
  TrustWait,           \* 3 * HEARTBEAT_TIMEOUT_MILLIS + LINK_CHANGE_TIMEOUT_MILLIS
  CommandNodes,        \* nodes whose operator types "!" commands
  RestartNodes,        \* nodes that may lose power
  OverlappingRequests  \* does the operator ask again while the timer runs?

\* A value for every parameter.  The base's selection variables never leave
\* these ranges, and so no message does.
Setting == {s \in [Param -> UNION {Valid[p] : p \in Param}] :
              \A p \in Param : s[p] \in Valid[p]}

ASSUME NodesAssumption == Base # Endpoint
ASSUME ParamAssumption == AirParam \subseteq Param /\ Default \in Setting
ASSUME TrustAssumption == Trust \in Nat \ {0}
ASSUME TimeAssumption ==
  /\ SendWait \in [Setting -> Nat \ {0}]
  /\ RspWait \in Nat \ {0}
  /\ TrustWait \in Nat
  /\ RspWait < TrustWait
ASSUME OperatorAssumption ==
  /\ CommandNodes \subseteq {Base, Endpoint}
  /\ RestartNodes \subseteq {Base, Endpoint}
  /\ OverlappingRequests \in BOOLEAN

Node == {Base, Endpoint}
Peer(n) == IF n = Base THEN Endpoint ELSE Base

VARIABLES
  cur,        \* cur[n]:  the current... members
  prev,       \* prev[n]: the previous... members
  good,       \* good[n]: packetCount - packetErrorCount, saturating above Trust
  linkTimer,  \* linkTimer[n]: linkChangeTimeoutTimer, by the timeout it runs on
  tx,         \* tx[n]: the message n is waiting to see acknowledged, or the
              \*        request it has acknowledged and is about to carry out
  rxBuf       \* rxBuf[n]: the packet in n's radio driver

vars == <<cur, prev, good, linkTimer, tx, rxBuf>>

\* The msgType_t values that the two sketches put on the air.
MsgKind == {"dataReq", "linkChangeReq", "linkChangeRsp", "heartbeatReq", "heartbeatRsp"}

\* A sendtoWait in progress: has the peer seen the message, has the ack come?
Sending == [kind : MsgKind \cup {"none", "adopting"}, want : Setting,
            seen : BOOLEAN, acked : BOOLEAN, waited : Nat]

\* A received packet: is its id the last one seen from the sender (dup), and
\* is the sender still waiting for its acknowledgement (live)?
Packet == [kind : MsgKind \cup {"none"}, want : Setting,
           dup : BOOLEAN, live : BOOLEAN]

\* linkChangeTimeoutTimer: not started, or started with one of two timeouts.
Timer == [wait : {"off", "awaitRsp", "awaitTrust"}, elapsed : 0 .. TrustWait]

Started(wait) == [wait |-> wait, elapsed |-> 0]
Stopped       == Started("off")

NotSending == [kind |-> "none", want |-> Default, seen |-> FALSE, acked |-> FALSE, waited |-> 0]
NoPacket   == [kind |-> "none", want |-> Default, dup |-> FALSE, live |-> FALSE]

TypeOK ==
  /\ cur \in [Node -> Setting]
  /\ prev \in [Node -> Setting]
  /\ good \in [Node -> 0 .. Trust + 1]
  /\ linkTimer \in [Node -> Timer]
  /\ tx \in [Node -> Sending]
  /\ rxBuf \in [Node -> Packet]

-----------------------------------------------------------------------------
(* Operators of the class *)

Compatible(s, t) == \A p \in AirParam : s[p] = t[p]

Looping(n) == tx[n].kind = "none"

Message(kind, want) ==
  [kind |-> kind, want |-> want, seen |-> FALSE, acked |-> FALSE, waited |-> 0]

Running(n) == linkTimer[n].wait # "off"

\* Mutant: a response timer of one tick, as short as the retries of the response.
TimeoutTooShort(wait) == IF wait = "awaitRsp" THEN 1 ELSE TrustWait

Timeout(wait) == IF wait = "awaitRsp" THEN RspWait ELSE TrustWait

\* Mutant: the timer runs on the timeout it had before setTimeout.
OverdueIgnoresTimeout(n) == Running(n) /\ linkTimer[n].elapsed > TrustWait

\* The next serviceTimers will find linkTimer done.
Overdue(n) == Running(n) /\ linkTimer[n].elapsed >= Timeout(linkTimer[n].wait)

\* Mutant: serviceRx resets the timer and never stops it.
AfterRxNeverTrusts(timer, count) == Started(timer.wait)

\* The end of serviceRx: a running timer is reset, and stops once the count of
\* successes exceeds Trust.
AfterRx(timer, count) ==
  IF timer.wait = "off" \/ count > Trust THEN Stopped ELSE Started(timer.wait)

\* Mutant: the setters do not call resetPacketErrorFraction.
SetLinkKeepsCount(n, s, counted) ==
  /\ cur' = [cur EXCEPT ![n] = s]
  /\ prev' = [prev EXCEPT ![n] = cur[n]]
  /\ UNCHANGED good

\* Mutant: the setters do not save the current value.
SetLinkForgets(n, s, counted) ==
  /\ cur' = [cur EXCEPT ![n] = s]
  /\ UNCHANGED prev
  /\ good' = [good EXCEPT ![n] = counted]

\* The four setters, each called with a valid value: what was current becomes
\* previous, and the packet counters restart from `counted' successes.
SetLink(n, s, counted) ==
  /\ cur' = [cur EXCEPT ![n] = s]
  /\ prev' = [prev EXCEPT ![n] = cur[n]]
  /\ good' = [good EXCEPT ![n] = counted]

\* linkChangeReqTimeout, and the error branch of serviceLinkChangeReq: the
\* setters again, with the previous values.
Revert(n, counted) == SetLink(n, prev[n], counted)

\* The count after k more successful packets.
Counted(n, k) == IF good[n] + k > Trust THEN Trust + 1 ELSE good[n] + k

\* What n's acknowledgement of packet m can do to the sender's sendtoWait.  A
\* sender that still waits may hear it if it is on n's settings and its driver
\* has room.
AckOutcomes(n, m) ==
  LET p == Peer(n)
      Audible == Compatible(cur[n], cur[p]) /\ rxBuf[p].kind = "none" IN
  IF m.live THEN {[tx[p] EXCEPT !.seen = TRUE, !.acked = a] : a \in {FALSE, Audible}}
            ELSE {tx[p]}

\* The radio of n is idle, from hearing its acknowledgement to the return of
\* sendtoWait, and from acknowledging a request to answering it.
Deaf(n) == tx[n].acked \/ tx[n].kind = "adopting"

\* The radio of n is receiving and its driver is empty.
CanHear(n) == rxBuf[n].kind = "none" /\ ~Deaf(n)

\* serviceTimers with the link timer stopped: the base's heartbeat may be due,
\* and the broadcast may be heard.  Nobody acknowledges a broadcast.
ServiceHeartbeat(n, bufs) ==
  LET p == Peer(n) IN
  \/ rxBuf' = bufs
  \/ /\ n = Base
     /\ bufs[p].kind = "none"
     /\ ~Deaf(p)'
     /\ Compatible(cur'[n], cur'[p])
     /\ rxBuf' = [bufs EXCEPT ![p] = [NoPacket EXCEPT !.kind = "heartbeatReq"]]

\* The tail of serviceRx, after k successes since the last poll.
FinishRx(n, k, bufs) ==
  /\ good' = [good EXCEPT ![n] = Counted(n, k)]
  /\ UNCHANGED <<cur, prev>>
  /\ linkTimer' = [linkTimer EXCEPT ![n] = AfterRx(@, Counted(n, k))]
  /\ IF Running(n) /\ Counted(n, k) > Trust
       THEN ServiceHeartbeat(n, bufs)
       ELSE rxBuf' = bufs

-----------------------------------------------------------------------------
(* Init: both sketches have run setupRadio *)

Init ==
  /\ cur = [n \in Node |-> Default]
  /\ prev = [n \in Node |-> Default]
  /\ good = [n \in Node |-> 0]
  /\ linkTimer = [n \in Node |-> Stopped]
  /\ tx = [n \in Node |-> NotSending]
  /\ rxBuf = [n \in Node |-> NoPacket]

-----------------------------------------------------------------------------
(* The sketches' loops *)

\* The enter button: linkChangeReq calls sendtoWait.
RequestLinkChange(want) ==
  /\ Looping(Base)
  /\ OverlappingRequests \/ ~Running(Base)
  /\ tx' = [tx EXCEPT ![Base] = Message("linkChangeReq", want)]
  /\ UNCHANGED <<cur, prev, good, linkTimer, rxBuf>>

\* A line typed at either node, or the base's periodic "foobar": serviceTx.
SendData(n) ==
  /\ Looping(n)
  /\ tx' = [tx EXCEPT ![n] = Message("dataReq", Default)]
  /\ UNCHANGED <<cur, prev, good, linkTimer, rxBuf>>

\* A "!" command: one setter, with a valid value; an invalid one does nothing.
Command(n, p, v) ==
  /\ Looping(n)
  /\ cur' = [cur EXCEPT ![n][p] = v]
  /\ prev' = [prev EXCEPT ![n][p] = cur[n][p]]
  /\ good' = [good EXCEPT ![n] = 0]
  /\ UNCHANGED <<linkTimer, tx, rxBuf>>

-----------------------------------------------------------------------------
(* The air *)

\* The driver of n receives the packet its peer is transmitting.
Arrive(n) ==
  LET p == Peer(n) IN
  /\ tx[p].kind \in MsgKind /\ ~tx[p].acked
  /\ CanHear(n)
  /\ Compatible(cur[n], cur[p])
  /\ rxBuf' = [rxBuf EXCEPT ![n] = [kind |-> tx[p].kind, want |-> tx[p].want,
                                    dup |-> tx[p].seen, live |-> TRUE]]
  /\ UNCHANGED <<cur, prev, good, linkTimer, tx>>

-----------------------------------------------------------------------------
(* serviceRx: recvfromAckTimeout acknowledges what it takes from the driver *)

\* A new packet of one of the given kinds, acknowledged with outcome `out'.
Takes(n, kinds, out) ==
  /\ Looping(n)
  /\ rxBuf[n].kind \in kinds /\ ~rxBuf[n].dup
  /\ ~Overdue(n)
  /\ out \in AckOutcomes(n, rxBuf[n])

Emptied(n) == [rxBuf EXCEPT ![n] = NoPacket]

\* Mutant: the server acknowledges and does not carry out the request.
ReceiveLinkChangeReqIgnores(n, out) ==
  /\ Takes(n, {"linkChangeReq"}, out)
  /\ tx' = [tx EXCEPT ![Peer(n)] = out]
  /\ rxBuf' = Emptied(n)
  /\ UNCHANGED <<cur, prev, good, linkTimer>>

\* serviceRx up to serviceLinkChangeReq: the request is acknowledged, the
\* settings are still the old ones.
ReceiveLinkChangeReq(n, out) ==
  /\ Takes(n, {"linkChangeReq"}, out)
  /\ tx' = [tx EXCEPT ![Peer(n)] = out, ![n] = Message("adopting", rxBuf[n].want)]
  /\ rxBuf' = Emptied(n)
  /\ UNCHANGED <<cur, prev, good, linkTimer>>

\* serviceLinkChangeReq up to its sendtoWait: adopt, then answer on the new
\* settings.
AdoptLinkChangeReq(n) ==
  /\ tx[n].kind = "adopting"
  /\ SetLink(n, tx[n].want, 0)
  /\ tx' = [tx EXCEPT ![n] = Message("linkChangeRsp", tx[n].want)]
  /\ UNCHANGED <<linkTimer, rxBuf>>

\* serviceLinkChangeRsp and the tail of serviceRx.
ReceiveLinkChangeRsp(n, out) ==
  /\ Takes(n, {"linkChangeRsp"}, out)
  /\ good' = [good EXCEPT ![n] = Counted(n, 1)]
  /\ linkTimer' = [linkTimer EXCEPT ![n] = AfterRx(Started("awaitTrust"), Counted(n, 1))]
  /\ tx' = [tx EXCEPT ![Peer(n)] = out]
  /\ UNCHANGED <<cur, prev>>
  /\ ServiceHeartbeat(n, Emptied(n))

\* serviceHeartbeatReq up to its sendtoWait.
ReceiveHeartbeatReq(n, out) ==
  /\ Takes(n, {"heartbeatReq"}, out)
  /\ tx' = [tx EXCEPT ![Peer(n)] = out, ![n] = Message("heartbeatRsp", Default)]
  /\ rxBuf' = Emptied(n)
  /\ UNCHANGED <<cur, prev, good, linkTimer>>

\* The kinds whose handler is empty.
ReceiveOther(n, out) ==
  /\ Takes(n, {"dataReq", "heartbeatRsp"}, out)
  /\ tx' = [tx EXCEPT ![Peer(n)] = out]
  /\ FinishRx(n, 1, Emptied(n))

\* A retransmission of the last message seen is acknowledged again and dropped:
\* by recvfromAck in the loop, by sendtoWait while it waits.
ReceiveDuplicate(n, out) ==
  /\ Looping(n) => ~Overdue(n)
  /\ rxBuf[n].kind # "none" /\ rxBuf[n].dup
  /\ out \in AckOutcomes(n, rxBuf[n])
  /\ tx' = [tx EXCEPT ![Peer(n)] = out]
  /\ rxBuf' = Emptied(n)
  /\ UNCHANGED <<cur, prev, good, linkTimer>>

\* sendtoWait discards any new packet it meets while it waits.
Discard(n) ==
  /\ tx[n].kind \in MsgKind
  /\ rxBuf[n].kind # "none" /\ ~rxBuf[n].dup
  /\ rxBuf' = Emptied(n)
  /\ UNCHANGED <<cur, prev, good, linkTimer, tx>>

-----------------------------------------------------------------------------
(* sendtoWait returns *)

\* All the retries were in vain, which takes at least a tick.
RetriesOver(n) == ~tx[n].acked /\ tx[n].waited > 0

Returned(n) == [tx EXCEPT ![n] = NotSending]

\* A copy of the message that is still in the peer's driver is now orphaned.
Orphaned(n) == [rxBuf EXCEPT ![Peer(n)].live = FALSE]

\* linkChangeReq, acknowledged: adopt, and start the timer at 3 s.
LinkChangeReqAcked(n) ==
  /\ tx[n].kind = "linkChangeReq" /\ tx[n].acked
  /\ SetLink(n, tx[n].want, 0)
  /\ linkTimer' = [linkTimer EXCEPT ![n] = Started("awaitRsp")]
  /\ tx' = Returned(n)
  /\ ServiceHeartbeat(n, rxBuf)

\* serviceLinkChangeReq, acknowledged, and the tail of serviceRx.
LinkChangeRspAcked(n) ==
  /\ tx[n].kind = "linkChangeRsp" /\ tx[n].acked
  /\ tx' = Returned(n)
  /\ FinishRx(n, 1, rxBuf)

\* serviceTx counts the heartbeat response, then serviceRx the request.
HeartbeatRspAcked(n) ==
  /\ tx[n].kind = "heartbeatRsp" /\ tx[n].acked
  /\ tx' = Returned(n)
  /\ FinishRx(n, 2, rxBuf)

\* serviceTx from the loop.
DataReqAcked(n) ==
  /\ tx[n].kind = "dataReq" /\ tx[n].acked
  /\ good' = [good EXCEPT ![n] = Counted(n, 1)]
  /\ tx' = Returned(n)
  /\ UNCHANGED <<cur, prev, linkTimer, rxBuf>>

\* linkChangeReq or serviceTx from the loop, after the last retry: nothing to
\* undo, and no success to count.
RequestGivenUp(n) ==
  /\ tx[n].kind \in {"linkChangeReq", "dataReq"} /\ RetriesOver(n)
  /\ tx' = Returned(n)
  /\ rxBuf' = Orphaned(n)
  /\ UNCHANGED <<cur, prev, good, linkTimer>>

\* Mutant: the server keeps the settings when its response is not acknowledged.
LinkChangeRspGivenUpKeeps(n) ==
  /\ tx[n].kind = "linkChangeRsp" /\ RetriesOver(n)
  /\ tx' = Returned(n)
  /\ FinishRx(n, 1, Orphaned(n))

\* serviceLinkChangeReq, not acknowledged: the server reverts; serviceRx counts
\* the request.
LinkChangeRspGivenUp(n) ==
  /\ tx[n].kind = "linkChangeRsp" /\ RetriesOver(n)
  /\ Revert(n, 1)
  /\ linkTimer' = [linkTimer EXCEPT ![n] = AfterRx(@, 1)]
  /\ tx' = Returned(n)
  /\ rxBuf' = Orphaned(n)

\* serviceTx counts an error for the response, serviceRx the request.
HeartbeatRspGivenUp(n) ==
  /\ tx[n].kind = "heartbeatRsp" /\ RetriesOver(n)
  /\ tx' = Returned(n)
  /\ FinishRx(n, 1, Orphaned(n))

-----------------------------------------------------------------------------
(* serviceTimers, and power *)

\* linkChangeReqTimeout.
LinkTimerExpires(n) ==
  /\ Looping(n) /\ Overdue(n)
  /\ Revert(n, 0)
  /\ linkTimer' = [linkTimer EXCEPT ![n] = Stopped]
  /\ UNCHANGED tx
  /\ ServiceHeartbeat(n, rxBuf)

\* heartbeatReq, at the head of serviceRx.
HeartbeatExpires(n) ==
  /\ Looping(n)
  /\ UNCHANGED <<cur, prev, good, linkTimer, tx>>
  /\ ServiceHeartbeat(n, rxBuf)

\* Power is lost and setup runs again.  RadioHead's table of seen ids is lost
\* with it, so that the peer's message in flight is new again.
Restart(n) ==
  /\ cur' = [cur EXCEPT ![n] = Default]
  /\ prev' = [prev EXCEPT ![n] = Default]
  /\ good' = [good EXCEPT ![n] = 0]
  /\ linkTimer' = [linkTimer EXCEPT ![n] = Stopped]
  /\ tx' = [tx EXCEPT ![n] = NotSending, ![Peer(n)].seen = FALSE]
  /\ rxBuf' = [rxBuf EXCEPT ![n] = NoPacket, ![Peer(n)].live = FALSE]

-----------------------------------------------------------------------------
(* Time passes only while no node has work to do *)

Idle(n) ==
  /\ rxBuf[n].kind = "none"
  /\ IF Looping(n) THEN ~Overdue(n)
                   ELSE ~Deaf(n) /\ tx[n].waited < SendWait[cur[n]]

Tick ==
  /\ \A n \in Node : Idle(n)
  /\ linkTimer' = [n \in Node |->
                     IF Running(n) /\ ~Overdue(n)
                       THEN [linkTimer[n] EXCEPT !.elapsed = @ + 1]
                       ELSE linkTimer[n]]
  /\ tx' = [n \in Node |-> IF Looping(n) THEN tx[n]
                                         ELSE [tx[n] EXCEPT !.waited = @ + 1]]
  /\ UNCHANGED <<cur, prev, good, rxBuf>>

-----------------------------------------------------------------------------
ServiceRx(n) ==
  \E out \in AckOutcomes(n, rxBuf[n]) :
    \/ ReceiveLinkChangeReq(n, out)
    \/ ReceiveLinkChangeRsp(n, out)
    \/ ReceiveHeartbeatReq(n, out)
    \/ ReceiveOther(n, out)
    \/ ReceiveDuplicate(n, out)

SendReturns(n) ==
  \/ LinkChangeReqAcked(n)
  \/ LinkChangeRspAcked(n)
  \/ HeartbeatRspAcked(n)
  \/ DataReqAcked(n)
  \/ RequestGivenUp(n)
  \/ LinkChangeRspGivenUp(n)
  \/ HeartbeatRspGivenUp(n)

Next ==
  \/ Tick
  \/ \E want \in Setting : RequestLinkChange(want)
  \/ \E n \in Node : \/ SendData(n)
                     \/ Arrive(n)
                     \/ ServiceRx(n)
                     \/ AdoptLinkChangeReq(n)
                     \/ Discard(n)
                     \/ SendReturns(n)
                     \/ LinkTimerExpires(n)
                     \/ HeartbeatExpires(n)
  \/ \E n \in CommandNodes, p \in Param : \E v \in Valid[p] : Command(n, p, v)
  \/ \E n \in RestartNodes : Restart(n)

Spec == Init /\ [][Next]_vars

\* Time goes on, whatever the nodes do in between: transmissions take time.  The
\* handlers need no fairness of their own, because the next tick waits for them.
TimePasses == []<><<Tick>>_vars

\* loop() ends every round, whatever it sent, with serviceRx and its serviceTimers.
TimersServed == \A n \in Node : SF_vars(LinkTimerExpires(n))

FairSpec == Spec /\ TimePasses /\ TimersServed

-----------------------------------------------------------------------------
(* What the protocol achieves *)

\* The server is trying settings it will drop unless its response is
\* acknowledged.
Trying(n) == tx[n].kind = "linkChangeRsp"

\* The settings a node has when nothing more happens to the trial.
Stable(n) == IF Trying(n) THEN prev[n] ELSE cur[n]

\* Two successes since the last change of settings prove more than that a packet
\* got through: the endpoint is on settings the base can reach and will not roll
\* them back.  This is what SUCCESSFUL_PACKETS_BEFORE_LINK_IS_TRUSTED relies on.
SuccessesMeanAgreement ==
  good[Base] >= 2 => Compatible(cur[Base], Stable(Endpoint))

\* While the base waits for a response, the settings to which it would revert are
\* settings on which it will find the endpoint: linkChangeReqTimeout does not
\* strand the base as long as no response has come.
FallbackIsStable ==
  linkTimer[Base].wait = "awaitRsp" => Compatible(prev[Base], Stable(Endpoint))

\* n has adopted the settings s and at most rolled them back, or adopts them next.
CarriesOut(n, s) ==
  IF tx[n].kind = "adopting" THEN tx[n].want = s ELSE s \in {cur[n], prev[n]}

\* The base adopts the settings it asked for on an acknowledgement that the endpoint
\* sends before it adopts them (cpp:654, 474).  Even so, when the base adopts them the
\* endpoint has done so for this request, and at most rolled them back since, or does
\* so next: no acknowledgement, lost and sent again or meant for another request, is
\* mistaken for that of a request the endpoint drops.
AckMeansAdoption ==
  [][LinkChangeReqAcked(Base) => CarriesOut(Endpoint, tx[Base].want)]_vars

\* On settings on which the retries of a response end before linkChangeTimeoutTimer
\* does, the base handles a response on the settings on which it was sent.
ResponseInTime ==
  [][\A out \in AckOutcomes(Base, rxBuf[Base]) :
       ReceiveLinkChangeRsp(Base, out) /\ SendWait[rxBuf[Base].want] < RspWait =>
         Compatible(cur[Base], rxBuf[Base].want)]_vars

\* The same on all settings ("Transmission OK on new settings!").
ResponseTestsNewLink ==
  [][\A out \in AckOutcomes(Base, rxBuf[Base]) : ReceiveLinkChangeRsp(Base, out) =>
       Compatible(cur[Base], rxBuf[Base].want)]_vars

\* Every trial of new settings at the base ends: the timer expires or enough
\* packets succeed, although every packet received resets the timer.
TrialEnds == Running(Base) ~> ~Running(Base)

-----------------------------------------------------------------------------
(* Each node promises to keep or to restore the settings it had *)

\* The endpoint tries settings from the request to the end of its response.
Server == INSTANCE TentativeSettings WITH
            stable <- Stable(Endpoint),
            trial <- IF Trying(Endpoint) THEN {cur[Endpoint]} ELSE {},
            Commands <- Endpoint \in CommandNodes,
            Restarts <- Endpoint \in RestartNodes

\* serviceLinkChangeReq keeps the new settings or restores all of the old ones.
ServerKeepsOrRestores == Server!Spec

\* The base tries settings while linkChangeTimeoutTimer runs.
Client == INSTANCE TentativeSettings WITH
            stable <- IF Running(Base) THEN prev[Base] ELSE cur[Base],
            trial <- IF Running(Base) THEN {cur[Base]} ELSE {},
            Commands <- FALSE,
            Restarts <- FALSE

\* linkChangeReq, serviceLinkChangeRsp and linkChangeReqTimeout together keep
\* the new settings or restore all of the old ones.
ClientKeepsOrRestores == Client!Spec

=============================================================================
