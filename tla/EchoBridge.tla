----------------------------- MODULE EchoBridge -----------------------------
(***************************************************************************)
(* The sensor bridge of simpleSensorCommsEchoRadio_Base and                 *)
(* simpleSensorCommsEchoRadio_Endpoint: lines typed at the base's USB port  *)
(* are sent to one of two sensors, and lines from the sensors' ports are    *)
(* sent back and printed, without acknowledgements.                         *)
(*                                                                         *)
(* A step is a part of a sketch's loop(): between two parts bytes arrive at *)
(* the ports and the other sketch moves.  A radio driver holds at most one  *)
(* received packet; any packet may be lost.                                 *)
(***************************************************************************)
EXTENDS Naturals, Pieces

CONSTANTS
  UsbByte, SensorByte,   \* the bytes that arrive at the ports
  MaxBytes               \* bound: bytes that arrive in a behaviour

ASSUME BytesAssumption == MaxBytes \in Nat

Sensor == {"seaphox", "procv"}
Port == Sensor \cup {"usb"}
Sketch == {"base", "endpoint"}

\* msgType_t and sensors_t of the lightweight protocol.
DataReq == [none |-> "dataReq", procv |-> "procvDataReq", seaphox |-> "seaphoxDataReq"]
DataRsp == [procv |-> "procvDataRsp", seaphox |-> "seaphoxDataRsp"]
NoPacket == [kind |-> "none", text |-> <<>>]

VARIABLES
  port,      \* port[p]: bytes in the serial port's buffer
  text,      \* text[p]: inputBuf from index 1 on
  done,      \* done[p]: the line in text[p] is complete
  sendTo,    \* the sensor that the user chose
  driver,    \* driver[s]: the packet in the radio driver of s
  at,        \* at[s]: the part of loop() that s is about to run
  handed,    \* handed[p]: the last packet of p's lines given to its reader
  came       \* came[p]: all the bytes that have arrived at port p (history)

vars == <<port, text, done, sendTo, driver, at, handed, came>>

BytesOf(p) == IF p = "usb" THEN UsbByte ELSE SensorByte

\* The bytes that may be in a packet of p's lines.
Payload(p) ==
  IF p = "usb" THEN (UsbByte \ {"LF", " ", "*", "$", "%", "&", "#"}) \cup {"CR", "ESC"}
               ELSE SensorByte \ {"LF", "CR", " ", "*"}

Line == [kind : {DataReq[d] : d \in DOMAIN DataReq} \cup {DataRsp[d] : d \in DOMAIN DataRsp},
         text : Seq(UNION {Payload(p) : p \in Port})]

TypeOK ==
  /\ \A buffers \in {port, came, text} : DOMAIN buffers = Port
  /\ \A p \in Port : /\ port[p] \in Seq(BytesOf(p)) /\ came[p] \in Seq(BytesOf(p))
                     /\ text[p] \in Seq(Payload(p))
  /\ done \in [Port -> BOOLEAN]
  /\ sendTo \in {"none", "seaphox", "procv"}
  /\ driver \in [Sketch -> Line \cup {NoPacket}]
  /\ at \in [Sketch -> {"usb", "seaphox", "procv", "receive"}]
  /\ handed \in [Port -> Line \cup {NoPacket}]

-----------------------------------------------------------------------------
(* What the switch statements do with a byte *)

Newline == {"LF", "CR"}

\* Mutant: '&', '#', '$' and '%' have no case of their own.
AddedRaw(p, b) == IF b \in Newline \cup {" ", "*"} THEN <<>> ELSE <<b>>

\* The bytes that b adds to inputBuf.
Added(p, b) ==
  CASE b \in Newline \cup {" ", "*"} -> <<>>
    [] p = "usb" /\ b \in {"$", "%"} -> <<>>
    [] p = "usb" /\ b = "&" -> <<"CR">>
    [] p = "usb" /\ b = "#" -> <<"ESC">>
    [] OTHER -> <<b>>

AllAdded(p, bytes) == Joined([i \in DOMAIN bytes |-> Added(p, bytes[i])])

\* sendTo after the bytes have been read.
Chosen(bytes, to) ==
  LET choices == {i \in DOMAIN bytes : bytes[i] \in {"$", "%"}} IN
  IF choices = {} THEN to ELSE IF bytes[Max(choices)] = "$" THEN "seaphox" ELSE "procv"

\* Mutant: the sketch reads on after a newline, as buildStringFromSerial does.
ReadLengthOfAll(p) == Len(port[p])

\* The places of the newlines in the serial port's buffer.
NewlinesIn(p) == {i \in DOMAIN port[p] : port[p][i] \in Newline}

\* Mutant: done is not reset when bytes have arrived.
ReadLengthUnlessDone(p) == IF done[p] \/ NewlinesIn(p) = {} THEN 0 ELSE Min(NewlinesIn(p))

\* The number of bytes that one run of the while loop reads: up to a newline.
ReadLength(p) == IF NewlinesIn(p) = {} THEN Len(port[p]) ELSE Min(NewlinesIn(p))

-----------------------------------------------------------------------------
Init ==
  /\ port = [p \in Port |-> <<>>]
  /\ text = [p \in Port |-> <<>>]
  /\ done = [p \in Port |-> TRUE]
  /\ sendTo = "none"
  /\ driver = [s \in Sketch |-> NoPacket]
  /\ at = [base |-> "usb", endpoint |-> "seaphox"]
  /\ handed = [p \in Port |-> NoPacket]
  /\ came = [p \in Port |-> <<>>]

\* A byte arrives at a serial port.
Arrive(p, b) ==
  /\ Len(came["usb"]) + Len(came["seaphox"]) + Len(came["procv"]) < MaxBytes
  /\ port' = [port EXCEPT ![p] = Append(@, b)]
  /\ came' = [came EXCEPT ![p] = Append(@, b)]
  /\ UNCHANGED <<text, done, sendTo, driver, at, handed>>

\* rf95.send: the other driver receives the packet, if it is empty and nothing
\* disturbs the transmission.
Transmit(to, packet) ==
  driver' \in {driver} \cup (IF driver[to].kind = "none"
                               THEN {[driver EXCEPT ![to] = packet]} ELSE {})

\* `done' after the while loop has read the bytes.
DoneAfter(p, bytes) ==
  IF bytes = <<>> THEN done[p] ELSE Last(bytes) \in Newline

\* The while loop on port p, and the sending of a complete line.
ReadAndSend(p, to, kind) ==
  LET bytes == SubSeq(port[p], 1, ReadLength(p))
      line  == text[p] \o AllAdded(p, bytes) IN
  /\ port' = [port EXCEPT ![p] = SubSeq(@, ReadLength(p) + 1, Len(@))]
  /\ done' = [done EXCEPT ![p] = DoneAfter(p, bytes)]
  /\ IF line # <<>> /\ DoneAfter(p, bytes)
       THEN /\ Transmit(to, [kind |-> kind, text |-> line])
            /\ text' = [text EXCEPT ![p] = <<>>]
       ELSE /\ text' = [text EXCEPT ![p] = line]
            /\ UNCHANGED driver
  /\ UNCHANGED <<handed, came>>

\* Mutant: the destination is that of the previous line.
BaseSendsStale ==
  LET to == Chosen(SubSeq(port["usb"], 1, ReadLength("usb")), sendTo) IN
  /\ at["base"] = "usb"
  /\ sendTo' = to
  /\ ReadAndSend("usb", "endpoint", DataReq[sendTo])
  /\ at' = [at EXCEPT !["base"] = "receive"]

\* The base's loop up to rf95.recv.
BaseSends ==
  LET to == Chosen(SubSeq(port["usb"], 1, ReadLength("usb")), sendTo) IN
  /\ at["base"] = "usb"
  /\ sendTo' = to
  /\ ReadAndSend("usb", "endpoint", DataReq[to])
  /\ at' = [at EXCEPT !["base"] = "receive"]

\* forwardUartToRadio, first for the SeapHOx, then for the CO2 Pro CV.
EndpointSends(p) ==
  /\ at["endpoint"] = p
  /\ ReadAndSend(p, "base", DataRsp[p])
  /\ at' = [at EXCEPT !["endpoint"] = IF p = "seaphox" THEN "procv" ELSE "receive"]
  /\ UNCHANGED sendTo

\* The base prints any packet.
BaseReceives ==
  /\ at["base"] = "receive"
  /\ at' = [at EXCEPT !["base"] = "usb"]
  /\ driver' = [driver EXCEPT !["base"] = NoPacket]
  /\ handed' = [p \in Port |-> IF p \in Sensor /\ driver["base"].kind = DataRsp[p]
                                 THEN driver["base"] ELSE handed[p]]
  /\ UNCHANGED <<port, text, done, sendTo, came>>

\* The endpoint prints a packet to the sensor that its type names; a dataReq
\* to none.
EndpointReceives ==
  /\ at["endpoint"] = "receive"
  /\ at' = [at EXCEPT !["endpoint"] = "seaphox"]
  /\ driver' = [driver EXCEPT !["endpoint"] = NoPacket]
  /\ handed' = IF driver["endpoint"].kind \in {DataReq[p] : p \in Sensor}
                 THEN [handed EXCEPT !["usb"] = driver["endpoint"]] ELSE handed
  /\ UNCHANGED <<port, text, done, sendTo, came>>

BaseStep == BaseSends \/ BaseReceives
EndpointStep == (\E p \in Sensor : EndpointSends(p)) \/ EndpointReceives

Next ==
  \/ \E p \in Port : \E b \in BytesOf(p) : Arrive(p, b)
  \/ BaseStep
  \/ EndpointStep

Spec == Init /\ [][Next]_vars

\* Both sketches run loop() for ever, and nothing in it waits for an event.
FairSpec == Spec /\ WF_vars(BaseStep) /\ WF_vars(EndpointStep)

-----------------------------------------------------------------------------
(* The lines that came to a port, by what the sketches' headers promise *)

\* What the bytes after the last newline amount to.
LineOf(p, bytes) ==
  Joined([k \in DOMAIN bytes |->
            IF \A l \in k .. Len(bytes) : bytes[l] \notin Newline THEN Added(p, bytes[k]) ELSE <<>>])

\* The line that ends with the last of the bytes.
LineEnding(p, bytes) ==
  [kind |-> IF p = "usb" THEN DataReq[Chosen(bytes, "none")] ELSE DataRsp[p],
   text |-> LineOf(p, Front(bytes))]

\* Byte i of those that came ends a line; an empty line is never sent.
EndsLine(p, bytes, i) ==
  bytes[i] \in Newline /\ LineEnding(p, SubSeq(bytes, 1, i)).text # <<>>

\* The complete lines of which the last `rest' bytes that came have the end.
LinesIn(p, bytes, rest) ==
  Joined([i \in DOMAIN bytes |-> IF i > Len(bytes) - rest /\ EndsLine(p, bytes, i)
                                   THEN <<LineEnding(p, SubSeq(bytes, 1, i))>> ELSE <<>>])

\* The complete lines that are still to be sent.
PendingLines(p) == LinesIn(p, came[p], Len(port[p]))

\* The packet of port p that is on the way.
OnTheWay(p) ==
  IF p = "usb" THEN {driver["endpoint"]} \ {NoPacket}
               ELSE {m \in {driver["base"]} : m.kind = DataRsp[p]}

\* A line with no destination.
Undeliverable == {m \in Line : m.kind = "dataReq"}

Usb == INSTANCE LineChannel WITH
  Message <- Line, NoMessage <- NoPacket, Dropped <- Undeliverable,
  queue <- PendingLines("usb"), air <- OnTheWay("usb"), handed <- handed["usb"]

SeapHOx == INSTANCE LineChannel WITH
  Message <- Line, NoMessage <- NoPacket, Dropped <- Undeliverable,
  queue <- PendingLines("seaphox"), air <- OnTheWay("seaphox"), handed <- handed["seaphox"]

ProCV == INSTANCE LineChannel WITH
  Message <- Line, NoMessage <- NoPacket, Dropped <- Undeliverable,
  queue <- PendingLines("procv"), air <- OnTheWay("procv"), handed <- handed["procv"]

\* A line typed at the base reaches the sensor chosen when the line ended, whole
\* and in order, or is lost whole; a line typed before any choice reaches none.
UsbLinesArriveWhole == Usb!Spec

\* The lines of the two sensors are sent from separate buffers and never mixed,
\* though both go through one radio.
SensorLinesArriveWhole == SeapHOx!Spec /\ ProCV!Spec

\* No complete line is stuck in a buffer.
LinesLeave == []<>(\A p \in Port : PendingLines(p) = <<>>)

=============================================================================
