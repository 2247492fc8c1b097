----------------------------- MODULE SerialInput -----------------------------
(***************************************************************************)
(* What loraPoint2Point does with the characters typed at a node's serial   *)
(* port: loop() reads all that are available, collects commands in one      *)
(* buffer and text in another, and sends the text.  The base also sends a   *)
(* test message, "foobar", every five seconds, from the same buffer.        *)
(*                                                                         *)
(* A character is its ASCII code.  Whether a message is acknowledged does   *)
(* not matter here: serviceTx empties the buffer in either case.            *)
(***************************************************************************)
EXTENDS Integers, FiniteSets, Pieces

CONSTANTS
  Char,          \* the characters that are typed
  MaxLen,        \* RH_RF95_MAX_MESSAGE_LEN
  IsBase,        \* the sketch is LoRaRangeTest_Base
  PortSize,      \* characters that the serial port holds; the host waits
  MaxChars,      \* bound: characters typed
  MaxPeriods     \* bound: test messages

ASSUME SerialAssumption ==
  /\ Char \subseteq 0 .. 127
  /\ MaxLen \in Nat \ {0}
  /\ IsBase \in BOOLEAN
  /\ PortSize \in Nat /\ MaxChars \in Nat /\ MaxPeriods \in Nat

Newline == 10
Return == 13
Escape == 27
Space == 32
Bang == 33
Hash == 35
Ampersand == 38
Star == 42

\* The parameters of commands, by their letters.
SpreadingFactor == 83
Bandwidth == 66
Channel == 67
Power == 80
Parameter == {SpreadingFactor, Bandwidth, Channel, Power}

Default == [p \in Parameter |-> CASE p = SpreadingFactor -> 0
                                  [] p = Bandwidth -> 2
                                  [] p = Channel -> 0
                                  [] p = Power -> 2]

DataReq == 1             \* msgType_dataReq, the first byte of every message
TestMessage == 256       \* the six characters of "foobar"

VARIABLES
  port,                \* typed and not yet read
  came,                \* all that has been typed (history)
  at,                  \* "idle" or inside buildStringFromSerial: "reading"
  retval,              \* of buildStringFromSerial; 0 outside it
  timeUp,
  serialCommandMode, serialCmd,
  txMsg,
  current, previous,   \* the settings of the radio, and those before them
  sent,                \* the messages sent (history)
  periods              \* test messages set (history)

vars == <<port, came, at, retval, timeUp, serialCommandMode, serialCmd, txMsg,
          current, previous, sent, periods>>

TypeOK ==
  /\ port \in Seq(Char) /\ Len(port) <= PortSize
  /\ came \in Seq(Char)
  /\ at \in {"idle", "reading"}
  /\ retval \in {0, 1}
  /\ timeUp \in BOOLEAN /\ (timeUp => IsBase)
  /\ serialCommandMode \in BOOLEAN
  /\ serialCmd \in Seq(Char \ {Newline, Return, Bang}) /\ Len(serialCmd) <= MaxLen
  /\ txMsg \in Seq(0 .. 256)
  /\ current \in [Parameter -> 0 .. 20] /\ previous \in [Parameter -> 0 .. 20]
  /\ sent \in Seq(Seq(0 .. 256) \ {<<>>})
  /\ periods \in 0 .. MaxPeriods

Init ==
  /\ port = <<>> /\ came = <<>>
  /\ at = "idle"
  /\ retval = 0
  /\ timeUp = FALSE
  /\ serialCommandMode = FALSE /\ serialCmd = <<>>
  /\ txMsg = <<>>
  /\ current = Default /\ previous = Default
  /\ sent = <<>>
  /\ periods = 0

Type(c) ==
  /\ Len(came) < MaxChars
  /\ Len(port) < PortSize
  /\ port' = Append(port, c)
  /\ came' = Append(came, c)
  /\ UNCHANGED <<at, retval, timeUp, serialCommandMode, serialCmd, txMsg,
                 current, previous, sent, periods>>

-----------------------------------------------------------------------------
(* Settings *)

\* Which values the setters take; the others they return from.
Valid(p, v) ==
  \/ p = SpreadingFactor /\ v < 6
  \/ p = Bandwidth /\ v < 3
  \/ p = Channel /\ v < 16
  \/ p = Power /\ v \in 2 .. 20

\* An enum is a byte, and setTxPower takes an int8_t.
Narrow(p, v) == IF p = Power THEN ((v + 128) % 256) - 128 ELSE v % 256

\* The value that a command gives its parameter.
Value(cmd) ==
  Narrow(cmd[1], IF cmd[1] \in {Channel, Power} /\ Len(cmd) > 2
                   THEN (cmd[2] - 48) * 10 + (cmd[3] - 48) ELSE cmd[2] - 48)

SetsParameter(cmd) == Len(cmd) >= 2 /\ cmd[1] \in Parameter /\ Valid(cmd[1], Value(cmd))

\* Mutant: previous is not kept.
ApplyCommandForgets(cmd) ==
  IF SetsParameter(cmd)
    THEN current' = [current EXCEPT ![cmd[1]] = Value(cmd)] /\ UNCHANGED previous
    ELSE UNCHANGED <<current, previous>>

\* setSpreadingFactor, setBandwidth, setFrequencyChannel and setTxPower.
ApplyCommand(cmd) ==
  IF SetsParameter(cmd)
    THEN /\ current' = [current EXCEPT ![cmd[1]] = Value(cmd)]
         /\ previous' = [previous EXCEPT ![cmd[1]] = current[cmd[1]]]
    ELSE UNCHANGED <<current, previous>>

-----------------------------------------------------------------------------
(* One round of loop(), up to serviceRx *)

\* retval before a character is read: with none to read, loop() gets any value.
Uninitialised == IF port = <<>> THEN {0, 1} ELSE {0}

\* Mutant: timeUp is not set.
StartLoopUntimed ==
  /\ at = "idle" /\ at' = "reading"
  /\ retval' \in Uninitialised
  /\ \/ UNCHANGED <<txMsg, periods>>
     \/ /\ IsBase /\ periods < MaxPeriods
        /\ txMsg' = <<DataReq, TestMessage>>
        /\ periods' = periods + 1
  /\ UNCHANGED <<timeUp, port, came, serialCommandMode, serialCmd, current, previous, sent>>

\* The base may find that five seconds are over: setTxMessage overwrites txMsg.
StartLoop ==
  /\ at = "idle" /\ at' = "reading"
  /\ retval' \in Uninitialised
  /\ \/ UNCHANGED <<txMsg, timeUp, periods>>
     \/ /\ IsBase /\ periods < MaxPeriods
        /\ txMsg' = <<DataReq, TestMessage>>
        /\ timeUp' = TRUE
        /\ periods' = periods + 1
  /\ UNCHANGED <<port, came, serialCommandMode, serialCmd, current, previous, sent>>

\* Mutant: the bound on the length is off by one.
CollectCommandOver(c) ==
  /\ serialCommandMode \/ c = Bang
  /\ c # Newline
  /\ serialCommandMode' = TRUE
  /\ serialCmd' = IF c \in {Return, Bang} \/ Len(serialCmd) > MaxLen
                    THEN serialCmd ELSE Append(serialCmd, c)
  /\ retval' = 0
  /\ UNCHANGED <<txMsg, current, previous>>

\* A character of a command, or the '!' that begins one.
CollectCommand(c) ==
  /\ serialCommandMode \/ c = Bang
  /\ c # Newline
  /\ serialCommandMode' = TRUE
  /\ serialCmd' = IF c \in {Return, Bang} \/ Len(serialCmd) >= MaxLen
                    THEN serialCmd ELSE Append(serialCmd, c)
  /\ retval' = 0
  /\ UNCHANGED <<txMsg, current, previous>>

EndCommand(c) ==
  /\ serialCommandMode /\ c = Newline
  /\ ApplyCommand(serialCmd)
  /\ serialCmd' = <<>>
  /\ serialCommandMode' = FALSE
  /\ retval' = 0
  /\ UNCHANGED txMsg

\* What a character adds to the message.
Added(c) ==
  CASE c = Hash -> <<Escape>>
    [] c = Ampersand -> <<Return>>
    [] c \in {Newline, Return, Star, Space} -> <<>>
    [] OTHER -> <<c>>

\* Mutant: only a newline that follows text starts a message.
BuildTextOver(c) ==
  /\ ~serialCommandMode /\ c # Bang
  /\ txMsg' = (IF c = Newline THEN <<DataReq>> ELSE IF txMsg = <<>> THEN <<DataReq>> ELSE txMsg) \o Added(c)
  /\ retval' = IF c \in {Newline, Return} THEN 1 ELSE 0
  /\ UNCHANGED <<serialCommandMode, serialCmd, current, previous>>

\* A character of text.
BuildText(c) ==
  /\ ~serialCommandMode /\ c # Bang
  /\ txMsg' = (IF txMsg = <<>> THEN <<DataReq>> ELSE txMsg) \o Added(c)
  /\ retval' = IF c \in {Newline, Return} THEN 1 ELSE 0
  /\ UNCHANGED <<serialCommandMode, serialCmd, current, previous>>

\* buildStringFromSerial reads one character.
ReadChar ==
  /\ at = "reading" /\ port # <<>>
  /\ port' = Tail(port)
  /\ \/ CollectCommand(Head(port))
     \/ EndCommand(Head(port))
     \/ BuildText(Head(port))
  /\ UNCHANGED <<came, at, timeUp, sent, periods>>

\* Mutant: serviceTx does not empty the buffer.
FinishLoopKeeps ==
  /\ at = "reading" /\ port = <<>>
  /\ at' = "idle"
  /\ timeUp' = FALSE
  /\ sent' = IF (retval = 1 \/ timeUp) /\ txMsg # <<>> THEN Append(sent, txMsg) ELSE sent
  /\ retval' = 0
  /\ UNCHANGED <<txMsg, port, came, serialCommandMode, serialCmd, current, previous, periods>>

\* Nothing more is available: loop() sends the message if it is told to.
FinishLoop ==
  /\ at = "reading" /\ port = <<>>
  /\ at' = "idle"
  /\ timeUp' = FALSE
  /\ IF retval = 1 \/ timeUp
       THEN /\ sent' = IF txMsg = <<>> THEN sent ELSE Append(sent, txMsg)
            /\ txMsg' = <<>>
       ELSE UNCHANGED <<sent, txMsg>>
  /\ retval' = 0
  /\ UNCHANGED <<port, came, serialCommandMode, serialCmd, current, previous, periods>>

Next ==
  \/ \E c \in Char : Type(c)
  \/ StartLoop
  \/ ReadChar
  \/ FinishLoop

Spec == Init /\ [][Next]_vars

-----------------------------------------------------------------------------
(* What the typed characters mean, read as a whole *)

HasBeenRead == SubSeq(came, 1, Len(came) - Len(port))

\* Character i belongs to a command: a '!' comes before it on its line.
InCommand(s, i) == \E j \in 1 .. i : s[j] = Bang /\ \A k \in j .. (i - 1) : s[k] # Newline

TypedText(s) ==
  Joined([i \in DOMAIN s |-> IF InCommand(s, i) THEN <<>> ELSE Added(s[i])])

\* Character k of s is one of the command on the line that goes on before i.
OfCommand(s, k, i) ==
  /\ InCommand(s, k) /\ s[k] \notin {Return, Bang}
  /\ \A l \in k .. i - 1 : s[l] # Newline

CommandAt(s, i) ==
  LET body == Joined([k \in 1 .. i - 1 |-> IF OfCommand(s, k, i) THEN <<s[k]>> ELSE <<>>]) IN
  SubSeq(body, 1, IF Len(body) < MaxLen THEN Len(body) ELSE MaxLen)

\* The value that p gets with character i of s.
SetBy(s, p, i) ==
  IF s[i] = Newline /\ InCommand(s, i)
    THEN LET cmd == CommandAt(s, i) IN
         IF SetsParameter(cmd) /\ cmd[1] = p THEN <<Value(cmd)>> ELSE <<>>
    ELSE <<>>

\* The values that parameter p has had, oldest first.
SettingsOf(s, p) == <<Default[p], Default[p]>> \o Joined([i \in DOMAIN s |-> SetBy(s, p, i)])

\* The text of a message.
Text(m) == IF m = <<>> THEN <<>> ELSE Tail(m)
SentText == Joined([k \in DOMAIN sent |-> Text(sent[k])])

-----------------------------------------------------------------------------
(* Properties *)

\* All the text is sent in order, once, with the commands cut out, however the
\* reading cuts it into messages: by the endpoint, and by the base before its
\* first test message.
TextKept == periods = 0 => SentText \o Text(txMsg) = TypedText(HasBeenRead)

\* However text, commands, test messages and the rounds of loop() interleave,
\* the radio has the last valid setting of each parameter, and `previous', to
\* which a link change falls back, the one before it.
SettingsFollowCommands ==
  \A p \in Parameter :
    LET all == SettingsOf(HasBeenRead, p) IN
    current[p] = Last(all) /\ previous[p] = all[Len(all) - 1]

\* The base loses text to test messages, but never sends it twice or out of order.
TextNeverReordered ==
  LET typed == TypedText(HasBeenRead)
      text  == SentText \o Text(txMsg) IN
  \E chosen \in SUBSET DOMAIN typed :
    Picked(typed, chosen) = Picked(text, {i \in DOMAIN text : text[i] # TestMessage})

BeginsWithTest(m) == Len(m) > 1 /\ m[2] = TestMessage

\* Every test message is sent in its round, whole and at the head of the message,
\* even when text or a command is being typed.
TestMessagesSent ==
  /\ Cardinality({k \in DOMAIN sent : BeginsWithTest(sent[k])}) + (IF timeUp THEN 1 ELSE 0) = periods
  /\ \A k \in DOMAIN sent : \A i \in DOMAIN sent[k] : sent[k][i] = TestMessage => i = 2

=============================================================================
