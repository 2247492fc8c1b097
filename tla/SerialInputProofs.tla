-------------------------- MODULE SerialInputProofs --------------------------
(***************************************************************************)
(* What a node does with the characters typed at its serial port, for any   *)
(* characters, buffer length, bounds and either sketch: the text is sent    *)
(* whole, once and in order, the commands are obeyed, and the test messages *)
(* are sent.                                                                *)
(*                                                                         *)
(* What was typed is read as a whole by functions of a sequence (TypedText, *)
(* CommandAt, SettingsOf).  Each is shown to grow by one piece when a       *)
(* character is appended; the invariants then follow from what one step     *)
(* appends.                                                                 *)
(***************************************************************************)
EXTENDS SerialInput, FiniteSetTheorems, PiecesProofs

-----------------------------------------------------------------------------
(* The type of each variable *)

LEMMA Codes ==
  /\ Parameter = {83, 66, 67, 80}
  /\ SpreadingFactor = 83 /\ Bandwidth = 66 /\ Channel = 67 /\ Power = 80
  BY DEF Parameter, SpreadingFactor, Bandwidth, Channel, Power

\* A command that sets a parameter gives it a value of its range.
LEMMA ValueInRange ==
  ASSUME NEW cmd \in Seq(Char), SetsParameter(cmd)
  PROVE  cmd[1] \in Parameter /\ Value(cmd) \in 0 .. 20
  <1>1. /\ cmd[1] \in Parameter /\ Valid(cmd[1], Value(cmd))
        /\ cmd[2] \in Int /\ (Len(cmd) > 2 => cmd[3] \in Int)
    <2>1. \A i \in 1 .. Len(cmd) : cmd[i] \in Int
      <3>1. \A i \in 1 .. Len(cmd) : cmd[i] \in Char
        OBVIOUS
      <3>2. \A c \in Char : c \in Int
        BY SerialAssumption
      <3> QED
        BY <3>1, <3>2
    <2>2. Len(cmd) \in Nat /\ Len(cmd) >= 2
      BY DEF SetsParameter
    <2>3. 2 \in 1 .. Len(cmd) /\ (Len(cmd) > 2 => 3 \in 1 .. Len(cmd))
      BY <2>2
    <2> QED
      BY <2>1, <2>3 DEF SetsParameter
  <1> DEFINE number == IF cmd[1] \in {Channel, Power} /\ Len(cmd) > 2
                         THEN (cmd[2] - 48) * 10 + (cmd[3] - 48) ELSE cmd[2] - 48
  <1>2. number \in Int
    BY <1>1
  <1>3. Value(cmd) = Narrow(cmd[1], number)
    BY DEF Value
  <1> HIDE DEF number
  <1>4. CASE cmd[1] = Power
    BY <1>1, <1>2, <1>3, <1>4, Codes DEF Narrow, Valid
  <1>5. CASE cmd[1] # Power
    <2>1. PICK v \in 0 .. 255 : Value(cmd) = v
      BY <1>2, <1>3, <1>5 DEF Narrow
    <2>2. v < 6 \/ v < 3 \/ v < 16
      BY <1>1, <1>5, <2>1 DEF Valid
    <2>3. v \in 0 .. 20
      BY <2>2
    <2> QED
      BY <1>1, <2>1, <2>3
  <1> QED
    BY <1>1, <1>4, <1>5

LEMMA AddedType ==
  ASSUME NEW c \in Char
  PROVE  /\ Added(c) \in Seq(0 .. 127)
         /\ Added(c) = <<>> \/ \E e \in 0 .. 127 : Added(c) = <<e>>
  <1>1. Added(c) \in {<<Escape>>, <<Return>>, <<>>, <<c>>}
    BY Zenon DEF Added
  <1>2. {Escape, Return, c} \subseteq 0 .. 127
    BY SerialAssumption DEF Escape, Return
  <1>3. \A e \in 0 .. 127 : <<e>> \in Seq(0 .. 127)
    OBVIOUS
  <1>4. <<>> \in Seq(0 .. 127)
    OBVIOUS
  <1>5. ASSUME NEW e \in {Escape, Return, c}, Added(c) = <<e>>
        PROVE  Added(c) \in Seq(0 .. 127) /\ \E d \in 0 .. 127 : Added(c) = <<d>>
    BY <1>2, <1>3, <1>5
  <1>6. CASE Added(c) = <<>>
    BY <1>4, <1>6
  <1> QED
    BY <1>1, <1>5, <1>6

LEMMA DefaultType == Default \in [Parameter -> 0 .. 20]
  BY Codes DEF Default

LEMMA ApplyCommandType ==
  ASSUME TypeOK, ApplyCommand(serialCmd)
  PROVE  current' \in [Parameter -> 0 .. 20] /\ previous' \in [Parameter -> 0 .. 20]
  <1>1. serialCmd \in Seq(Char)
    BY DEF TypeOK
  <1>2. CASE SetsParameter(serialCmd)
    <2>1. serialCmd[1] \in Parameter /\ Value(serialCmd) \in 0 .. 20
      BY <1>1, <1>2, ValueInRange
    <2> QED
      BY <1>2, <2>1 DEF ApplyCommand, TypeOK
  <1>3. CASE ~SetsParameter(serialCmd)
    BY <1>3 DEF ApplyCommand, TypeOK
  <1> QED
    BY <1>2, <1>3

LEMMA TypeReadChar ==
  ASSUME TypeOK, ReadChar
  PROVE  TypeOK'
  <1>1. Head(port) \in Char /\ port' \in Seq(Char) /\ Len(port') <= PortSize
    BY SerialAssumption DEF TypeOK, ReadChar
  <1>2. CASE CollectCommand(Head(port))
    <2>1. serialCmd' \in Seq(Char \ {Newline, Return, Bang}) /\ Len(serialCmd') <= MaxLen
      <3>1. CASE serialCmd' = serialCmd
        BY <3>1 DEF TypeOK
      <3>2. CASE /\ serialCmd' = Append(serialCmd, Head(port)) /\ Len(serialCmd) < MaxLen
                 /\ Head(port) \notin {Newline, Return, Bang}
        BY <1>1, <3>2, SerialAssumption DEF TypeOK
      <3> QED
        BY <1>2, <3>1, <3>2, SerialAssumption DEF CollectCommand, TypeOK
    <2> QED
      BY <1>1, <1>2, <2>1 DEF TypeOK, ReadChar, CollectCommand
  <1>3. CASE EndCommand(Head(port))
    <2>1. current' \in [Parameter -> 0 .. 20] /\ previous' \in [Parameter -> 0 .. 20]
      BY <1>3, ApplyCommandType DEF EndCommand
    <2>2. serialCmd' = <<>> /\ Len(serialCmd') <= MaxLen /\ serialCmd' \in Seq(Char \ {Newline, Return, Bang})
      BY <1>3, SerialAssumption DEF EndCommand
    <2> QED
      BY <1>1, <1>3, <2>1, <2>2 DEF TypeOK, ReadChar, EndCommand
  <1>4. CASE BuildText(Head(port))
    <2>1. Added(Head(port)) \in Seq(0 .. 256)
      BY <1>1, AddedType
    <2>2. txMsg' \in Seq(0 .. 256)
      <3>1. txMsg \in Seq(0 .. 256) /\ <<DataReq>> \in Seq(0 .. 256)
        BY DEF TypeOK, DataReq
      <3>2. \E head \in Seq(0 .. 256) : txMsg' = head \o Added(Head(port))
        BY <1>4, <3>1 DEF BuildText
      <3> QED
        BY <2>1, <3>2
    <2> QED
      BY <1>1, <1>4, <2>2 DEF TypeOK, ReadChar, BuildText
  <1> QED
    BY <1>2, <1>3, <1>4 DEF ReadChar

LEMMA TypeStep == TypeOK /\ [Next]_vars => TypeOK'
  <1> SUFFICES ASSUME TypeOK, [Next]_vars PROVE TypeOK'
    OBVIOUS
  <1>1. ASSUME NEW c \in Char, Type(c)
        PROVE  TypeOK'
    BY <1>1, SerialAssumption DEF TypeOK, Type
  <1>2. CASE StartLoop
    <2>1. <<DataReq, TestMessage>> \in Seq(0 .. 256)
      BY DEF DataReq, TestMessage
    <2>2. txMsg' \in Seq(0 .. 256)
      BY <1>2, <2>1 DEF TypeOK, StartLoop
    <2>3. retval' \in {0, 1}
      BY <1>2 DEF StartLoop, Uninitialised
    <2>4. periods' \in 0 .. MaxPeriods
      BY <1>2, SerialAssumption DEF TypeOK, StartLoop
    <2>5. timeUp' \in BOOLEAN /\ (timeUp' => IsBase)
      <3>1. timeUp' = timeUp \/ (timeUp' = TRUE /\ IsBase)
        BY <1>2 DEF StartLoop
      <3>2. timeUp \in BOOLEAN /\ (timeUp => IsBase)
        BY DEF TypeOK
      <3>3. CASE timeUp' = timeUp
        BY <3>2, <3>3, Zenon
      <3>4. CASE timeUp' = TRUE /\ IsBase
        BY <3>4, Zenon
      <3> QED
        BY <3>1, <3>3, <3>4, Zenon
    <2> QED
      BY <1>2, <2>2, <2>3, <2>4, <2>5 DEF TypeOK, StartLoop
  <1>3. CASE FinishLoop
    <2>1. sent' = sent \/ (txMsg # <<>> /\ sent' = Append(sent, txMsg))
      BY <1>3 DEF FinishLoop
    <2>2. sent' \in Seq(Seq(0 .. 256) \ {<<>>})
      <3>1. /\ sent \in Seq(Seq(0 .. 256) \ {<<>>})
            /\ txMsg # <<>> => txMsg \in Seq(0 .. 256) \ {<<>>}
        BY DEF TypeOK
      <3> HIDE DEF TypeOK
      <3> QED
        BY <2>1, <3>1
    <2>3. txMsg' \in Seq(0 .. 256)
      <3>1. txMsg' = txMsg \/ txMsg' = <<>>
        BY <1>3 DEF FinishLoop
      <3>2. txMsg \in Seq(0 .. 256) /\ <<>> \in Seq(0 .. 256)
        BY DEF TypeOK
      <3> QED
        BY <3>1, <3>2
    <2> QED
      BY <1>3, <2>2, <2>3 DEF TypeOK, FinishLoop
  <1>4. CASE UNCHANGED vars
    BY <1>4 DEF TypeOK, vars
  <1> QED
    BY <1>1, <1>2, <1>3, <1>4, TypeReadChar DEF Next

LEMMA TypeInit == Init => TypeOK
  <1> SUFFICES ASSUME Init PROVE TypeOK
    OBVIOUS
  <1>1. current \in [Parameter -> 0 .. 20] /\ previous \in [Parameter -> 0 .. 20]
    BY DefaultType DEF Init
  <1>2. sent \in Seq(Seq(0 .. 256) \ {<<>>}) /\ serialCmd \in Seq(Char \ {Newline, Return, Bang})
    BY DEF Init
  <1>3. Len(<<>>) <= PortSize /\ Len(<<>>) <= MaxLen /\ 0 \in 0 .. MaxPeriods
    BY SerialAssumption
  <1>4. /\ Len(port) <= PortSize /\ Len(serialCmd) <= MaxLen
        /\ {port, came} \subseteq Seq(Char) /\ txMsg \in Seq(0 .. 256)
    BY <1>3 DEF Init
  <1> QED
    BY <1>1, <1>2, <1>3, <1>4 DEF Init, TypeOK

\* Whatever is typed, and however the rounds of loop() cut it: a command fits its
\* buffer and has no separators, the settings keep their ranges, no empty message
\* is sent.
THEOREM TypeCorrect == Spec => []TypeOK
  BY TypeInit, TypeStep, PTL DEF Spec

-----------------------------------------------------------------------------
(* What has been read, and the line that is being read *)

\* The port holds the end of what came.
PortIsRest ==
  /\ Len(port) <= Len(came)
  /\ \A i \in 1 .. Len(port) : port[i] = came[Len(came) - Len(port) + i]

LEMMA PortIsRestStep ==
  ASSUME TypeOK, PortIsRest, [Next]_vars
  PROVE  PortIsRest'
  <1> USE DEF PortIsRest
  <1>1. port \in Seq(Char) /\ came \in Seq(Char)
    BY DEF TypeOK
  <1>2. ASSUME NEW c \in Char, Type(c)
        PROVE  PortIsRest'
    <2>1. PICK p \in Nat, m \in Nat : p = Len(port) /\ m = Len(came) /\ p <= m
      BY <1>1
    <2>2. /\ port' = Append(port, c) /\ Len(port') = p + 1 /\ port'[p + 1] = c
          /\ \A i \in 1 .. p : port'[i] = port[i]
      BY <1>1, <1>2, <2>1 DEF Type
    <2>3. /\ came' = Append(came, c) /\ Len(came') = m + 1 /\ came'[m + 1] = c
          /\ \A i \in 1 .. m : came'[i] = came[i]
      BY <1>1, <1>2, <2>1 DEF Type
    <2>4. \A i \in 1 .. p : port[i] = came[m - p + i] /\ m - p + i \in 1 .. m
      BY <2>1
    <2>5. ASSUME NEW i \in 1 .. p + 1
          PROVE  port'[i] = came'[(m + 1) - (p + 1) + i]
      <3>1. CASE i \in 1 .. p
        <4>1. (m + 1) - (p + 1) + i = m - p + i
          OBVIOUS
        <4> QED
          BY <2>2, <2>3, <2>4, <3>1, <4>1
      <3>2. CASE i = p + 1
        <4>1. (m + 1) - (p + 1) + i = m + 1
          BY <3>2
        <4> QED
          BY <2>2, <2>3, <3>2, <4>1
      <3> QED
        BY <3>1, <3>2
    <2> QED
      BY <2>1, <2>2, <2>3, <2>5
  <1>3. CASE ReadChar
    BY <1>1, <1>3 DEF ReadChar
  <1>4. CASE UNCHANGED <<port, came>>
    BY <1>4
  <1>5. CASE StartLoop \/ FinishLoop \/ UNCHANGED vars
    BY <1>4, <1>5 DEF StartLoop, FinishLoop, vars
  <1> QED
    BY <1>2, <1>3, <1>5 DEF Next

LEMMA HasBeenReadType ==
  ASSUME TypeOK, PortIsRest
  PROVE  HasBeenRead \in Seq(Char) /\ Len(HasBeenRead) = Len(came) - Len(port)
  BY DEF TypeOK, PortIsRest, HasBeenRead

LEMMA TypeReadsNothing ==
  ASSUME TypeOK, PortIsRest, NEW c \in Char, Type(c)
  PROVE  HasBeenRead' = HasBeenRead
  <1>1. port \in Seq(Char) /\ came \in Seq(Char) /\ Len(port) <= Len(came)
    BY DEF TypeOK, PortIsRest
  <1>2. PICK n \in Nat : n = Len(came) - Len(port) /\ n <= Len(came)
    <2>1. Len(came) \in Nat /\ Len(port) \in Nat
      BY <1>1
    <2>2. Len(came) - Len(port) \in Nat /\ Len(came) - Len(port) <= Len(came)
      BY <1>1, <2>1
    <2> QED
      BY <2>2
  <1>3. port' = Append(port, c) /\ came' = Append(came, c)
    BY DEF Type
  <1>4. Len(came') - Len(port') = n
    BY <1>1, <1>2, <1>3
  <1>5. SubSeq(Append(came, c), 1, n) = SubSeq(came, 1, n)
    BY <1>1, <1>2
  <1> QED
    BY <1>2, <1>3, <1>4, <1>5 DEF HasBeenRead

LEMMA ReadCharReadsOne ==
  ASSUME TypeOK, PortIsRest, ReadChar
  PROVE  Head(port) \in Char /\ HasBeenRead' = Append(HasBeenRead, Head(port))
  <1>1. /\ port \in Seq(Char) /\ came \in Seq(Char) /\ Len(port) <= Len(came) /\ Len(port) > 0
        /\ port' = Tail(port) /\ came' = came
    BY DEF TypeOK, PortIsRest, ReadChar
  <1>2. PICK n \in Nat : n = Len(came) - Len(port) /\ n < Len(came)
    <2>1. Len(came) \in Nat /\ Len(port) \in Nat
      BY <1>1
    <2>2. Len(came) - Len(port) \in Nat /\ Len(came) - Len(port) < Len(came)
      BY <1>1, <2>1
    <2> QED
      BY <2>2
  <1>3. Len(came') - Len(port') = n + 1
    <2>1. Len(came) \in Nat /\ Len(port) \in Nat /\ Len(port') = Len(port) - 1
      BY <1>1
    <2>2. Len(came') = Len(came)
      BY <1>1
    <2>3. n = Len(came) - Len(port)
      BY <1>2
    <2> HIDE <1>1, <1>2
    <2> QED
      BY <2>1, <2>2, <2>3
  <1>4. Head(port) \in Char /\ Head(port) = came[n + 1]
    BY <1>1, <1>2 DEF PortIsRest
  <1>5. SubSeq(came, 1, n + 1) = Append(SubSeq(came, 1, n), came[n + 1])
    BY <1>1, <1>2
  <1> QED
    BY <1>1, <1>2, <1>3, <1>4, <1>5 DEF HasBeenRead

\* A '!' stands on the last line of s.
OnCommand(s) == \E j \in 1 .. Len(s) : s[j] = Bang /\ \A k \in j .. Len(s) : s[k] # Newline

LEMMA OnCommandAppend ==
  ASSUME NEW s \in Seq(Char), NEW c \in Char
  PROVE  OnCommand(Append(s, c)) <=> c # Newline /\ (c = Bang \/ OnCommand(s))
  <1>1. PICK n \in Nat : n = Len(s) /\ Len(Append(s, c)) = n + 1
    OBVIOUS
  <1>2. Append(s, c)[n + 1] = c /\ \A i \in 1 .. n : Append(s, c)[i] = s[i]
    BY <1>1
  <1>3. ASSUME OnCommand(Append(s, c))
        PROVE  c # Newline /\ (c = Bang \/ OnCommand(s))
    <2>1. PICK j \in 1 .. n + 1 : /\ Append(s, c)[j] = Bang
                                  /\ \A k \in j .. n + 1 : Append(s, c)[k] # Newline
      BY <1>1, <1>3 DEF OnCommand
    <2>2. n + 1 \in j .. n + 1 /\ (j # n + 1 => j \in 1 .. n)
      OBVIOUS
    <2>3. c # Newline
      BY <1>2, <2>1, <2>2
    <2>4. ASSUME j \in 1 .. n
          PROVE  s[j] = Bang /\ \A k \in j .. n : s[k] # Newline
      <3>1. \A k \in j .. n : k \in 1 .. n /\ k \in j .. n + 1
        BY <2>4
      <3> QED
        BY <1>2, <2>1, <2>4, <3>1
    <2> QED
      BY <1>1, <1>2, <2>1, <2>2, <2>3, <2>4 DEF OnCommand
  <1>4. ASSUME c # Newline, c = Bang
        PROVE  OnCommand(Append(s, c))
    <2>1. \A k \in n + 1 .. n + 1 : k = n + 1
      OBVIOUS
    <2> QED
      BY <1>1, <1>2, <1>4, <2>1 DEF OnCommand
  <1>5. ASSUME c # Newline, OnCommand(s)
        PROVE  OnCommand(Append(s, c))
    <2>1. PICK j \in 1 .. n : s[j] = Bang /\ \A k \in j .. n : s[k] # Newline
      BY <1>1, <1>5 DEF OnCommand
    <2>2. j \in 1 .. n + 1 /\ \A k \in j .. n + 1 : k = n + 1 \/ (k \in j .. n /\ k \in 1 .. n)
      OBVIOUS
    <2>3. \A k \in j .. n + 1 : Append(s, c)[k] # Newline
      BY <1>2, <1>5, <2>1, <2>2
    <2> QED
      BY <1>1, <1>2, <2>1, <2>2, <2>3 DEF OnCommand
  <1> QED
    BY <1>3, <1>4, <1>5

LEMMA InCommandBefore ==
  ASSUME NEW s \in Seq(Char), NEW c \in Char, NEW i \in 1 .. Len(s)
  PROVE  InCommand(Append(s, c), i) <=> InCommand(s, i)
  <1>1. \A k \in 1 .. Len(s) : Append(s, c)[k] = s[k]
    OBVIOUS
  <1>2. \A j \in 1 .. i : j \in 1 .. Len(s) /\ \A k \in j .. (i - 1) : k \in 1 .. Len(s)
    OBVIOUS
  <1> QED
    BY <1>1, <1>2 DEF InCommand

LEMMA InCommandLast ==
  ASSUME NEW s \in Seq(Char), NEW c \in Char
  PROVE  InCommand(Append(s, c), Len(s) + 1) <=> c = Bang \/ OnCommand(s)
  <1>1. PICK n \in Nat : n = Len(s)
    OBVIOUS
  <1>2. Append(s, c)[n + 1] = c /\ \A k \in 1 .. n : Append(s, c)[k] = s[k]
    BY <1>1
  <1>3. InCommand(Append(s, c), n + 1) <=>
          \E j \in 1 .. n + 1 : Append(s, c)[j] = Bang /\ \A k \in j .. n : Append(s, c)[k] # Newline
    <2>1. (n + 1) - 1 = n
      OBVIOUS
    <2> QED
      BY <2>1 DEF InCommand
  <1>4. c = Bang => InCommand(Append(s, c), n + 1)
    <2>1. n + 1 \in 1 .. n + 1 /\ \A k \in n + 1 .. n : FALSE
      OBVIOUS
    <2> QED
      BY <1>2, <1>3, <2>1
  <1>5. \A j \in 1 .. n : \A k \in j .. n : k \in 1 .. n
    OBVIOUS
  <1>6. OnCommand(s) => InCommand(Append(s, c), n + 1)
    <2>1. \A j \in 1 .. n : j \in 1 .. n + 1
      OBVIOUS
    <2> QED
      BY <1>1, <1>2, <1>3, <1>5, <2>1 DEF OnCommand
  <1>7. InCommand(Append(s, c), n + 1) => c = Bang \/ OnCommand(s)
    <2>1. \A j \in 1 .. n + 1 : j = n + 1 \/ j \in 1 .. n
      OBVIOUS
    <2> QED
      BY <1>1, <1>2, <1>3, <1>5, <2>1 DEF OnCommand
  <1> QED
    BY <1>1, <1>4, <1>6, <1>7

\* The node is in command mode exactly when a '!' stands on the line being read.
ModeFollowsLine == serialCommandMode <=> OnCommand(HasBeenRead)

LEMMA ModeStep ==
  ASSUME TypeOK, PortIsRest, ModeFollowsLine, [Next]_vars
  PROVE  ModeFollowsLine'
  <1>1. CASE ReadChar
    <2>1. Head(port) \in Char /\ HasBeenRead' = Append(HasBeenRead, Head(port)) /\ HasBeenRead \in Seq(Char)
      BY <1>1, ReadCharReadsOne, HasBeenReadType
    <2>2. OnCommand(HasBeenRead)' <=> Head(port) # Newline /\ (Head(port) = Bang \/ OnCommand(HasBeenRead))
      BY <2>1, OnCommandAppend DEF OnCommand
    <2>3. serialCommandMode' <=> Head(port) # Newline /\ (Head(port) = Bang \/ serialCommandMode)
      <3>1. CASE CollectCommand(Head(port))
        <4>1. Bang # Newline
          BY DEF Bang, Newline
        <4> QED
          BY <3>1, <4>1 DEF CollectCommand
      <3>2. CASE EndCommand(Head(port))
        BY <3>2 DEF EndCommand
      <3>3. CASE BuildText(Head(port))
        BY <3>3 DEF BuildText
      <3> QED
        BY <1>1, <3>1, <3>2, <3>3 DEF ReadChar
    <2> QED
      BY <2>2, <2>3 DEF ModeFollowsLine
  <1>2. CASE HasBeenRead' = HasBeenRead /\ serialCommandMode' = serialCommandMode
    BY <1>2 DEF ModeFollowsLine, OnCommand
  <1>3. ASSUME NEW c \in Char, Type(c)
        PROVE  ModeFollowsLine'
    BY <1>2, <1>3, TypeReadsNothing DEF Type
  <1>4. CASE StartLoop \/ FinishLoop \/ UNCHANGED vars
    BY <1>2, <1>4 DEF StartLoop, FinishLoop, vars, HasBeenRead
  <1> QED
    BY <1>1, <1>3, <1>4 DEF Next

LEMMA ReadInit == Init => PortIsRest /\ ModeFollowsLine /\ HasBeenRead = <<>>
  BY DEF Init, PortIsRest, ModeFollowsLine, HasBeenRead, OnCommand

-----------------------------------------------------------------------------
(* The text that is typed, and the text that is sent *)

\* What a character of text adds, none of a command.
TextOf(c, open) == IF c = Bang \/ open THEN <<>> ELSE Added(c)

LEMMA TextOfType ==
  ASSUME NEW c \in Char, NEW open
  PROVE  TextOf(c, open) \in Seq(0 .. 256)
  <1>1. Added(c) \in Seq(0 .. 256)
    BY AddedType
  <1>2. <<>> \in Seq(0 .. 256)
    OBVIOUS
  <1> QED
    BY <1>1, <1>2 DEF TextOf

LEMMA TypedTextPieces ==
  ASSUME NEW s \in Seq(Char)
  PROVE  [i \in DOMAIN s |-> IF InCommand(s, i) THEN <<>> ELSE Added(s[i])]
           \in [1 .. Len(s) -> Seq(0 .. 256)]
  <1>1. \A i \in 1 .. Len(s) : s[i] \in Char
    OBVIOUS
  <1>2. \A i \in 1 .. Len(s) : Added(s[i]) \in Seq(0 .. 256)
    BY <1>1, AddedType
  <1>3. <<>> \in Seq(0 .. 256) /\ DOMAIN s = 1 .. Len(s)
    OBVIOUS
  <1> QED
    BY <1>2, <1>3

LEMMA TypedTextType ==
  ASSUME NEW s \in Seq(Char)
  PROVE  TypedText(s) \in Seq(0 .. 256)
  <1>1. PICK f \in [1 .. Len(s) -> Seq(0 .. 256)] :
          f = [i \in DOMAIN s |-> IF InCommand(s, i) THEN <<>> ELSE Added(s[i])]
    BY TypedTextPieces
  <1>2. f \in Seq(Seq(0 .. 256)) /\ TypedText(s) = Joined(f)
    BY <1>1 DEF TypedText
  <1> QED
    BY <1>2, JoinedType

LEMMA TypedTextAppend ==
  ASSUME NEW s \in Seq(Char), NEW c \in Char
  PROVE  TypedText(Append(s, c)) = TypedText(s) \o TextOf(c, OnCommand(s))
  <1>0. PICK n, t : n = Len(s) /\ t = Append(s, c)
    OBVIOUS
  <1>1. /\ n \in Nat /\ n = Len(s) /\ DOMAIN s = 1 .. n
        /\ t \in Seq(Char) /\ t = Append(s, c) /\ Len(t) = n + 1 /\ DOMAIN t = 1 .. n + 1
        /\ t[n + 1] = c /\ \A i \in 1 .. n : t[i] = s[i]
    BY <1>0
  <1>2. PICK f \in [1 .. n -> Seq(0 .. 256)] :
          f = [i \in DOMAIN s |-> IF InCommand(s, i) THEN <<>> ELSE Added(s[i])]
    BY <1>1, TypedTextPieces
  <1>3. PICK g \in [1 .. n + 1 -> Seq(0 .. 256)] :
          g = [i \in DOMAIN t |-> IF InCommand(t, i) THEN <<>> ELSE Added(t[i])]
    BY <1>1, TypedTextPieces
  <1>4. ASSUME NEW i \in 1 .. n
        PROVE  g[i] = f[i]
    <2>1. InCommand(t, i) <=> InCommand(s, i)
      BY <1>1, InCommandBefore
    <2>2. t[i] = s[i] /\ i \in DOMAIN s /\ i \in DOMAIN t
      BY <1>1
    <2> QED
      BY <1>2, <1>3, <2>1, <2>2
  <1>5. g[n + 1] = TextOf(c, OnCommand(s))
    <2>1. InCommand(t, n + 1) <=> c = Bang \/ OnCommand(s)
      BY <1>1, InCommandLast
    <2>2. n + 1 \in DOMAIN t /\ t[n + 1] = c
      BY <1>1
    <2> QED
      BY <1>3, <2>1, <2>2 DEF TextOf
  <1>6. Joined(g) = Joined(f) \o g[n + 1]
    <2>1. n \in Nat
      BY <1>1
    <2> QED
      BY <1>4, <2>1, JoinedNext
  <1> QED
    BY <1>1, <1>2, <1>3, <1>5, <1>6 DEF TypedText

LEMMA TextType ==
  ASSUME NEW m \in Seq(0 .. 256)
  PROVE  Text(m) \in Seq(0 .. 256)
  BY DEF Text

\* A byte more in a message, after the first, is a byte more of its text.
LEMMA TextConcat ==
  ASSUME NEW m \in Seq(0 .. 256), NEW t \in Seq(0 .. 256)
  PROVE  Text((IF m = <<>> THEN <<DataReq>> ELSE m) \o t) = Text(m) \o t
  <1>1. CASE m = <<>>
    BY <1>1 DEF Text
  <1>2. CASE m # <<>>
    BY <1>2 DEF Text
  <1> QED
    BY <1>1, <1>2

TextsOf(messages) == Joined([k \in DOMAIN messages |-> Text(messages[k])])

LEMMA TextsOfPieces ==
  ASSUME NEW messages \in Seq(Seq(0 .. 256))
  PROVE  [k \in DOMAIN messages |-> Text(messages[k])] \in [1 .. Len(messages) -> Seq(0 .. 256)]
  <1>1. DOMAIN messages = 1 .. Len(messages) /\ \A k \in 1 .. Len(messages) : messages[k] \in Seq(0 .. 256)
    OBVIOUS
  <1> QED
    BY <1>1, TextType

LEMMA TextsOfType ==
  ASSUME NEW messages \in Seq(Seq(0 .. 256))
  PROVE  TextsOf(messages) \in Seq(0 .. 256)
  <1>1. PICK f \in [1 .. Len(messages) -> Seq(0 .. 256)] : f = [k \in DOMAIN messages |-> Text(messages[k])]
    BY TextsOfPieces
  <1>2. f \in Seq(Seq(0 .. 256)) /\ TextsOf(messages) = Joined(f)
    BY <1>1 DEF TextsOf
  <1> QED
    BY <1>2, JoinedType

LEMMA TextsOfAppend ==
  ASSUME NEW messages \in Seq(Seq(0 .. 256)), NEW m \in Seq(0 .. 256)
  PROVE  TextsOf(Append(messages, m)) = TextsOf(messages) \o Text(m)
  <1>0. PICK n, more : n = Len(messages) /\ more = Append(messages, m)
    OBVIOUS
  <1>1. /\ n \in Nat /\ n = Len(messages) /\ DOMAIN messages = 1 .. n
        /\ more \in Seq(Seq(0 .. 256)) /\ more = Append(messages, m)
        /\ Len(more) = n + 1 /\ DOMAIN more = 1 .. n + 1
        /\ more[n + 1] = m /\ \A i \in 1 .. n : more[i] = messages[i]
    BY <1>0
  <1>2. PICK f \in [1 .. n -> Seq(0 .. 256)] : f = [k \in DOMAIN messages |-> Text(messages[k])]
    BY <1>1, TextsOfPieces
  <1>3. PICK g \in [1 .. n + 1 -> Seq(0 .. 256)] : g = [k \in DOMAIN more |-> Text(more[k])]
    BY <1>1, TextsOfPieces
  <1>4. \A i \in 1 .. n : g[i] = f[i]
    BY <1>1, <1>2, <1>3
  <1>5. g[n + 1] = Text(m)
    BY <1>1, <1>3
  <1>6. Grown(f, g, g[n + 1])
    <2>1. n \in Nat
      BY <1>1
    <2> QED
      BY <1>4, <2>1, JoinedGrown
  <1> QED
    BY <1>1, <1>2, <1>3, <1>5, <1>6 DEF TextsOf, Grown

LEMMA SentType ==
  ASSUME TypeOK
  PROVE  /\ SentText \in Seq(0 .. 256) /\ Text(txMsg) \in Seq(0 .. 256)
         /\ sent \in Seq(Seq(0 .. 256)) /\ txMsg \in Seq(0 .. 256)
         /\ SentText = TextsOf(sent)
  <1>1. txMsg \in Seq(0 .. 256) /\ sent \in Seq(Seq(0 .. 256) \ {<<>>})
    BY DEF TypeOK
  <1>2. sent \in Seq(Seq(0 .. 256))
    BY <1>1
  <1> QED
    BY <1>1, <1>2, TextType, TextsOfType DEF SentText, TextsOf

LEMMA TextRead ==
  ASSUME TypeOK, PortIsRest, ModeFollowsLine, ReadChar
  PROVE  /\ SentText' = SentText /\ Head(port) \in Char
         /\ Text(txMsg') = Text(txMsg) \o TextOf(Head(port), OnCommand(HasBeenRead))
         /\ TypedText(HasBeenRead)' =
              TypedText(HasBeenRead) \o TextOf(Head(port), OnCommand(HasBeenRead))
  <1>1. /\ Head(port) \in Char /\ HasBeenRead' = Append(HasBeenRead, Head(port))
        /\ HasBeenRead \in Seq(Char)
    BY ReadCharReadsOne, HasBeenReadType
  <1>2. TypedText(HasBeenRead)' = TypedText(Append(HasBeenRead, Head(port)))
    BY <1>1 DEF TypedText, InCommand, Added, Joined
  <1>3. txMsg \in Seq(0 .. 256) /\ Added(Head(port)) \in Seq(0 .. 256) /\ Text(txMsg) \in Seq(0 .. 256)
    <2>1. Added(Head(port)) \in Seq(0 .. 256)
      BY <1>1, AddedType
    <2> QED
      BY <2>1, SentType
  <1>4. Text(txMsg') = Text(txMsg) \o TextOf(Head(port), OnCommand(HasBeenRead))
    <2>1. CASE BuildText(Head(port))
      <3>1. TextOf(Head(port), OnCommand(HasBeenRead)) = Added(Head(port))
        BY <2>1 DEF BuildText, TextOf, ModeFollowsLine
      <3>2. txMsg' = (IF txMsg = <<>> THEN <<DataReq>> ELSE txMsg) \o Added(Head(port))
        BY <2>1 DEF BuildText
      <3> QED
        BY <1>3, <3>1, <3>2, TextConcat
    <2>2. CASE CollectCommand(Head(port)) \/ EndCommand(Head(port))
      <3>1. txMsg' = txMsg
        BY <2>2 DEF CollectCommand, EndCommand
      <3>2. TextOf(Head(port), OnCommand(HasBeenRead)) = <<>>
        BY <2>2 DEF CollectCommand, EndCommand, TextOf, ModeFollowsLine
      <3>3. Text(txMsg) \o <<>> = Text(txMsg)
        BY <1>3
      <3> QED
        BY <3>1, <3>2, <3>3
    <2> QED
      BY <2>1, <2>2 DEF ReadChar
  <1>6. SentText' = SentText
    BY DEF ReadChar, SentText
  <1> QED
    BY <1>1, <1>2, <1>4, <1>6, TypedTextAppend

LEMMA TextFinish ==
  ASSUME TypeOK, FinishLoop
  PROVE  /\ HasBeenRead' = HasBeenRead
         /\ \/ SentText' = SentText /\ Text(txMsg') = Text(txMsg)
            \/ SentText' = SentText \o Text(txMsg) /\ Text(txMsg') = <<>>
  <1>1. HasBeenRead' = HasBeenRead
    BY DEF FinishLoop, HasBeenRead
  <1>2. SentText' = TextsOf(sent')
    BY DEF SentText, TextsOf
  <1>3. ASSUME sent' = sent, txMsg' = txMsg
        PROVE  SentText' = SentText /\ Text(txMsg') = Text(txMsg)
    BY <1>2, <1>3, SentType
  <1>4. ASSUME txMsg = <<>>, sent' = sent, txMsg' = <<>>
        PROVE  SentText' = SentText /\ Text(txMsg') = Text(txMsg)
    BY <1>2, <1>4, SentType
  <1>5. ASSUME sent' = Append(sent, txMsg), txMsg' = <<>>
        PROVE  SentText' = SentText \o Text(txMsg) /\ Text(txMsg') = <<>>
    <2>1. Text(txMsg') = <<>>
      BY <1>5 DEF Text
    <2>2. TextsOf(Append(sent, txMsg)) = TextsOf(sent) \o Text(txMsg)
      BY SentType, TextsOfAppend
    <2> QED
      BY <1>2, <1>5, <2>1, <2>2, SentType
  <1>6. \/ sent' = sent /\ txMsg' = txMsg
        \/ txMsg = <<>> /\ sent' = sent /\ txMsg' = <<>>
        \/ sent' = Append(sent, txMsg) /\ txMsg' = <<>>
    BY DEF FinishLoop
  <1> QED
    BY <1>1, <1>3, <1>4, <1>5, <1>6

LEMMA TextUntouched ==
  ASSUME TypeOK, PortIsRest, NEW c \in Char, Type(c)
  PROVE  /\ SentText' = SentText /\ txMsg' = txMsg /\ HasBeenRead' = HasBeenRead
  BY TypeReadsNothing DEF Type, SentText

TextInv == TypeOK /\ PortIsRest /\ ModeFollowsLine

LEMMA TextInvStep == TextInv /\ [Next]_vars => TextInv'
  BY TypeStep, PortIsRestStep, ModeStep DEF TextInv

LEMMA NothingTyped ==
  ASSUME Init
  PROVE  TypedText(HasBeenRead) = <<>> /\ SentText = <<>> /\ Text(txMsg) = <<>>
  <1>1. HasBeenRead = <<>> /\ sent = <<>> /\ txMsg = <<>>
    BY ReadInit DEF Init
  <1>2. DOMAIN <<>> = 1 .. 0
    OBVIOUS
  <1>3. TypedText(<<>>) = <<>>
    <2> DEFINE f == [i \in DOMAIN <<>> |-> IF InCommand(<<>>, i) THEN <<>> ELSE Added(<<>>[i])]
    <2>1. f \in [1 .. 0 -> {<<>>}]
      BY <1>2
    <2>2. TypedText(<<>>) = Joined(f)
      BY DEF TypedText
    <2> HIDE DEF f
    <2> QED
      BY <2>1, <2>2, JoinedEmpty
  <1>4. Joined([k \in DOMAIN <<>> |-> Text(<<>>[k])]) = <<>>
    <2> DEFINE f == [k \in DOMAIN <<>> |-> Text(<<>>[k])]
    <2>1. f \in [1 .. 0 -> {<<>>}]
      BY <1>2
    <2> HIDE DEF f
    <2>2. Joined(f) = <<>>
      BY <2>1, JoinedEmpty
    <2> QED
      BY <2>2 DEF f
  <1> QED
    BY <1>1, <1>3, <1>4 DEF SentText, Text

\* However the reading cuts the text into messages, and whatever commands are among
\* it, all of it is sent in order and once, but for the last message, which is kept:
\* by a node that sets no test message (buildStringFromSerial and serviceTx).
THEOREM TextKeptAlways == Spec => []TextKept
  <1>1. Init => TextInv /\ TextKept
    <2> SUFFICES ASSUME Init PROVE TextInv /\ TextKept
      OBVIOUS
    <2>1. <<>> \o <<>> = <<>>
      OBVIOUS
    <2> QED
      BY <2>1, TypeInit, ReadInit, NothingTyped DEF TextInv, TextKept
  <1>2. TextInv /\ TextKept /\ [Next]_vars => TextKept'
    <2> SUFFICES ASSUME TextInv, TextKept, [Next]_vars, periods' = 0
                 PROVE  (SentText \o Text(txMsg) = TypedText(HasBeenRead))'
      BY DEF TextKept
    <2>1. ASSUME periods = 0
          PROVE  SentText \o Text(txMsg) = TypedText(HasBeenRead)
      BY <2>1 DEF TextKept
    <2>2. SentText \in Seq(0 .. 256) /\ Text(txMsg) \in Seq(0 .. 256)
      BY SentType DEF TextInv
    <2>3. CASE ReadChar
      <3>1. periods = 0
        BY <2>3 DEF ReadChar
      <3>2. TextOf(Head(port), OnCommand(HasBeenRead)) \in Seq(0 .. 256)
        BY <2>3, TextRead, TextOfType DEF TextInv
      <3>3. SentText \o (Text(txMsg) \o TextOf(Head(port), OnCommand(HasBeenRead))) =
              (SentText \o Text(txMsg)) \o TextOf(Head(port), OnCommand(HasBeenRead))
        BY <2>2, <3>2
      <3> QED
        BY <2>1, <2>3, <3>1, <3>3, TextRead DEF TextInv
    <2>4. CASE FinishLoop
      <3>1. periods = 0
        BY <2>4 DEF FinishLoop
      <3>2. (SentText \o Text(txMsg)) \o <<>> = SentText \o Text(txMsg)
        BY <2>2
      <3>3. SentText' \o Text(txMsg') = SentText \o Text(txMsg)
        BY <2>4, <3>2, TextFinish DEF TextInv
      <3>4. HasBeenRead' = HasBeenRead
        BY <2>4, TextFinish DEF TextInv
      <3> QED
        BY <2>1, <3>1, <3>3, <3>4
    <2>5. CASE SentText' = SentText /\ txMsg' = txMsg /\ HasBeenRead' = HasBeenRead /\ periods = 0
      BY <2>1, <2>5
    <2>6. CASE StartLoop
      <3>1. periods = 0 /\ txMsg' = txMsg
        BY <2>6 DEF StartLoop, TextInv, TypeOK
      <3> QED
        BY <2>5, <2>6, <3>1 DEF StartLoop, SentText, HasBeenRead
    <2>7. ASSUME NEW c \in Char, Type(c)
          PROVE  (SentText \o Text(txMsg) = TypedText(HasBeenRead))'
      BY <2>5, <2>7, TextUntouched DEF TextInv, Type
    <2>8. CASE UNCHANGED vars
      BY <2>5, <2>8 DEF vars, SentText, HasBeenRead
    <2> QED
      BY <2>3, <2>4, <2>6, <2>7, <2>8 DEF Next
  <1> QED
    BY <1>1, <1>2, TextInvStep, PTL DEF Spec

-----------------------------------------------------------------------------
(* What is left of the text when test messages overwrite some *)

LEMMA PickedPieces ==
  ASSUME NEW S, NEW s \in Seq(S), NEW indices
  PROVE  [i \in DOMAIN s |-> IF i \in indices THEN <<s[i]>> ELSE <<>>] \in [1 .. Len(s) -> Seq(S)]
  <1>1. DOMAIN s = 1 .. Len(s) /\ <<>> \in Seq(S) /\ \A i \in 1 .. Len(s) : s[i] \in S
    OBVIOUS
  <1>2. \A e \in S : <<e>> \in Seq(S)
    OBVIOUS
  <1> QED
    BY <1>1, <1>2

LEMMA PickedType ==
  ASSUME NEW S, NEW s \in Seq(S), NEW indices
  PROVE  Picked(s, indices) \in Seq(S)
  <1>1. PICK f \in [1 .. Len(s) -> Seq(S)] :
          f = [i \in DOMAIN s |-> IF i \in indices THEN <<s[i]>> ELSE <<>>]
    BY PickedPieces
  <1>2. f \in Seq(Seq(S)) /\ Picked(s, indices) = Joined(f)
    BY <1>1 DEF Picked
  <1> QED
    BY <1>2, JoinedType

\* Only the indices in s matter.
LEMMA PickedSame ==
  ASSUME NEW s, NEW I, NEW J, \A i \in DOMAIN s : i \in I <=> i \in J
  PROVE  Picked(s, I) = Picked(s, J)
  BY DEF Picked

LEMMA PickedAppend ==
  ASSUME NEW S, NEW s \in Seq(S), NEW c \in S, NEW I, NEW J,
         \A i \in 1 .. Len(s) : i \in I <=> i \in J
  PROVE  Picked(Append(s, c), J) = Picked(s, I) \o (IF Len(s) + 1 \in J THEN <<c>> ELSE <<>>)
  <1>0. PICK n, t : n = Len(s) /\ t = Append(s, c)
    OBVIOUS
  <1>1. /\ n \in Nat /\ n = Len(s) /\ DOMAIN s = 1 .. n
        /\ t \in Seq(S) /\ t = Append(s, c) /\ Len(t) = n + 1 /\ DOMAIN t = 1 .. n + 1
        /\ t[n + 1] = c /\ \A i \in 1 .. n : t[i] = s[i]
    BY <1>0
  <1>2. PICK f \in [1 .. n -> Seq(S)] : f = [i \in DOMAIN s |-> IF i \in I THEN <<s[i]>> ELSE <<>>]
    BY <1>1, PickedPieces
  <1>3. PICK g \in [1 .. n + 1 -> Seq(S)] : g = [i \in DOMAIN t |-> IF i \in J THEN <<t[i]>> ELSE <<>>]
    <2>1. t \in Seq(S) /\ Len(t) = n + 1
      BY <1>1
    <2>2. [i \in DOMAIN t |-> IF i \in J THEN <<t[i]>> ELSE <<>>] \in [1 .. Len(t) -> Seq(S)]
      BY <2>1, PickedPieces
    <2> QED
      BY <2>1, <2>2
  <1>4. \A i \in 1 .. n : g[i] = f[i]
    BY <1>1, <1>2, <1>3
  <1>5. g[n + 1] = IF n + 1 \in J THEN <<c>> ELSE <<>>
    BY <1>1, <1>3
  <1>6. Joined(g) = Joined(f) \o g[n + 1]
    <2>1. n \in Nat
      BY <1>1
    <2> QED
      BY <1>4, <2>1, JoinedNext
  <1> QED
    BY <1>1, <1>2, <1>3, <1>5, <1>6 DEF Picked

Byte == 0 .. 256

WithoutTest(s) == Picked(s, {i \in DOMAIN s : s[i] # TestMessage})

LEMMA WithoutTestAppend ==
  ASSUME NEW s \in Seq(Byte), NEW c \in Byte
  PROVE  WithoutTest(Append(s, c)) = WithoutTest(s) \o (IF c # TestMessage THEN <<c>> ELSE <<>>)
  <1>0. PICK n, t : n = Len(s) /\ t = Append(s, c)
    OBVIOUS
  <1>1. /\ n \in Nat /\ n = Len(s) /\ DOMAIN s = 1 .. n
        /\ t = Append(s, c) /\ DOMAIN t = 1 .. n + 1
        /\ t[n + 1] = c /\ \A i \in 1 .. n : t[i] = s[i]
    BY <1>0
  <1> DEFINE I == {i \in DOMAIN s : s[i] # TestMessage}
             J == {i \in DOMAIN t : t[i] # TestMessage}
  <1>2. \A i \in 1 .. n : i \in I <=> i \in J
    BY <1>1
  <1>3. n + 1 \in J <=> c # TestMessage
    BY <1>1
  <1>4. WithoutTest(s) = Picked(s, I) /\ WithoutTest(t) = Picked(t, J)
    BY DEF WithoutTest
  <1> HIDE DEF I, J
  <1>5. Picked(t, J) = Picked(s, I) \o (IF n + 1 \in J THEN <<c>> ELSE <<>>)
    BY <1>1, <1>2, PickedAppend
  <1> QED
    BY <1>1, <1>3, <1>4, <1>5

\* x is what is left of y when some elements are left out.
LeftOf(x, y) == \E chosen \in SUBSET DOMAIN y : Picked(y, chosen) = x

LEMMA LeftOfMore ==
  ASSUME NEW x \in Seq(Byte), NEW y \in Seq(Byte), NEW c \in Byte, LeftOf(x, y)
  PROVE  LeftOf(x, Append(y, c)) /\ LeftOf(Append(x, c), Append(y, c))
  <1>0. PICK n, t : n = Len(y) /\ t = Append(y, c)
    OBVIOUS
  <1>1. n \in Nat /\ n = Len(y) /\ DOMAIN y = 1 .. n /\ t = Append(y, c) /\ DOMAIN t = 1 .. n + 1
    BY <1>0
  <1>2. PICK chosen \in SUBSET (1 .. n) : Picked(y, chosen) = x
    BY <1>1 DEF LeftOf
  <1>3. x \o <<>> = x /\ x \o <<c>> = Append(x, c)
    OBVIOUS
  <1>4. LeftOf(x, t)
    <2>1. n + 1 \notin chosen /\ chosen \in SUBSET DOMAIN t
      BY <1>1
    <2>2. Picked(t, chosen) = x \o <<>>
      <3>1. Picked(Append(y, c), chosen) = Picked(y, chosen) \o (IF Len(y) + 1 \in chosen THEN <<c>> ELSE <<>>)
        BY PickedAppend
      <3> QED
        BY <1>1, <1>2, <2>1, <3>1
    <2> QED
      BY <1>3, <2>1, <2>2 DEF LeftOf
  <1>5. LeftOf(Append(x, c), t)
    <2> DEFINE more == chosen \cup {n + 1}
    <2>1. n + 1 \in more /\ more \in SUBSET DOMAIN t
      <3>1. n + 1 \in DOMAIN t /\ 1 .. n \subseteq DOMAIN t
        BY <1>1
      <3> QED
        BY <3>1
    <2>2. \A i \in 1 .. n : i \in chosen <=> i \in more
      BY <1>1
    <2> HIDE DEF more
    <2>3. Picked(t, more) = x \o <<c>>
      BY <1>1, <1>2, <2>1, <2>2, PickedAppend
    <2> QED
      BY <1>3, <2>1, <2>3 DEF LeftOf
  <1> QED
    BY <1>1, <1>4, <1>5

LEMMA TextOfShort ==
  ASSUME NEW c \in Char, NEW open
  PROVE  \/ TextOf(c, open) = <<>>
         \/ \E e \in Byte : e # TestMessage /\ TextOf(c, open) = <<e>>
  <1>1. Added(c) = <<>> \/ \E e \in 0 .. 127 : Added(c) = <<e>>
    BY AddedType
  <1>2. \A e \in 0 .. 127 : e \in Byte /\ e # TestMessage
    BY DEF Byte, TestMessage
  <1> QED
    BY <1>1, <1>2 DEF TextOf

\* Text that is typed is put at the end of both.
LEMMA LeftOfText ==
  ASSUME NEW x \in Seq(Byte), NEW y \in Seq(Byte), NEW c \in Char, NEW open, LeftOf(WithoutTest(x), y)
  PROVE  /\ LeftOf(WithoutTest(x), y \o TextOf(c, open))
         /\ LeftOf(WithoutTest(x \o TextOf(c, open)), y \o TextOf(c, open))
  <1>1. CASE TextOf(c, open) = <<>>
    <2>1. x \o <<>> = x /\ y \o <<>> = y
      OBVIOUS
    <2> QED
      BY <1>1, <2>1
  <1>2. ASSUME NEW e \in Byte, e # TestMessage, TextOf(c, open) = <<e>>
        PROVE  /\ LeftOf(WithoutTest(x), y \o TextOf(c, open))
               /\ LeftOf(WithoutTest(x \o TextOf(c, open)), y \o TextOf(c, open))
    <2>1. WithoutTest(x) \in Seq(Byte)
      BY PickedType DEF WithoutTest
    <2>2. x \o <<e>> = Append(x, e) /\ y \o <<e>> = Append(y, e) /\ WithoutTest(x) \o <<e>> = Append(WithoutTest(x), e)
      BY <2>1
    <2>3. WithoutTest(Append(x, e)) = Append(WithoutTest(x), e)
      BY <1>2, <2>2, WithoutTestAppend
    <2>4. LeftOf(WithoutTest(x), Append(y, e)) /\ LeftOf(Append(WithoutTest(x), e), Append(y, e))
      BY <2>1, LeftOfMore
    <2> QED
      BY <1>2, <2>2, <2>3, <2>4
  <1> QED
    BY <1>1, <1>2, TextOfShort

\* What the messages sent have kept of the text, and what the next one keeps after it.
KeptInOrder ==
  /\ LeftOf(WithoutTest(SentText), TypedText(HasBeenRead))
  /\ LeftOf(WithoutTest(SentText \o Text(txMsg)), TypedText(HasBeenRead))

LEMMA KeptInOrderInit == Init => KeptInOrder
  <1> SUFFICES ASSUME Init PROVE KeptInOrder
    OBVIOUS
  <1>1. <<>> \in Seq(Byte) /\ <<>> \o <<>> = <<>> /\ DOMAIN <<>> = 1 .. 0
    OBVIOUS
  <1>2. \A indices : Picked(<<>>, indices) = <<>>
    <2> TAKE indices
    <2> DEFINE f == [i \in DOMAIN <<>> |-> IF i \in indices THEN <<(<<>>[i])>> ELSE <<>>]
    <2>1. f \in [1 .. 0 -> {<<>>}]
      BY <1>1
    <2>2. Picked(<<>>, indices) = Joined(f)
      BY DEF Picked
    <2> HIDE DEF f
    <2> QED
      BY <2>1, <2>2, JoinedEmpty
  <1>3. LeftOf(WithoutTest(<<>>), <<>>)
    BY <1>2 DEF LeftOf, WithoutTest
  <1> QED
    BY <1>1, <1>3, NothingTyped DEF KeptInOrder

LEMMA KeptInOrderStep == TextInv /\ KeptInOrder /\ [Next]_vars => KeptInOrder'
  <1> SUFFICES ASSUME TextInv, KeptInOrder, [Next]_vars PROVE KeptInOrder'
    OBVIOUS
  <1>1. /\ TypeOK /\ PortIsRest /\ ModeFollowsLine
        /\ SentText \in Seq(Byte) /\ Text(txMsg) \in Seq(Byte) /\ TypedText(HasBeenRead) \in Seq(Byte)
    BY SentType, HasBeenReadType, TypedTextType DEF TextInv, Byte
  <1>2. /\ LeftOf(WithoutTest(SentText), TypedText(HasBeenRead))
        /\ LeftOf(WithoutTest(SentText \o Text(txMsg)), TypedText(HasBeenRead))
    BY DEF KeptInOrder
  <1>3. SentText \o Text(txMsg) \in Seq(Byte)
    BY <1>1
  <1>4. SUFFICES /\ LeftOf(WithoutTest(SentText'), TypedText(HasBeenRead'))
                 /\ LeftOf(WithoutTest(SentText' \o Text(txMsg')), TypedText(HasBeenRead'))
    BY DEF KeptInOrder
  <1>5. CASE ReadChar
    <2> DEFINE t == TextOf(Head(port), OnCommand(HasBeenRead))
    <2>1. /\ SentText' = SentText /\ Text(txMsg') = Text(txMsg) \o t /\ Head(port) \in Char
          /\ TypedText(HasBeenRead') = TypedText(HasBeenRead) \o t
      BY <1>1, <1>5, TextRead
    <2>2. t \in Seq(Byte)
      BY <2>1, TextOfType DEF Byte
    <2>3. /\ LeftOf(WithoutTest(SentText), TypedText(HasBeenRead) \o t)
          /\ LeftOf(WithoutTest((SentText \o Text(txMsg)) \o t), TypedText(HasBeenRead) \o t)
      BY <1>1, <1>2, <1>3, <2>1, LeftOfText
    <2> HIDE DEF t
    <2>4. SentText \o (Text(txMsg) \o t) = (SentText \o Text(txMsg)) \o t
      BY <1>1, <2>2
    <2> QED
      BY <2>1, <2>3, <2>4
  <1>6. CASE FinishLoop
    <2>1. (SentText \o Text(txMsg)) \o <<>> = SentText \o Text(txMsg)
      BY <1>1
    <2> QED
      BY <1>1, <1>2, <1>6, <2>1, TextFinish
  <1>7. CASE SentText' = SentText /\ txMsg' = txMsg /\ HasBeenRead' = HasBeenRead
    BY <1>2, <1>7
  <1>8. CASE StartLoop
    <2>1. SentText' = SentText /\ HasBeenRead' = HasBeenRead
      BY <1>8 DEF StartLoop, SentText, HasBeenRead
    <2>2. CASE txMsg' = <<DataReq, TestMessage>>
      <3>1. Text(txMsg') = <<TestMessage>>
        BY <2>2 DEF Text
      <3>2. SentText \o <<TestMessage>> = Append(SentText, TestMessage)
        BY <1>1
      <3>3. TestMessage \in Byte
        BY DEF TestMessage, Byte
      <3>4. WithoutTest(Append(SentText, TestMessage)) = WithoutTest(SentText) \o <<>>
        BY <1>1, <3>3, WithoutTestAppend
      <3>5. WithoutTest(SentText) \o <<>> = WithoutTest(SentText)
        <4>1. WithoutTest(SentText) \in Seq(Byte)
          BY <1>1, PickedType DEF WithoutTest
        <4> QED
          BY <4>1
      <3> QED
        BY <1>2, <2>1, <3>1, <3>2, <3>4, <3>5
    <2>3. CASE txMsg' = txMsg
      BY <1>7, <2>1, <2>3
    <2> QED
      BY <1>8, <2>2, <2>3 DEF StartLoop
  <1>9. ASSUME NEW c \in Char, Type(c)
        PROVE  SentText' = SentText /\ txMsg' = txMsg /\ HasBeenRead' = HasBeenRead
    BY <1>1, <1>9, TextUntouched
  <1>10. CASE UNCHANGED vars
    BY <1>7, <1>10 DEF vars, SentText, HasBeenRead
  <1> QED
    BY <1>5, <1>6, <1>7, <1>8, <1>9, <1>10 DEF Next

\* Though the base's test messages overwrite text that waits in the buffer, what is
\* sent of the text is in the order of typing, and nothing of it is sent twice
\* (setTxMessage, buildStringFromSerial, serviceTx).
THEOREM TextStaysInOrder == Spec => []TextNeverReordered
  <1>1. Init => TextInv
    BY TypeInit, ReadInit DEF TextInv
  <1>2. KeptInOrder => TextNeverReordered
    BY DEF KeptInOrder, LeftOf, WithoutTest, TextNeverReordered
  <1> QED
    BY <1>1, <1>2, TextInvStep, KeptInOrderInit, KeptInOrderStep, PTL DEF Spec

-----------------------------------------------------------------------------
(* Test messages *)

TestsIn(messages) == {k \in DOMAIN messages : BeginsWithTest(messages[k])}

\* A test message is in the buffer exactly while its round lasts.
TestInRound ==
  /\ at = "idle" => ~timeUp
  /\ timeUp => BeginsWithTest(txMsg)
  /\ \A i \in DOMAIN txMsg : txMsg[i] = TestMessage => i = 2 /\ timeUp

TestsCounted == Cardinality(TestsIn(sent)) + (IF timeUp THEN 1 ELSE 0) = periods

TestsInPlace == \A k \in DOMAIN sent : \A i \in DOMAIN sent[k] : sent[k][i] = TestMessage => i = 2

LEMMA TestsInFinite ==
  ASSUME NEW S, NEW messages \in Seq(S)
  PROVE  IsFiniteSet(TestsIn(messages)) /\ Cardinality(TestsIn(messages)) \in Nat
  <1>1. DOMAIN messages = 1 .. Len(messages) /\ Len(messages) \in Nat
    OBVIOUS
  <1>2. IsFiniteSet(1 .. Len(messages))
    BY <1>1, FS_Interval
  <1>3. IsFiniteSet(TestsIn(messages))
    BY <1>1, <1>2, FS_Subset DEF TestsIn
  <1> QED
    BY <1>3, FS_CardinalityType

LEMMA TestsInAppend ==
  ASSUME NEW messages \in Seq(Seq(0 .. 256)), NEW m \in Seq(0 .. 256)
  PROVE  Cardinality(TestsIn(Append(messages, m))) =
           Cardinality(TestsIn(messages)) + (IF BeginsWithTest(m) THEN 1 ELSE 0)
  <1>0. PICK n, more : n = Len(messages) /\ more = Append(messages, m)
    OBVIOUS
  <1>1. /\ n \in Nat /\ DOMAIN messages = 1 .. n /\ DOMAIN more = 1 .. n + 1
        /\ more[n + 1] = m /\ \A k \in 1 .. n : more[k] = messages[k]
    BY <1>0
  <1>2. IsFiniteSet(TestsIn(messages)) /\ Cardinality(TestsIn(messages)) \in Nat /\ n + 1 \notin TestsIn(messages)
    <2>1. n + 1 \notin TestsIn(messages)
      BY <1>1 DEF TestsIn
    <2> QED
      BY <2>1, TestsInFinite
  <1>3. CASE BeginsWithTest(m)
    <2>1. TestsIn(more) = TestsIn(messages) \cup {n + 1}
      BY <1>1, <1>3 DEF TestsIn
    <2> QED
      BY <1>0, <1>2, <1>3, <2>1, FS_AddElement
  <1>4. CASE ~BeginsWithTest(m)
    <2>1. TestsIn(more) = TestsIn(messages)
      BY <1>1, <1>4 DEF TestsIn
    <2> QED
      BY <1>0, <1>2, <1>4, <2>1
  <1> QED
    BY <1>3, <1>4

LEMMA TestsInPlaceAppend ==
  ASSUME NEW messages \in Seq(Seq(0 .. 256)), NEW m \in Seq(0 .. 256),
         \A k \in DOMAIN messages : \A i \in DOMAIN messages[k] : messages[k][i] = TestMessage => i = 2,
         \A i \in DOMAIN m : m[i] = TestMessage => i = 2
  PROVE  \A k \in DOMAIN Append(messages, m) : \A i \in DOMAIN Append(messages, m)[k] :
           Append(messages, m)[k][i] = TestMessage => i = 2
  <1>0. PICK n, more : n = Len(messages) /\ more = Append(messages, m)
    OBVIOUS
  <1>1. /\ n \in Nat /\ DOMAIN messages = 1 .. n /\ DOMAIN more = 1 .. n + 1
        /\ more[n + 1] = m /\ \A k \in 1 .. n : more[k] = messages[k]
    BY <1>0
  <1>2. \A k \in 1 .. n + 1 : \A i \in DOMAIN more[k] : more[k][i] = TestMessage => i = 2
    <2>1. \A k \in 1 .. n + 1 : k \in 1 .. n \/ k = n + 1
      BY <1>1
    <2> QED
      BY <1>1, <2>1
  <1> QED
    BY <1>0, <1>1, <1>2

LEMMA ConcatParts ==
  ASSUME NEW S, NEW T, NEW a \in Seq(S), NEW b \in Seq(T)
  PROVE  /\ Len(a) \in Nat /\ Len(b) \in Nat /\ DOMAIN (a \o b) = 1 .. Len(a) + Len(b)
         /\ DOMAIN a = 1 .. Len(a) /\ Len(a \o b) = Len(a) + Len(b)
         /\ \A i \in 1 .. Len(a) : (a \o b)[i] = a[i]
         /\ \A i \in 1 .. Len(b) : (a \o b)[Len(a) + i] = b[i]
  <1>1. PICK m, n, all : m = Len(a) /\ n = Len(b) /\ all = a \o b
    OBVIOUS
  <1> m \in Nat /\ n \in Nat
    BY <1>1
  <1>2. DOMAIN a = 1 .. m /\ DOMAIN all = 1 .. m + n /\ Len(all) = m + n
    BY <1>1
  <1>3. \A i \in 1 .. m + n : all[i] = IF i <= m THEN a[i] ELSE b[i - m]
    BY <1>1
  <1>4. \A i \in 1 .. m : i \in 1 .. m + n /\ i <= m
    OBVIOUS
  <1>5. \A i \in 1 .. n : m + i \in 1 .. m + n /\ ~(m + i <= m) /\ (m + i) - m = i
    OBVIOUS
  <1>6. \A i \in 1 .. m : all[i] = a[i]
    BY <1>3, <1>4
  <1>7. \A i \in 1 .. n : all[m + i] = b[i]
    BY <1>3, <1>5
  <1> QED
    BY <1>1, <1>2, <1>6, <1>7

\* A character of text does not disturb the test message at the head of the buffer.
TestPlaced(m, up) ==
  (up => BeginsWithTest(m)) /\ \A i \in DOMAIN m : m[i] = TestMessage => i = 2 /\ up

LEMMA TestInRoundText ==
  ASSUME NEW m \in Seq(0 .. 256), NEW t \in Seq(0 .. 127), NEW head \in Seq(0 .. 256),
         head = IF m = <<>> THEN <<DataReq>> ELSE m, NEW up \in BOOLEAN,
         TestPlaced(m, up)
  PROVE  TestPlaced(head \o t, up)
  <1> USE DEF TestPlaced
  <1>1. PICK h, n, all : h = Len(head) /\ n = Len(t) /\ all = head \o t
    OBVIOUS
  <1>2. /\ h \in Nat /\ n \in Nat /\ DOMAIN all = 1 .. h + n /\ DOMAIN head = 1 .. h
        /\ Len(all) = h + n
        /\ \A i \in 1 .. h : all[i] = head[i]
        /\ \A i \in 1 .. n : all[h + i] = t[i]
    BY <1>1, ConcatParts
  <1>3. \A i \in 1 .. n : t[i] # TestMessage
    <2>1. \A i \in 1 .. n : t[i] \in 0 .. 127
      BY <1>1
    <2>2. \A e \in 0 .. 127 : e # TestMessage
      BY DEF TestMessage
    <2> QED
      BY <2>1, <2>2
  <1>4. \A i \in 1 .. h : head[i] = TestMessage => i = 2 /\ up
    <2>1. CASE m = <<>>
      <3>1. head = <<1>> /\ h = 1
        BY <1>1, <2>1 DEF DataReq
      <3> QED
        BY <3>1 DEF TestMessage
    <2>2. CASE m # <<>>
      BY <1>2, <2>2
    <2> QED
      BY <2>1, <2>2
  <1>5. ASSUME NEW i \in 1 .. h + n
        PROVE  all[i] = TestMessage => i = 2 /\ up
    <2>1. CASE i \in 1 .. h
      BY <1>2, <1>4, <2>1
    <2>2. CASE i \notin 1 .. h
      <3>1. i - h \in 1 .. n /\ h + (i - h) = i
        BY <1>2, <2>2
      <3> QED
        BY <1>2, <1>3, <3>1
    <2> QED
      BY <2>1, <2>2
  <1>6. ASSUME up
        PROVE  BeginsWithTest(all)
    <2>1. m # <<>> /\ Len(m) > 1 /\ m[2] = TestMessage
      BY <1>6 DEF BeginsWithTest
    <2>2. head = m /\ h > 1
      BY <1>1, <2>1
    <2>3. 2 \in 1 .. h /\ h + n > 1
      BY <1>2, <2>2
    <2> QED
      BY <1>2, <2>1, <2>2, <2>3 DEF BeginsWithTest
  <1> QED
    BY <1>1, <1>2, <1>5, <1>6

TestInv == TypeOK /\ TestInRound /\ TestsCounted /\ TestsInPlace

LEMMA TestInit == Init => TestInv
  <1> SUFFICES ASSUME Init PROVE TestInv
    OBVIOUS
  <1>1. DOMAIN <<>> = {}
    OBVIOUS
  <1>2. TestsIn(<<>>) = {} /\ Cardinality({}) = 0
    BY <1>1, FS_EmptySet DEF TestsIn
  <1> QED
    BY <1>1, <1>2, TypeInit DEF Init, TestInv, TestInRound, TestsCounted, TestsInPlace

LEMMA TestInRoundRead ==
  ASSUME TestInv, ReadChar
  PROVE  TestInRound'
  <1>1. /\ txMsg \in Seq(0 .. 256) /\ timeUp \in BOOLEAN
        /\ timeUp' = timeUp /\ at' = at /\ Head(port) \in Char
    BY DEF TestInv, TypeOK, ReadChar
  <1>2. CASE BuildText(Head(port))
    <2>1. Added(Head(port)) \in Seq(0 .. 127)
      BY <1>1, AddedType
    <2>2. PICK head \in Seq(0 .. 256) :
            /\ head = IF txMsg = <<>> THEN <<DataReq>> ELSE txMsg
            /\ txMsg' = head \o Added(Head(port))
      <3>1. <<DataReq>> \in Seq(0 .. 256)
        BY DEF DataReq
      <3> QED
        BY <1>1, <1>2, <3>1 DEF BuildText
    <2>3. TestPlaced(txMsg', timeUp)
      <3>1. TestPlaced(txMsg, timeUp)
        BY DEF TestInv, TestInRound, TestPlaced
      <3>2. PICK t \in Seq(0 .. 127) : t = Added(Head(port))
        BY <2>1
      <3>3. txMsg' = head \o t
        BY <2>2, <3>2
      <3>4. txMsg \in Seq(0 .. 256) /\ timeUp \in BOOLEAN
        BY <1>1
      <3>5. head = IF txMsg = <<>> THEN <<DataReq>> ELSE txMsg
        BY <2>2
      <3>6. TestPlaced(head \o t, timeUp)
        BY <3>1, <3>4, <3>5, TestInRoundText
      <3> QED
        BY <3>3, <3>6, Zenon
    <2> QED
      BY <1>1, <2>3 DEF TestInv, TestInRound, TestPlaced
  <1>3. CASE CollectCommand(Head(port)) \/ EndCommand(Head(port))
    <2>1. txMsg' = txMsg
      BY <1>3 DEF CollectCommand, EndCommand
    <2> QED
      BY <1>1, <2>1 DEF TestInv, TestInRound, BeginsWithTest
  <1> QED
    BY <1>2, <1>3 DEF ReadChar

LEMMA TestStartLoop ==
  ASSUME TestInv, StartLoop
  PROVE  TestInRound' /\ TestsCounted' /\ TestsInPlace'
  <1>1. sent' = sent /\ at' = "reading" /\ ~timeUp
    BY DEF StartLoop, TestInv, TestInRound
  <1>2. CASE txMsg' = txMsg /\ timeUp' = timeUp /\ periods' = periods
    BY <1>1, <1>2 DEF TestInv, TestInRound, TestsCounted, TestsInPlace, BeginsWithTest, TestsIn
  <1>3. CASE txMsg' = <<DataReq, TestMessage>> /\ timeUp' = TRUE /\ periods' = periods + 1
    <2>1. Cardinality(TestsIn(sent)) \in Nat
      BY TestsInFinite DEF TestInv, TypeOK
    <2>2. Cardinality(TestsIn(sent)) = periods
      BY <1>1, <2>1 DEF TestInv, TestsCounted
    <2>3. TestsCounted'
      BY <1>1, <1>3, <2>1, <2>2 DEF TestsCounted, TestsIn, BeginsWithTest
    <2>4. TestInRound'
      BY <1>1, <1>3 DEF TestInRound, BeginsWithTest, DataReq, TestMessage
    <2> QED
      BY <1>1, <2>3, <2>4 DEF TestInv, TestsInPlace
  <1> QED
    BY <1>2, <1>3 DEF StartLoop

LEMMA TestFinishLoop ==
  ASSUME TestInv, FinishLoop
  PROVE  TestInRound' /\ TestsCounted' /\ TestsInPlace'
  <1>1. /\ at' = "idle" /\ timeUp' = FALSE /\ periods' = periods
        /\ sent \in Seq(Seq(0 .. 256)) /\ txMsg \in Seq(0 .. 256) /\ timeUp \in BOOLEAN
    BY SentType DEF FinishLoop, TestInv, TypeOK
  <1>2. Cardinality(TestsIn(sent)) \in Nat
    BY <1>1, TestsInFinite
  <1>3. BeginsWithTest(txMsg) <=> timeUp
    <2>1. BeginsWithTest(txMsg) => 2 \in DOMAIN txMsg /\ txMsg[2] = TestMessage
      BY <1>1 DEF BeginsWithTest
    <2> QED
      BY <2>1 DEF TestInv, TestInRound
  <1>4. txMsg = <<>> => ~timeUp
    BY <1>3 DEF BeginsWithTest
  <1>5. CASE txMsg' = <<>> /\ sent' = Append(sent, txMsg)
    <2>1. Cardinality(TestsIn(sent')) = periods
      BY <1>1, <1>2, <1>3, <1>5, TestsInAppend DEF TestInv, TestsCounted
    <2>2. TestsCounted'
      BY <1>1, <2>1 DEF TestsCounted, TestsIn, BeginsWithTest, TestInv, TypeOK
    <2>3. TestsInPlace'
      BY <1>1, <1>5, TestsInPlaceAppend DEF TestInv, TestInRound, TestsInPlace
    <2>4. TestInRound'
      BY <1>1, <1>5 DEF TestInRound
    <2> QED
      BY <2>2, <2>3, <2>4
  <1>6. CASE ~timeUp /\ sent' = sent /\ (txMsg' = txMsg \/ txMsg' = <<>>)
    BY <1>1, <1>6 DEF TestInv, TestInRound, TestsCounted, TestsInPlace, TestsIn, BeginsWithTest
  <1> QED
    BY <1>4, <1>5, <1>6 DEF FinishLoop

LEMMA TestStep == TestInv /\ [Next]_vars => TestInv'
  <1> SUFFICES ASSUME TestInv, [Next]_vars PROVE TestInv'
    OBVIOUS
  <1>1. TypeOK'
    BY TypeStep DEF TestInv
  <1>2. CASE ReadChar
    <2>1. sent' = sent /\ timeUp' = timeUp /\ periods' = periods
      BY <1>2 DEF ReadChar
    <2> QED
      BY <1>1, <1>2, <2>1, TestInRoundRead DEF TestInv, TestsCounted, TestsInPlace, TestsIn, BeginsWithTest
  <1>3. CASE UNCHANGED <<at, timeUp, txMsg, sent, periods>>
    BY <1>1, <1>3 DEF TestInv, TestInRound, TestsCounted, TestsInPlace, TestsIn, BeginsWithTest
  <1>4. CASE StartLoop \/ FinishLoop
    BY <1>1, <1>4, TestStartLoop, TestFinishLoop DEF TestInv
  <1>5. ASSUME NEW c \in Char, Type(c)
        PROVE  TestInv'
    BY <1>3, <1>5 DEF Type
  <1>6. CASE UNCHANGED vars
    BY <1>3, <1>6 DEF vars
  <1> QED
    BY <1>2, <1>4, <1>5, <1>6 DEF Next

\* Every five seconds the base sends one test message, whole and first in its message,
\* whatever is typed meanwhile (LoRaRangeTest_Base.ino: setTxMessage in loop()).
THEOREM TestsAreSent == Spec => []TestMessagesSent
  <1>1. TestInv => TestMessagesSent
    BY DEF TestInv, TestsCounted, TestsInPlace, TestsIn, TestMessagesSent
  <1> QED
    BY <1>1, TestInit, TestStep, PTL DEF Spec

-----------------------------------------------------------------------------
(* Commands, and the settings they make *)

Body(s, i) == Joined([k \in 1 .. i - 1 |-> IF OfCommand(s, k, i) THEN <<s[k]>> ELSE <<>>])

\* What fits into serialCmd.
Cut(body) == SubSeq(body, 1, IF Len(body) < MaxLen THEN Len(body) ELSE MaxLen)

LEMMA CommandAtIsCut ==
  ASSUME NEW s, NEW i
  PROVE  CommandAt(s, i) = Cut(Body(s, i))
  BY DEF CommandAt, Cut, Body

LEMMA BodyPieces ==
  ASSUME NEW s \in Seq(Char), NEW i \in 1 .. Len(s) + 1
  PROVE  [k \in 1 .. i - 1 |-> IF OfCommand(s, k, i) THEN <<s[k]>> ELSE <<>>]
           \in [1 .. i - 1 -> Seq(Char)]
  <1>1. \A k \in 1 .. i - 1 : s[k] \in Char
    OBVIOUS
  <1>2. \A c \in Char : <<c>> \in Seq(Char)
    OBVIOUS
  <1>3. <<>> \in Seq(Char)
    OBVIOUS
  <1> QED
    BY <1>1, <1>2, <1>3

LEMMA BodyType ==
  ASSUME NEW s \in Seq(Char), NEW i \in 1 .. Len(s) + 1
  PROVE  Body(s, i) \in Seq(Char)
  <1>1. PICK m \in Nat : m = i - 1
    OBVIOUS
  <1>2. PICK f \in [1 .. m -> Seq(Char)] :
          f = [k \in 1 .. i - 1 |-> IF OfCommand(s, k, i) THEN <<s[k]>> ELSE <<>>]
    BY <1>1, BodyPieces
  <1>3. f \in Seq(Seq(Char)) /\ Body(s, i) = Joined(f)
    BY <1>2 DEF Body
  <1> QED
    BY <1>3, JoinedType

LEMMA CutType ==
  ASSUME NEW body \in Seq(Char)
  PROVE  Cut(body) \in Seq(Char)
  <1>1. Len(body) \in Nat /\ MaxLen \in Nat
    BY SerialAssumption
  <1> QED
    BY <1>1 DEF Cut

LEMMA CutEmpty == Cut(<<>>) = <<>>
  BY SerialAssumption DEF Cut

LEMMA CutAppend ==
  ASSUME NEW body \in Seq(Char), NEW c \in Char
  PROVE  Cut(body \o <<c>>) = IF Len(Cut(body)) < MaxLen THEN Append(Cut(body), c) ELSE Cut(body)
  <1>1. PICK n \in Nat, m \in Nat : n = Len(body) /\ m = MaxLen
    BY SerialAssumption
  <1>2. PICK more : more = body \o <<c>> /\ more \in Seq(Char)
    <2>1. <<c>> \in Seq(Char)
      OBVIOUS
    <2>2. body \o <<c>> \in Seq(Char)
      BY <2>1
    <2> QED
      BY <2>2
  <1>3. Len(more) = n + 1 /\ more[n + 1] = c /\ \A i \in 1 .. n : more[i] = body[i]
    BY <1>1, <1>2
  <1>4. CASE n < m
    <2>1. Cut(body) = SubSeq(body, 1, n) /\ Cut(more) = SubSeq(more, 1, n + 1)
      BY <1>1, <1>3, <1>4 DEF Cut
    <2>2. SubSeq(body, 1, n) = body /\ SubSeq(more, 1, n + 1) = more
      BY <1>1, <1>2, <1>3
    <2>3. more = Append(body, c)
      BY <1>2
    <2> QED
      BY <1>1, <1>2, <1>4, <2>1, <2>2, <2>3
  <1>5. CASE ~(n < m)
    <2>1. Cut(body) = SubSeq(body, 1, m) /\ Cut(more) = SubSeq(more, 1, m)
      BY <1>1, <1>3, <1>5 DEF Cut
    <2>2. SubSeq(more, 1, m) = SubSeq(body, 1, m) /\ Len(SubSeq(body, 1, m)) = m
      BY <1>1, <1>2, <1>3, <1>5
    <2>3. Cut(more) = Cut(body) /\ Len(Cut(body)) = m /\ ~(m < m)
      BY <2>1, <2>2
    <2> QED
      BY <1>1, <1>2, <2>3
  <1> QED
    BY <1>4, <1>5

\* A character more does not change the command before it.
LEMMA CommandBefore ==
  ASSUME NEW s \in Seq(Char), NEW c \in Char, NEW i \in 1 .. Len(s) + 1
  PROVE  CommandAt(Append(s, c), i) = CommandAt(s, i)
  <1>0. PICK t : t = Append(s, c)
    OBVIOUS
  <1>1. \A k \in 1 .. Len(s) : t[k] = s[k]
    BY <1>0
  <1>2. ASSUME NEW k \in 1 .. i - 1
        PROVE  t[k] = s[k] /\ (OfCommand(t, k, i) <=> OfCommand(s, k, i))
    <2>1. k \in 1 .. Len(s) /\ \A l \in k .. i - 1 : l \in 1 .. Len(s)
      OBVIOUS
    <2>2. InCommand(t, k) <=> InCommand(s, k)
      BY <1>0, <2>1, InCommandBefore
    <2> QED
      BY <1>1, <2>1, <2>2 DEF OfCommand
  <1>3. Body(t, i) = Body(s, i)
    BY <1>2 DEF Body
  <1> QED
    BY <1>0, <1>3, CommandAtIsCut

LEMMA OfCommandAppend ==
  ASSUME NEW s \in Seq(Char), NEW c \in Char, NEW k \in 1 .. Len(s)
  PROVE  OfCommand(Append(s, c), k, Len(s) + 2) <=> c # Newline /\ OfCommand(s, k, Len(s) + 1)
  <1>0. PICK n, t : n = Len(s) /\ t = Append(s, c)
    OBVIOUS
  <1>1. n \in Nat /\ k \in 1 .. n /\ t[n + 1] = c /\ \A l \in 1 .. n : t[l] = s[l]
    BY <1>0
  <1>2. InCommand(t, k) <=> InCommand(s, k)
    BY <1>0, InCommandBefore
  <1>3. (\A l \in k .. n + 1 : t[l] # Newline) <=> c # Newline /\ \A l \in k .. n : s[l] # Newline
    <2>1. \A l : l \in k .. n + 1 <=> l \in k .. n \/ l = n + 1
      BY <1>1
    <2>2. \A l \in k .. n : l \in 1 .. n
      BY <1>1
    <2> QED
      BY <1>1, <2>1, <2>2
  <1>4. (n + 2) - 1 = n + 1 /\ (n + 1) - 1 = n
    BY <1>1
  <1> QED
    BY <1>0, <1>1, <1>2, <1>3, <1>4 DEF OfCommand

\* The command on a line that goes on, one character later.
LEMMA BodyNext ==
  ASSUME NEW s \in Seq(Char), NEW c \in Char
  PROVE  Body(Append(s, c), Len(s) + 2) =
           IF c = Newline THEN <<>>
           ELSE Body(s, Len(s) + 1) \o
                  (IF c \notin {Return, Bang} /\ OnCommand(s) THEN <<c>> ELSE <<>>)
  <1>0. PICK n, t : n = Len(s) /\ t = Append(s, c)
    OBVIOUS
  <1>1. /\ n \in Nat /\ t \in Seq(Char) /\ Len(t) = n + 1
        /\ t[n + 1] = c /\ \A k \in 1 .. n : t[k] = s[k]
        /\ n + 1 \in 1 .. n + 1 /\ (n + 2) - 1 = n + 1 /\ (n + 1) - 1 = n
        /\ n + 2 \in 1 .. Len(t) + 1 /\ n + 1 \in 1 .. Len(s) + 1
    BY <1>0
  <1>2. PICK f \in [1 .. n -> Seq(Char)] :
          f = [k \in 1 .. n |-> IF OfCommand(s, k, n + 1) THEN <<s[k]>> ELSE <<>>]
    <2>1. [k \in 1 .. (n + 1) - 1 |-> IF OfCommand(s, k, n + 1) THEN <<s[k]>> ELSE <<>>]
            \in [1 .. (n + 1) - 1 -> Seq(Char)]
      BY <1>1, BodyPieces
    <2> QED
      BY <1>1, <2>1
  <1>3. PICK g \in [1 .. n + 1 -> Seq(Char)] :
          g = [k \in 1 .. n + 1 |-> IF OfCommand(t, k, n + 2) THEN <<t[k]>> ELSE <<>>]
    <2>1. [k \in 1 .. (n + 2) - 1 |-> IF OfCommand(t, k, n + 2) THEN <<t[k]>> ELSE <<>>]
            \in [1 .. (n + 2) - 1 -> Seq(Char)]
      BY <1>1, BodyPieces
    <2> QED
      BY <1>1, <2>1
  <1>4. Body(s, n + 1) = Joined(f) /\ Body(t, n + 2) = Joined(g)
    BY <1>1, <1>2, <1>3 DEF Body
  <1>5. \A k \in 1 .. n : OfCommand(t, k, n + 2) <=> c # Newline /\ OfCommand(s, k, n + 1)
    BY <1>0, OfCommandAppend
  <1>6. OfCommand(t, n + 1, n + 2) <=> c \notin {Newline, Return, Bang} /\ OnCommand(s)
    <2>1. InCommand(t, n + 1) <=> c = Bang \/ OnCommand(s)
      BY <1>0, InCommandLast
    <2>2. \A l : l \in n + 1 .. n + 1 <=> l = n + 1
      BY <1>1
    <2>3. OfCommand(t, n + 1, n + 2) <=> InCommand(t, n + 1) /\ c \notin {Return, Bang} /\ c # Newline
      BY <1>1, <2>2 DEF OfCommand
    <2> QED
      BY <2>1, <2>3
  <1>7. CASE c = Newline
    <2>1. \A k \in 1 .. n + 1 : k \in 1 .. n \/ k = n + 1
      BY <1>1
    <2>2. \A k \in 1 .. n + 1 : ~OfCommand(t, k, n + 2)
      BY <1>5, <1>6, <1>7, <2>1
    <2>3. n + 1 \in Nat /\ \A k \in 1 .. n + 1 : g[k] = <<>>
      BY <1>1, <1>3, <2>2
    <2>4. g \in [1 .. n + 1 -> {<<>>}]
      BY <2>3
    <2>5. Joined(g) = <<>>
      BY <2>3, <2>4, JoinedEmpty
    <2> QED
      BY <1>0, <1>4, <1>7, <2>5
  <1>8. CASE c # Newline
    <2>1. ASSUME NEW k \in 1 .. n
          PROVE  g[k] = f[k]
      <3>1. k \in 1 .. n + 1 /\ t[k] = s[k]
        BY <1>1
      <3>2. OfCommand(t, k, n + 2) <=> OfCommand(s, k, n + 1)
        BY <1>5, <1>8
      <3> QED
        BY <1>2, <1>3, <3>1, <3>2
    <2>2. g[n + 1] = IF c \notin {Return, Bang} /\ OnCommand(s) THEN <<c>> ELSE <<>>
      BY <1>1, <1>3, <1>6, <1>8
    <2>3. n \in Nat
      BY <1>1
    <2>4. Joined(g) = Joined(f) \o g[n + 1]
      BY <2>1, <2>3, JoinedNext
    <2> QED
      BY <1>0, <1>4, <1>8, <2>2, <2>4
  <1> QED
    BY <1>7, <1>8

\* The command on the line that is being read.
CommandNow(s) == CommandAt(s, Len(s) + 1)

LEMMA CommandNowType ==
  ASSUME NEW s \in Seq(Char)
  PROVE  CommandNow(s) \in Seq(Char)
  <1>1. Len(s) + 1 \in 1 .. Len(s) + 1
    OBVIOUS
  <1> QED
    BY <1>1, BodyType, CutType, CommandAtIsCut DEF CommandNow

LEMMA CommandNowNext ==
  ASSUME NEW s \in Seq(Char), NEW c \in Char
  PROVE  CommandNow(Append(s, c)) =
           IF c = Newline THEN <<>>
           ELSE IF c \notin {Return, Bang} /\ OnCommand(s) /\ Len(CommandNow(s)) < MaxLen
                  THEN Append(CommandNow(s), c)
           ELSE CommandNow(s)
  <1>1. PICK body \in Seq(Char) : body = Body(s, Len(s) + 1)
    <2>1. Len(s) + 1 \in 1 .. Len(s) + 1
      OBVIOUS
    <2> QED
      BY <2>1, BodyType
  <1>2. CommandNow(s) = Cut(body)
    BY <1>1, CommandAtIsCut DEF CommandNow
  <1>3. CommandNow(Append(s, c)) = Cut(Body(Append(s, c), Len(s) + 2))
    <2>1. Len(Append(s, c)) + 1 = Len(s) + 2
      OBVIOUS
    <2> QED
      BY <2>1, CommandAtIsCut DEF CommandNow
  <1>4. CASE c = Newline
    BY <1>3, <1>4, BodyNext, CutEmpty
  <1>5. CASE c # Newline /\ c \notin {Return, Bang} /\ OnCommand(s)
    <2>1. CommandNow(Append(s, c)) = Cut(body \o <<c>>)
      BY <1>1, <1>3, <1>5, BodyNext
    <2> QED
      BY <1>2, <1>5, <2>1, CutAppend
  <1>6. CASE c # Newline /\ ~(c \notin {Return, Bang} /\ OnCommand(s))
    <2>1. CommandNow(Append(s, c)) = Cut(body \o <<>>)
      BY <1>1, <1>3, <1>6, BodyNext
    <2>2. body \o <<>> = body
      OBVIOUS
    <2> QED
      BY <1>2, <1>6, <2>1, <2>2
  <1> QED
    BY <1>4, <1>5, <1>6

\* No command is on a line without a '!'.
LEMMA CommandNowNone ==
  ASSUME NEW s \in Seq(Char), ~OnCommand(s)
  PROVE  CommandNow(s) = <<>>
  <1>1. PICK n \in Nat : n = Len(s)
    OBVIOUS
  <1>2. ASSUME NEW k \in 1 .. n, OfCommand(s, k, n + 1)
        PROVE  FALSE
    <2>1. PICK j \in 1 .. k : s[j] = Bang /\ \A l \in j .. k - 1 : s[l] # Newline
      BY <1>2 DEF OfCommand, InCommand
    <2>2. \A l \in k .. n : s[l] # Newline
      BY <1>2 DEF OfCommand
    <2>3. j \in 1 .. n /\ \A l \in j .. n : l \in j .. k - 1 \/ l \in k .. n
      OBVIOUS
    <2>4. \A l \in j .. n : s[l] # Newline
      BY <2>1, <2>2, <2>3
    <2> QED
      BY <1>1, <2>1, <2>3, <2>4 DEF OnCommand
  <1>3. (n + 1) - 1 = n
    OBVIOUS
  <1> DEFINE f == [k \in 1 .. n |-> IF OfCommand(s, k, n + 1) THEN <<s[k]>> ELSE <<>>]
  <1>4. f \in [1 .. n -> {<<>>}]
    BY <1>2
  <1>5. Body(s, n + 1) = Joined(f)
    BY <1>3 DEF Body
  <1> HIDE DEF f
  <1>6. Body(s, n + 1) = <<>>
    BY <1>4, <1>5, JoinedEmpty
  <1> QED
    BY <1>1, <1>6, CutEmpty, CommandAtIsCut DEF CommandNow


LEMMA SetByType ==
  ASSUME NEW s \in Seq(Char), NEW p \in Parameter, NEW i \in 1 .. Len(s)
  PROVE  SetBy(s, p, i) \in Seq(0 .. 20)
  <1>1. i \in 1 .. Len(s) + 1
    OBVIOUS
  <1>2. CommandAt(s, i) \in Seq(Char)
    BY <1>1, BodyType, CutType, CommandAtIsCut
  <1>3. SetsParameter(CommandAt(s, i)) => Value(CommandAt(s, i)) \in 0 .. 20
    BY <1>2, ValueInRange
  <1>4. \A v \in 0 .. 20 : <<v>> \in Seq(0 .. 20)
    OBVIOUS
  <1>5. <<>> \in Seq(0 .. 20)
    OBVIOUS
  <1> QED
    BY <1>3, <1>4, <1>5 DEF SetBy

LEMMA SettingsPieces ==
  ASSUME NEW s \in Seq(Char), NEW p \in Parameter
  PROVE  [i \in DOMAIN s |-> SetBy(s, p, i)] \in [1 .. Len(s) -> Seq(0 .. 20)]
  <1>1. DOMAIN s = 1 .. Len(s)
    OBVIOUS
  <1>2. \A i \in 1 .. Len(s) : SetBy(s, p, i) \in Seq(0 .. 20)
    BY SetByType
  <1> QED
    BY <1>1, <1>2

LEMMA SettingsType ==
  ASSUME NEW s \in Seq(Char), NEW p \in Parameter
  PROVE  SettingsOf(s, p) \in Seq(0 .. 20) /\ Len(SettingsOf(s, p)) >= 2
  <1>1. PICK f \in [1 .. Len(s) -> Seq(0 .. 20)] : f = [i \in DOMAIN s |-> SetBy(s, p, i)]
    BY SettingsPieces
  <1>2. f \in Seq(Seq(0 .. 20))
    BY <1>1
  <1>3. PICK later \in Seq(0 .. 20) : later = Joined(f)
    BY <1>2, JoinedType
  <1>4. SettingsOf(s, p) = <<Default[p], Default[p]>> \o later
    BY <1>1, <1>3 DEF SettingsOf
  <1>5. PICK d \in 0 .. 20 : d = Default[p]
    BY DefaultType
  <1>6. <<d, d>> \in Seq(0 .. 20) /\ Len(<<d, d>>) = 2
    OBVIOUS
  <1>7. <<d, d>> \o later \in Seq(0 .. 20) /\ Len(<<d, d>> \o later) = 2 + Len(later) /\ Len(later) \in Nat
    BY <1>6
  <1> QED
    BY <1>4, <1>5, <1>7

\* The newline that ends a command sets what the command names.
SetNow(s, c, p) ==
  IF c = Newline /\ OnCommand(s) /\ SetsParameter(CommandNow(s)) /\ CommandNow(s)[1] = p
    THEN <<Value(CommandNow(s))>> ELSE <<>>

LEMMA SettingsAppend ==
  ASSUME NEW s \in Seq(Char), NEW c \in Char, NEW p \in Parameter
  PROVE  SettingsOf(Append(s, c), p) = SettingsOf(s, p) \o SetNow(s, c, p)
  <1>0. PICK n, t : n = Len(s) /\ t = Append(s, c)
    OBVIOUS
  <1>1. /\ n \in Nat /\ DOMAIN s = 1 .. n /\ t \in Seq(Char)
        /\ Len(t) = n + 1 /\ DOMAIN t = 1 .. n + 1
        /\ t[n + 1] = c /\ \A i \in 1 .. n : t[i] = s[i]
    BY <1>0
  <1>2. PICK f \in [1 .. n -> Seq(0 .. 20)] : f = [i \in DOMAIN s |-> SetBy(s, p, i)]
    BY <1>0, SettingsPieces
  <1>3. PICK g \in [1 .. n + 1 -> Seq(0 .. 20)] : g = [i \in DOMAIN t |-> SetBy(t, p, i)]
    BY <1>1, SettingsPieces
  <1>4. ASSUME NEW i \in 1 .. n
        PROVE  g[i] = f[i]
    <2>1. InCommand(t, i) <=> InCommand(s, i)
      BY <1>0, InCommandBefore
    <2>2. i \in 1 .. n + 1 /\ t[i] = s[i] /\ i \in DOMAIN s /\ i \in DOMAIN t
      BY <1>1
    <2>3. CommandAt(t, i) = CommandAt(s, i)
      BY <1>0, <2>2, CommandBefore
    <2>4. SetBy(t, p, i) = SetBy(s, p, i)
      BY <2>1, <2>2, <2>3 DEF SetBy
    <2> QED
      BY <1>2, <1>3, <2>2, <2>4
  <1>5. g[n + 1] = SetNow(s, c, p)
    <2>1. InCommand(t, n + 1) <=> c = Bang \/ OnCommand(s)
      BY <1>0, InCommandLast
    <2>2. CommandAt(t, n + 1) = CommandNow(s)
      <3>1. n + 1 \in 1 .. n + 1
        BY <1>1
      <3> QED
        BY <1>0, <3>1, CommandBefore DEF CommandNow
    <2>3. Bang # Newline
      BY DEF Bang, Newline
    <2>4. SetBy(t, p, n + 1) = SetNow(s, c, p)
      BY <1>1, <2>1, <2>2, <2>3 DEF SetBy, SetNow
    <2>5. n + 1 \in DOMAIN t
      BY <1>1
    <2> QED
      BY <1>3, <2>4, <2>5
  <1>6. Joined(g) = Joined(f) \o g[n + 1]
    <2>1. n \in Nat
      BY <1>1
    <2> QED
      BY <1>4, <2>1, JoinedNext
  <1>7. PICK default \in Seq(0 .. 20) : default = <<Default[p], Default[p]>>
    <2>1. PICK d \in 0 .. 20 : d = Default[p]
      BY DefaultType
    <2>2. <<d, d>> \in Seq(0 .. 20)
      OBVIOUS
    <2> QED
      BY <2>1, <2>2
  <1>8. Joined(f) \in Seq(0 .. 20) /\ g[n + 1] \in Seq(0 .. 20)
    <2>1. f \in Seq(Seq(0 .. 20)) /\ n + 1 \in 1 .. n + 1
      BY <1>1, <1>2
    <2> QED
      BY <1>3, <2>1, JoinedType
  <1>9. default \o (Joined(f) \o g[n + 1]) = (default \o Joined(f)) \o g[n + 1]
    <2>1. PICK early \in Seq(0 .. 20), last \in Seq(0 .. 20) : early = Joined(f) /\ last = g[n + 1]
      BY <1>8
    <2>2. default \o (early \o last) = (default \o early) \o last
      BY ConcatAssociative
    <2> QED
      BY <2>1, <2>2
  <1>10. SettingsOf(s, p) = default \o Joined(f) /\ SettingsOf(t, p) = default \o Joined(g)
    BY <1>2, <1>3, <1>7 DEF SettingsOf
  <1> QED
    BY <1>0, <1>5, <1>6, <1>9, <1>10

\* serialCmd is what the line being read holds of a command, as far as it fits.
CommandCollected == serialCmd = CommandNow(HasBeenRead)

CommandInv == TextInv /\ CommandCollected

LEMMA CommandRead ==
  ASSUME CommandInv, ReadChar
  PROVE  CommandCollected'
  <1>1. /\ Head(port) \in Char /\ HasBeenRead' = Append(HasBeenRead, Head(port))
        /\ HasBeenRead \in Seq(Char)
    BY ReadCharReadsOne, HasBeenReadType DEF CommandInv, TextInv
  <1>2. CommandNow(HasBeenRead)' = CommandNow(Append(HasBeenRead, Head(port)))
    BY <1>1
  <1>3. CommandNow(Append(HasBeenRead, Head(port))) =
          IF Head(port) = Newline THEN <<>>
          ELSE IF /\ Head(port) \notin {Return, Bang} /\ OnCommand(HasBeenRead)
                  /\ Len(CommandNow(HasBeenRead)) < MaxLen
                 THEN Append(CommandNow(HasBeenRead), Head(port))
          ELSE CommandNow(HasBeenRead)
    BY <1>1, CommandNowNext
  <1>4. serialCmd = CommandNow(HasBeenRead) /\ (serialCommandMode <=> OnCommand(HasBeenRead))
    BY DEF CommandInv, CommandCollected, TextInv, ModeFollowsLine
  <1>5. Len(serialCmd) \in Nat /\ MaxLen \in Nat
    BY SerialAssumption DEF CommandInv, TextInv, TypeOK
  <1>6. CASE CollectCommand(Head(port))
    <2>1. CASE Head(port) = Bang
      BY <1>2, <1>3, <1>4, <1>6, <2>1 DEF CollectCommand, CommandCollected
    <2>2. CASE Head(port) # Bang
      <3>1. OnCommand(HasBeenRead) /\ Head(port) # Newline
        BY <1>4, <1>6, <2>2 DEF CollectCommand
      <3>2. serialCmd' = IF Head(port) = Return \/ Len(serialCmd) >= MaxLen
                           THEN serialCmd ELSE Append(serialCmd, Head(port))
        BY <1>6, <2>2 DEF CollectCommand
      <3>3. CommandNow(HasBeenRead)' = IF Head(port) # Return /\ Len(serialCmd) < MaxLen
                                         THEN Append(serialCmd, Head(port)) ELSE serialCmd
        BY <1>2, <1>3, <1>4, <2>2, <3>1
      <3>4. Len(serialCmd) >= MaxLen <=> ~(Len(serialCmd) < MaxLen)
        BY <1>5
      <3> QED
        BY <3>2, <3>3, <3>4 DEF CommandCollected
    <2> QED
      BY <2>1, <2>2
  <1>7. CASE EndCommand(Head(port))
    BY <1>2, <1>3, <1>7 DEF EndCommand, CommandCollected
  <1>8. CASE BuildText(Head(port))
    <2>1. serialCmd' = <<>> /\ serialCmd = <<>>
      BY <1>1, <1>4, <1>8, CommandNowNone DEF BuildText
    <2>2. ~OnCommand(HasBeenRead)
      BY <1>4, <1>8 DEF BuildText
    <2> QED
      BY <1>2, <1>3, <1>4, <2>1, <2>2 DEF CommandCollected
  <1> QED
    BY <1>6, <1>7, <1>8 DEF ReadChar

LEMMA CommandStep == CommandInv /\ [Next]_vars => CommandInv'
  <1> SUFFICES ASSUME CommandInv, [Next]_vars PROVE CommandInv'
    OBVIOUS
  <1>1. TextInv'
    BY TextInvStep DEF CommandInv
  <1>2. CASE serialCmd' = serialCmd /\ HasBeenRead' = HasBeenRead
    BY <1>1, <1>2 DEF CommandInv, CommandCollected, CommandNow
  <1>3. CASE ReadChar
    BY <1>1, <1>3, CommandRead DEF CommandInv
  <1>4. ASSUME NEW c \in Char, Type(c)
        PROVE  CommandInv'
    BY <1>2, <1>4, TypeReadsNothing DEF Type, CommandInv, TextInv
  <1>5. CASE StartLoop \/ FinishLoop \/ UNCHANGED vars
    BY <1>2, <1>5 DEF StartLoop, FinishLoop, vars, HasBeenRead
  <1> QED
    BY <1>3, <1>4, <1>5 DEF Next

LEMMA LastOfAppended ==
  ASSUME NEW all \in Seq(0 .. 20), Len(all) >= 2, NEW v \in 0 .. 20
  PROVE  /\ Last(all \o <<v>>) = v
         /\ (all \o <<v>>)[Len(all \o <<v>>) - 1] = Last(all)
         /\ all \o <<>> = all
  <1>1. PICK n, more : n = Len(all) /\ more = Append(all, v)
    OBVIOUS
  <1>2. n \in Nat /\ n \in 1 .. n /\ Len(more) = n + 1 /\ more[n + 1] = v /\ more[n] = all[n]
    BY <1>1
  <1>3. all \o <<v>> = more /\ all \o <<>> = all
    BY <1>1
  <1>4. (n + 1) - 1 = n
    BY <1>2
  <1> QED
    BY <1>1, <1>2, <1>3, <1>4 DEF Last

SettingsFollow(p) ==
  /\ current[p] = Last(SettingsOf(HasBeenRead, p))
  /\ previous[p] = SettingsOf(HasBeenRead, p)[Len(SettingsOf(HasBeenRead, p)) - 1]

LEMMA SettingsRead ==
  ASSUME CommandInv, ReadChar, NEW p \in Parameter, SettingsFollow(p)
  PROVE  SettingsFollow(p)'
  <1>1. /\ Head(port) \in Char /\ HasBeenRead' = Append(HasBeenRead, Head(port))
        /\ HasBeenRead \in Seq(Char)
    BY ReadCharReadsOne, HasBeenReadType DEF CommandInv, TextInv
  <1>2. PICK all \in Seq(0 .. 20) : all = SettingsOf(HasBeenRead, p) /\ Len(all) >= 2
    BY <1>1, SettingsType
  <1>3. SettingsOf(HasBeenRead, p)' = all \o SetNow(HasBeenRead, Head(port), p)
    <2>1. SettingsOf(HasBeenRead, p)' = SettingsOf(Append(HasBeenRead, Head(port)), p)
      BY <1>1
    <2> QED
      BY <1>1, <1>2, <2>1, SettingsAppend
  <1>4. serialCmd = CommandNow(HasBeenRead) /\ (serialCommandMode <=> OnCommand(HasBeenRead))
    BY DEF CommandInv, CommandCollected, TextInv, ModeFollowsLine
  <1>5. current[p] = Last(all) /\ previous[p] = all[Len(all) - 1]
    BY <1>2 DEF SettingsFollow
  <1>6. ASSUME EndCommand(Head(port)), SetsParameter(serialCmd), serialCmd[1] = p
        PROVE  SettingsFollow(p)'
    <2>1. PICK v \in 0 .. 20 : v = Value(serialCmd)
      <3>1. serialCmd \in Seq(Char)
        BY DEF CommandInv, TextInv, TypeOK
      <3> QED
        BY <1>6, <3>1, ValueInRange
    <2>2. SetNow(HasBeenRead, Head(port), p) = <<v>>
      BY <1>4, <1>6, <2>1 DEF EndCommand, SetNow
    <2>3. current'[p] = v /\ previous'[p] = current[p]
      BY <1>6, <2>1 DEF EndCommand, ApplyCommand, CommandInv, TextInv, TypeOK
    <2>4. SettingsOf(HasBeenRead, p)' = all \o <<v>>
      BY <1>3, <2>2
    <2>5. Last(all \o <<v>>) = v /\ (all \o <<v>>)[Len(all \o <<v>>) - 1] = Last(all)
      BY <1>2, LastOfAppended
    <2> QED
      BY <1>5, <2>3, <2>4, <2>5 DEF SettingsFollow
  <1>7. ASSUME SetNow(HasBeenRead, Head(port), p) = <<>>, current'[p] = current[p], previous'[p] = previous[p]
        PROVE  SettingsFollow(p)'
    <2>1. SettingsOf(HasBeenRead, p)' = all
      <3>1. all \o <<>> = all
        OBVIOUS
      <3> QED
        BY <1>3, <1>7, <3>1
    <2> QED
      BY <1>5, <1>7, <2>1 DEF SettingsFollow
  <1>8. ASSUME EndCommand(Head(port)), ~(SetsParameter(serialCmd) /\ serialCmd[1] = p)
        PROVE  SettingsFollow(p)'
    <2>1. SetNow(HasBeenRead, Head(port), p) = <<>>
      BY <1>4, <1>8 DEF SetNow
    <2>2. current'[p] = current[p] /\ previous'[p] = previous[p]
      BY <1>8 DEF EndCommand, ApplyCommand, CommandInv, TextInv, TypeOK
    <2> QED
      BY <1>7, <2>1, <2>2
  <1>9. ASSUME CollectCommand(Head(port)) \/ BuildText(Head(port))
        PROVE  SettingsFollow(p)'
    <2>1. Head(port) # Newline \/ ~OnCommand(HasBeenRead)
      BY <1>4, <1>9 DEF CollectCommand, BuildText
    <2>2. SetNow(HasBeenRead, Head(port), p) = <<>>
      BY <2>1 DEF SetNow
    <2>3. current' = current /\ previous' = previous
      BY <1>9 DEF CollectCommand, BuildText
    <2> QED
      BY <1>7, <2>2, <2>3
  <1> QED
    BY <1>6, <1>8, <1>9 DEF ReadChar

LEMMA SettingsInit ==
  ASSUME Init, NEW p \in Parameter
  PROVE  SettingsFollow(p)
  <1>1. HasBeenRead = <<>> /\ current = Default /\ previous = Default
    BY ReadInit DEF Init
  <1>2. DOMAIN <<>> = 1 .. 0
    OBVIOUS
  <1> DEFINE f == [i \in DOMAIN <<>> |-> SetBy(<<>>, p, i)]
  <1>3. f \in [1 .. 0 -> {<<>>}]
    BY <1>2
  <1>4. SettingsOf(<<>>, p) = <<Default[p], Default[p]>> \o Joined(f)
    BY DEF SettingsOf
  <1> HIDE DEF f
  <1>5. SettingsOf(<<>>, p) = <<Default[p], Default[p]>>
    <2>1. Joined(f) = <<>>
      BY <1>3, JoinedEmpty
    <2> QED
      BY <1>4, <2>1
  <1>6. Len(<<Default[p], Default[p]>>) = 2
    OBVIOUS
  <1> QED
    BY <1>1, <1>5, <1>6 DEF SettingsFollow, Last

\* Whatever text, test messages and rounds of loop() are between the characters of the
\* commands, the radio has the last valid setting of each parameter, and `previous', to
\* which a link change falls back, the one before it (handleSerialCommand and the setters).
THEOREM SettingsAreFollowed == Spec => []SettingsFollowCommands
  <1> DEFINE Follow == \A p \in Parameter : SettingsFollow(p)
  <1>1. Init => CommandInv /\ Follow
    <2> SUFFICES ASSUME Init PROVE CommandInv /\ Follow
      OBVIOUS
    <2>1. <<>> \in Seq(Char) /\ ~OnCommand(<<>>)
      BY DEF OnCommand
    <2>2. CommandCollected
      BY <2>1, ReadInit, CommandNowNone DEF CommandCollected, Init
    <2> QED
      BY <2>2, TypeInit, ReadInit, SettingsInit DEF CommandInv, TextInv
  <1>2. CommandInv /\ Follow /\ [Next]_vars => Follow'
    <2> SUFFICES ASSUME CommandInv, [Next]_vars, NEW p \in Parameter, SettingsFollow(p)
                 PROVE  SettingsFollow(p)'
      OBVIOUS
    <2>1. CASE HasBeenRead' = HasBeenRead /\ current' = current /\ previous' = previous
      BY <2>1 DEF SettingsFollow
    <2>2. CASE ReadChar
      BY <2>2, SettingsRead
    <2>3. ASSUME NEW c \in Char, Type(c)
          PROVE  SettingsFollow(p)'
      BY <2>1, <2>3, TypeReadsNothing DEF Type, CommandInv, TextInv
    <2>4. CASE StartLoop \/ FinishLoop \/ UNCHANGED vars
      BY <2>1, <2>4 DEF StartLoop, FinishLoop, vars, HasBeenRead
    <2> QED
      BY <2>2, <2>3, <2>4 DEF Next
  <1>3. CommandInv /\ Follow => SettingsFollowCommands
    BY DEF SettingsFollow, SettingsFollowCommands
  <1> QED
    BY <1>1, <1>2, <1>3, CommandStep, PTL DEF Spec

=============================================================================
