--------------------------- MODULE EchoBridgeProofs ---------------------------
(***************************************************************************)
(* Each port of the sensor bridge implements LineChannel, for any bytes     *)
(* that arrive in any pieces.                                               *)
(*                                                                         *)
(* The buffers are in step with the history of the port: a line buffer      *)
(* holds what the bytes read since the last newline amount to.  One byte    *)
(* more adds a line to those that came exactly if it ends one, and one run  *)
(* of a sketch's while loop takes at most the first of them.                *)
(***************************************************************************)
EXTENDS EchoBridge, PiecesProofs

-----------------------------------------------------------------------------
(* What a byte adds *)

LEMMA NewlineAddsNothing ==
  ASSUME NEW p, NEW b \in Newline
  PROVE  Added(p, b) = <<>>
  <1>1. b \in Newline \cup {" ", "*"} /\ b # "&" /\ b # "#" /\ b # "$" /\ b # "%"
    BY DEF Newline
  <1> QED
    BY <1>1, Zenon DEF Added

LEMMA AddedType ==
  ASSUME NEW p \in Port, NEW b \in BytesOf(p)
  PROVE  Added(p, b) \in Seq(Payload(p))
  <1>1. CASE b \in Newline \cup {" ", "*"}
    <2>1. b # "&" /\ b # "#" /\ b # "$" /\ b # "%"
      BY <1>1 DEF Newline
    <2>2. Added(p, b) = <<>>
      BY <1>1, <2>1, Zenon DEF Added
    <2> QED
      BY <2>2
  <1>2. CASE b \notin Newline \cup {" ", "*"} /\ p = "usb" /\ b \in {"$", "%"}
    <2>1. b # "&" /\ b # "#"
      BY <1>2
    <2>2. Added(p, b) = <<>>
      BY <1>2, <2>1, Zenon DEF Added
    <2> QED
      BY <2>2
  <1>3. CASE b \notin Newline \cup {" ", "*"} /\ p = "usb" /\ b = "&"
    <2>1. b # "#" /\ b \notin {"$", "%"}
      BY <1>3
    <2>2. Added(p, b) = <<"CR">>
      BY <1>3, <2>1, Zenon DEF Added
    <2>3. "CR" \in Payload(p)
      BY <1>3 DEF Payload
    <2> QED
      BY <2>2, <2>3
  <1>4. CASE b \notin Newline \cup {" ", "*"} /\ p = "usb" /\ b = "#"
    <2>1. b # "&" /\ b \notin {"$", "%"}
      BY <1>4
    <2>2. Added(p, b) = <<"ESC">>
      BY <1>4, <2>1, Zenon DEF Added
    <2>3. "ESC" \in Payload(p)
      BY <1>4 DEF Payload
    <2> QED
      BY <2>2, <2>3
  <1>5. CASE b \notin Newline \cup {" ", "*"} /\ (p = "usb" => b \notin {"$", "%", "&", "#"})
    <2>1. p = "usb" => b \notin {"$", "%"} /\ b # "&" /\ b # "#"
      BY <1>5
    <2>2. Added(p, b) = <<b>>
      BY <1>5, <2>1, Zenon DEF Added
    <2>3. b \in Payload(p)
      BY <1>5 DEF Payload, BytesOf, Newline
    <2> QED
      BY <2>2, <2>3
  <1> QED
    BY <1>1, <1>2, <1>3, <1>4, <1>5

\* The first m of the bytes.
FirstBytes(bytes, m) == SubSeq(bytes, 1, m)

LEMMA FirstBytesType ==
  ASSUME NEW S, NEW b \in Seq(S), NEW m \in 0 .. Len(b)
  PROVE  /\ FirstBytes(b, m) \in Seq(S) /\ Len(FirstBytes(b, m)) = m
         /\ \A i \in 1 .. m : FirstBytes(b, m)[i] = b[i]
  BY DEF FirstBytes

LEMMA OneByteMore ==
  ASSUME NEW S, NEW b \in Seq(S), NEW m \in 0 .. Len(b) - 1
  PROVE  FirstBytes(b, m + 1) = Append(FirstBytes(b, m), b[m + 1])
  BY DEF FirstBytes

LEMMA FirstOfAppend ==
  ASSUME NEW S, NEW b \in Seq(S), NEW c \in S, NEW m \in 0 .. Len(b)
  PROVE  FirstBytes(Append(b, c), m) = FirstBytes(b, m)
  BY DEF FirstBytes

LEMMA AllOfThem ==
  ASSUME NEW S, NEW b \in Seq(S)
  PROVE  FirstBytes(b, Len(b)) = b /\ FirstBytes(b, 0) = <<>>
  BY DEF FirstBytes

-----------------------------------------------------------------------------
(* What bytes amount to *)

\* Byte k of the bytes is not followed by a newline, nor one itself.
Stays(bytes, k) == \A l \in k .. Len(bytes) : bytes[l] \notin Newline

\* f is the pieces of LineOf, g those of AllAdded.
LinePieces(f, p, bytes) ==
  f = [k \in DOMAIN bytes |-> IF Stays(bytes, k) THEN Added(p, bytes[k]) ELSE <<>>]

TextPieces(g, p, bytes) == g = [k \in DOMAIN bytes |-> Added(p, bytes[k])]

LEMMA LineOfPieces ==
  ASSUME NEW p, NEW b, NEW f, LinePieces(f, p, b)
  PROVE  LineOf(p, b) = Joined(f)
  BY Zenon DEF LineOf, LinePieces, Stays

LEMMA TextOfPieces ==
  ASSUME NEW p, NEW b, NEW f, TextPieces(f, p, b)
  PROVE  AllAdded(p, b) = Joined(f)
  BY Zenon DEF AllAdded, TextPieces

LEMMA LinePiecesType ==
  ASSUME NEW p \in Port, NEW b \in Seq(BytesOf(p)), NEW f, LinePieces(f, p, b)
  PROVE  f \in [1 .. Len(b) -> Seq(Payload(p))]
  <1>1. \A k \in 1 .. Len(b) : Added(p, b[k]) \in Seq(Payload(p))
    BY AddedType
  <1>2. <<>> \in Seq(Payload(p))
    OBVIOUS
  <1> QED
    BY <1>1, <1>2 DEF LinePieces

LEMMA TextPiecesType ==
  ASSUME NEW p \in Port, NEW b \in Seq(BytesOf(p)), NEW f, TextPieces(f, p, b)
  PROVE  f \in [1 .. Len(b) -> Seq(Payload(p))]
  <1>1. \A k \in 1 .. Len(b) : Added(p, b[k]) \in Seq(Payload(p))
    BY AddedType
  <1> QED
    BY <1>1 DEF TextPieces

LEMMA LineOfType ==
  ASSUME NEW p \in Port, NEW b \in Seq(BytesOf(p))
  PROVE  LineOf(p, b) \in Seq(Payload(p)) /\ AllAdded(p, b) \in Seq(Payload(p))
  <1>1. PICK f : LinePieces(f, p, b)
    BY DEF LinePieces
  <1>2. PICK g : TextPieces(g, p, b)
    BY DEF TextPieces
  <1>3. f \in [1 .. Len(b) -> Seq(Payload(p))] /\ g \in [1 .. Len(b) -> Seq(Payload(p))]
    BY <1>1, <1>2, LinePiecesType, TextPiecesType
  <1>4. Joined(f) \in Seq(Payload(p)) /\ Joined(g) \in Seq(Payload(p))
    <2>1. PICK S, n : S = Payload(p) /\ n = Len(b)
      OBVIOUS
    <2>2. n \in Nat /\ f \in [1 .. n -> Seq(S)] /\ g \in [1 .. n -> Seq(S)]
      BY <1>3, <2>1
    <2>3. Joined(f) \in Seq(S) /\ Joined(g) \in Seq(S)
      BY <2>2, JoinedOf
    <2> QED
      BY <2>1, <2>3
  <1> QED
    BY <1>1, <1>2, <1>4, LineOfPieces, TextOfPieces

\* All that one more byte adds.
AddsTo(new, old, piece) == new = old \o piece

LEMMA AllAddedNext ==
  ASSUME NEW p \in Port, NEW b \in Seq(BytesOf(p)), NEW c \in BytesOf(p)
  PROVE  AddsTo(AllAdded(p, Append(b, c)), AllAdded(p, b), Added(p, c))
  <1>0. PICK n, more : n = Len(b) /\ more = Append(b, c)
    OBVIOUS
  <1>1. /\ n \in Nat /\ more \in Seq(BytesOf(p)) /\ Len(more) = n + 1
        /\ DOMAIN b = 1 .. n /\ DOMAIN more = 1 .. n + 1
        /\ more[n + 1] = c /\ \A i \in 1 .. n : more[i] = b[i]
    BY <1>0
  <1>2. PICK f : TextPieces(f, p, b)
    BY DEF TextPieces
  <1>3. PICK g : TextPieces(g, p, more)
    BY DEF TextPieces
  <1>4. f \in [1 .. n -> Seq(Payload(p))] /\ g \in [1 .. n + 1 -> Seq(Payload(p))]
    BY <1>0, <1>1, <1>2, <1>3, TextPiecesType
  <1>5. g[n + 1] = Added(p, c) /\ \A i \in 1 .. n : g[i] = f[i]
    BY <1>1, <1>2, <1>3 DEF TextPieces
  <1>6. Grown(f, g, g[n + 1])
    BY <1>1, <1>4, <1>5, JoinedGrown
  <1> QED
    BY <1>0, <1>2, <1>3, <1>5, <1>6, TextOfPieces, Zenon DEF Grown, AddsTo

LEMMA LineOfNext ==
  ASSUME NEW p \in Port, NEW b \in Seq(BytesOf(p)), NEW c \in BytesOf(p) \ Newline
  PROVE  AddsTo(LineOf(p, Append(b, c)), LineOf(p, b), Added(p, c))
  <1>0. PICK n, more : n = Len(b) /\ more = Append(b, c)
    OBVIOUS
  <1>1. /\ n \in Nat /\ more \in Seq(BytesOf(p)) /\ Len(more) = n + 1
        /\ DOMAIN b = 1 .. n /\ DOMAIN more = 1 .. n + 1
        /\ more[n + 1] = c /\ \A i \in 1 .. n : more[i] = b[i]
    BY <1>0
  <1>2. PICK f : LinePieces(f, p, b)
    BY DEF LinePieces
  <1>3. PICK g : LinePieces(g, p, more)
    BY DEF LinePieces
  <1>4. f \in [1 .. n -> Seq(Payload(p))] /\ g \in [1 .. n + 1 -> Seq(Payload(p))]
    BY <1>0, <1>1, <1>2, <1>3, LinePiecesType
  <1>5. \A i \in 1 .. n : Stays(more, i) <=> Stays(b, i)
    <2>1. ASSUME NEW i \in 1 .. n, Stays(b, i), NEW l \in i .. n + 1
          PROVE  more[l] \notin Newline
      <3>1. CASE l = n + 1
        BY <1>1, <3>1
      <3>2. CASE l # n + 1
        <4>1. l \in i .. n /\ l \in 1 .. n
          BY <1>1, <3>2
        <4> QED
          BY <1>0, <1>1, <2>1, <4>1 DEF Stays
      <3> QED
        BY <3>1, <3>2
    <2>2. ASSUME NEW i \in 1 .. n, Stays(more, i), NEW l \in i .. n
          PROVE  b[l] \notin Newline
      <3>1. l \in i .. n + 1 /\ l \in 1 .. n
        BY <1>1
      <3> QED
        BY <1>1, <2>2, <3>1 DEF Stays
    <2> QED
      BY <1>0, <1>1, <2>1, <2>2 DEF Stays
  <1>6. Stays(more, n + 1)
    BY <1>1 DEF Stays
  <1>7. g[n + 1] = Added(p, c) /\ \A i \in 1 .. n : g[i] = f[i]
    BY <1>1, <1>2, <1>3, <1>5, <1>6 DEF LinePieces
  <1>8. Grown(f, g, g[n + 1])
    BY <1>1, <1>4, <1>7, JoinedGrown
  <1> QED
    BY <1>0, <1>2, <1>3, <1>7, <1>8, LineOfPieces, Zenon DEF Grown, AddsTo

\* A newline begins the line afresh.
LEMMA LineOfEnded ==
  ASSUME NEW p \in Port, NEW b \in Seq(BytesOf(p)), NEW c \in BytesOf(p) \cap Newline
  PROVE  LineOf(p, Append(b, c)) = <<>> /\ LineOf(p, <<>>) = <<>> /\ AllAdded(p, <<>>) = <<>>
  <1>1. PICK g, more : more = Append(b, c) /\ LinePieces(g, p, more)
    BY DEF LinePieces
  <1>2. /\ Len(b) \in Nat /\ DOMAIN more = 1 .. Len(b) + 1 /\ Len(more) = Len(b) + 1
        /\ more[Len(b) + 1] = c
    BY <1>1
  <1>3. \A k \in 1 .. Len(b) + 1 : ~Stays(more, k)
    BY <1>2 DEF Stays
  <1>4. g \in [1 .. Len(b) + 1 -> {<<>>}]
    BY <1>1, <1>2, <1>3 DEF LinePieces
  <1>5. Joined(g) = <<>>
    BY <1>2, <1>4, JoinedEmpty
  <1>6. PICK e, f : LinePieces(e, p, <<>>) /\ TextPieces(f, p, <<>>)
    BY DEF LinePieces, TextPieces
  <1>7. e \in [1 .. 0 -> {<<>>}] /\ f \in [1 .. 0 -> {<<>>}]
    BY <1>6 DEF LinePieces, TextPieces
  <1>8. Joined(e) = <<>> /\ Joined(f) = <<>>
    BY <1>7, JoinedEmpty
  <1> QED
    BY <1>1, <1>5, <1>6, <1>8, LineOfPieces, TextOfPieces

-----------------------------------------------------------------------------
(* The sensor that bytes choose *)

DestinationBytes(bytes) == {i \in DOMAIN bytes : bytes[i] \in {"$", "%"}}

LEMMA ChosenIs ==
  ASSUME NEW b, NEW to
  PROVE  Chosen(b, to) = IF DestinationBytes(b) = {} THEN to
                         ELSE IF b[Max(DestinationBytes(b))] = "$" THEN "seaphox" ELSE "procv"
  BY Zenon DEF Chosen, DestinationBytes

LEMMA ChosenType ==
  ASSUME NEW b, NEW to
  PROVE  Chosen(b, to) \in {to, "seaphox", "procv"}
  BY ChosenIs

LEMMA LastChoice ==
  ASSUME NEW T \in SUBSET Nat, NEW x \in T, \A y \in T : y <= x
  PROVE  Max(T) = x
  <1>1. \A z \in T : (\A y \in T : z >= y) => z = x
    <2> SUFFICES ASSUME NEW z \in T, \A y \in T : z >= y
                 PROVE  z = x
      OBVIOUS
    <2>1. z <= x /\ x <= z /\ z \in Nat /\ x \in Nat
      OBVIOUS
    <2> QED
      BY <2>1
  <1>2. \A y \in T : x >= y
    OBVIOUS
  <1> QED
    BY <1>1, <1>2, Zenon DEF Max

\* One more byte may choose; else the choice stays.
ChoiceAfter(c, to) == IF c = "$" THEN "seaphox" ELSE IF c = "%" THEN "procv" ELSE to

LEMMA ChosenNext ==
  ASSUME NEW S, NEW b \in Seq(S), NEW c \in S, NEW to
  PROVE  Chosen(Append(b, c), to) = ChoiceAfter(c, Chosen(b, to))
  <1>0. PICK n, more : n = Len(b) /\ more = Append(b, c)
    OBVIOUS
  <1>1. /\ n \in Nat /\ DOMAIN b = 1 .. n /\ DOMAIN more = 1 .. n + 1
        /\ more[n + 1] = c /\ \A i \in 1 .. n : more[i] = b[i]
    BY <1>0
  <1>2. DestinationBytes(b) \in SUBSET (1 .. n) /\ DestinationBytes(more) \in SUBSET (1 .. n + 1)
    BY <1>1 DEF DestinationBytes
  <1>3. \A i \in 1 .. n : i \in DestinationBytes(more) <=> i \in DestinationBytes(b)
    BY <1>1 DEF DestinationBytes
  <1>4. n + 1 \in DestinationBytes(more) <=> c \in {"$", "%"}
    BY <1>1 DEF DestinationBytes
  <1>5. CASE c \in {"$", "%"}
    <2>1. Max(DestinationBytes(more)) = n + 1
      <3>1. DestinationBytes(more) \in SUBSET Nat /\ n + 1 \in DestinationBytes(more) /\ \A y \in DestinationBytes(more) : y <= n + 1
        BY <1>1, <1>2, <1>4, <1>5
      <3> QED
        BY <3>1, LastChoice
    <2>2. Chosen(more, to) = IF c = "$" THEN "seaphox" ELSE "procv"
      BY <1>1, <1>4, <1>5, <2>1, ChosenIs
    <2> QED
      BY <1>0, <1>5, <2>2 DEF ChoiceAfter
  <1>6. CASE c \notin {"$", "%"}
    <2>1. DestinationBytes(more) = DestinationBytes(b)
      <3>1. \A i \in 1 .. n + 1 : i # n + 1 => i \in 1 .. n
        BY <1>1
      <3> QED
        BY <1>1, <1>2, <1>3, <1>4, <1>6, <3>1
    <2>2. Chosen(more, to) = Chosen(b, to)
      <3>1. CASE DestinationBytes(b) = {}
        BY <2>1, <3>1, ChosenIs
      <3>2. CASE DestinationBytes(b) # {}
        <4>1. PICK x \in DestinationBytes(b) : \A y \in DestinationBytes(b) : y <= x
          <5>1. n \in Nat /\ DestinationBytes(b) \in SUBSET (0 .. n)
            BY <1>1, <1>2
          <5> QED
            BY <3>2, <5>1, Greatest
        <4>2. Max(DestinationBytes(b)) = x
          <5>1. DestinationBytes(b) \in SUBSET Nat
            BY <1>2
          <5> QED
            BY <4>1, <5>1, LastChoice
        <4>3. more[x] = b[x]
          BY <1>1, <1>2
        <4> QED
          BY <2>1, <3>2, <4>2, <4>3, ChosenIs
      <3> QED
        BY <3>1, <3>2
    <2> QED
      BY <1>0, <1>6, <2>2 DEF ChoiceAfter
  <1> QED
    BY <1>5, <1>6

LEMMA ChosenOfNone == \A to : Chosen(<<>>, to) = to
  <1>1. DestinationBytes(<<>>) = {}
    BY DEF DestinationBytes
  <1> QED
    BY <1>1, ChosenIs

-----------------------------------------------------------------------------
(* A run of the while loop over bytes that wait *)

\* w is the end of the bytes b.
Waiting(b, w) ==
  /\ Len(w) <= Len(b)
  /\ \A i \in 1 .. Len(w) : w[i] = b[(Len(b) - Len(w)) + i]

\* The bytes of b before those that wait.
ReadOf(b, w) == FirstBytes(b, Len(b) - Len(w))

\* Those after k of the waiting bytes have been read as well.
ReadThen(b, w, k) == FirstBytes(b, (Len(b) - Len(w)) + k)

LEMMA OneMoreRead ==
  ASSUME NEW S, NEW b \in Seq(S), NEW w \in Seq(S), Waiting(b, w), NEW k \in 0 .. Len(w) - 1
  PROVE  /\ w[k + 1] \in S
         /\ FirstBytes(w, k) \in Seq(S) /\ ReadThen(b, w, k) \in Seq(S)
         /\ FirstBytes(w, k + 1) = Append(FirstBytes(w, k), w[k + 1])
         /\ ReadThen(b, w, k + 1) = Append(ReadThen(b, w, k), w[k + 1])
  <1>1. PICK m \in Nat : m = Len(b) - Len(w)
    BY DEF Waiting
  <1>2. m + k \in 0 .. Len(b) - 1 /\ (m + k) + 1 = m + (k + 1) /\ k \in 0 .. Len(w)
    BY <1>1
  <1>3. w[k + 1] = b[m + (k + 1)] /\ w[k + 1] \in S
    BY <1>1 DEF Waiting
  <1>4. FirstBytes(w, k + 1) = Append(FirstBytes(w, k), w[k + 1])
    BY OneByteMore
  <1>5. FirstBytes(b, (m + k) + 1) = Append(FirstBytes(b, m + k), b[(m + k) + 1])
    BY <1>2, OneByteMore
  <1>6. FirstBytes(w, k) \in Seq(S) /\ FirstBytes(b, m + k) \in Seq(S)
    BY <1>2, FirstBytesType
  <1> QED
    BY <1>1, <1>2, <1>3, <1>4, <1>5, <1>6, Zenon DEF ReadThen

\* The first k waiting bytes amount to what they add, and choose for themselves.
RunReads(p, b, w, k) ==
  /\ (\A i \in 1 .. k : w[i] \notin Newline) =>
       AddsTo(LineOf(p, ReadThen(b, w, k)), LineOf(p, ReadOf(b, w)), AllAdded(p, FirstBytes(w, k)))
  /\ \A to : Chosen(ReadThen(b, w, k), to) = Chosen(FirstBytes(w, k), Chosen(ReadOf(b, w), to))

LEMMA RunReadsNone ==
  ASSUME NEW p \in Port, NEW b \in Seq(BytesOf(p)), NEW w \in Seq(BytesOf(p)), Waiting(b, w)
  PROVE  RunReads(p, b, w, 0)
  <1>1. Len(b) - Len(w) \in 0 .. Len(b) /\ (Len(b) - Len(w)) + 0 = Len(b) - Len(w)
    BY DEF Waiting
  <1>2. ReadThen(b, w, 0) = ReadOf(b, w) /\ FirstBytes(w, 0) = <<>>
    BY <1>1, AllOfThem DEF ReadThen, ReadOf
  <1>3. LineOf(p, ReadOf(b, w)) \in Seq(Payload(p))
    BY <1>1, FirstBytesType, LineOfType DEF ReadOf
  <1>4. AllAdded(p, <<>>) = <<>>
    <2>1. PICK f : TextPieces(f, p, <<>>)
      BY DEF TextPieces
    <2>2. f \in [1 .. 0 -> {<<>>}]
      BY <2>1 DEF TextPieces
    <2> QED
      BY <2>1, <2>2, JoinedEmpty, TextOfPieces
  <1>5. AddsTo(LineOf(p, ReadOf(b, w)), LineOf(p, ReadOf(b, w)), <<>>)
    BY <1>3 DEF AddsTo
  <1> QED
    BY <1>2, <1>4, <1>5, ChosenOfNone, Zenon DEF RunReads

LEMMA RunReadsNext ==
  ASSUME NEW p \in Port, NEW b \in Seq(BytesOf(p)), NEW w \in Seq(BytesOf(p)), Waiting(b, w),
         NEW k \in 0 .. Len(w) - 1, RunReads(p, b, w, k)
  PROVE  RunReads(p, b, w, k + 1)
  <1>0. PICK c, v, v1, r, r1, s : /\ c = w[k + 1] /\ s = ReadOf(b, w)
                                  /\ v = FirstBytes(w, k) /\ v1 = FirstBytes(w, k + 1)
                                  /\ r = ReadThen(b, w, k) /\ r1 = ReadThen(b, w, k + 1)
    OBVIOUS
  <1>1. /\ c \in BytesOf(p) /\ v \in Seq(BytesOf(p)) /\ r \in Seq(BytesOf(p))
        /\ v1 = Append(v, c) /\ r1 = Append(r, c)
    BY <1>0, OneMoreRead
  <1>2. s \in Seq(BytesOf(p))
    <2>1. Len(b) - Len(w) \in 0 .. Len(b)
      BY DEF Waiting
    <2> QED
      BY <1>0, <2>1, FirstBytesType DEF ReadOf
  <1>3. ASSUME NEW to
        PROVE  Chosen(r1, to) = Chosen(v1, Chosen(s, to))
    <2>1. Chosen(r, to) = Chosen(v, Chosen(s, to))
      BY <1>0, Zenon DEF RunReads
    <2>2. Chosen(r1, to) = ChoiceAfter(c, Chosen(r, to))
      BY <1>1, ChosenNext
    <2>3. Chosen(v1, Chosen(s, to)) = ChoiceAfter(c, Chosen(v, Chosen(s, to)))
      BY <1>1, ChosenNext
    <2> QED
      BY <2>1, <2>2, <2>3, Zenon
  <1>4. ASSUME \A i \in 1 .. k + 1 : w[i] \notin Newline
        PROVE  AddsTo(LineOf(p, r1), LineOf(p, s), AllAdded(p, v1))
    <2>1. c \in BytesOf(p) \ Newline /\ \A i \in 1 .. k : w[i] \notin Newline
      BY <1>0, <1>1, <1>4
    <2>2. AddsTo(LineOf(p, r), LineOf(p, s), AllAdded(p, v))
      BY <1>0, <2>1, Zenon DEF RunReads
    <2>3. AddsTo(LineOf(p, r1), LineOf(p, r), Added(p, c))
      <3>1. r \in Seq(BytesOf(p)) /\ r1 = Append(r, c)
        BY <1>1
      <3> QED
        BY <2>1, <3>1, LineOfNext
    <2>4. AddsTo(AllAdded(p, v1), AllAdded(p, v), Added(p, c))
      <3>1. v \in Seq(BytesOf(p)) /\ v1 = Append(v, c) /\ c \in BytesOf(p)
        BY <1>1
      <3> QED
        BY <3>1, AllAddedNext
    <2>5. Regrouped(LineOf(p, s), AllAdded(p, v), Added(p, c))
      <3>1. LineOf(p, s) \in Seq(Payload(p)) /\ AllAdded(p, v) \in Seq(Payload(p)) /\ Added(p, c) \in Seq(Payload(p))
        BY <1>1, <1>2, LineOfType, AddedType
      <3> QED
        BY <3>1, ConcatRegrouped
    <2> QED
      BY <2>2, <2>3, <2>4, <2>5, Zenon DEF AddsTo, Regrouped
  <1> QED
    BY <1>0, <1>3, <1>4, Zenon DEF RunReads

LEMMA RunReadsAll ==
  ASSUME NEW p \in Port, NEW b \in Seq(BytesOf(p)), NEW w \in Seq(BytesOf(p)), Waiting(b, w)
  PROVE  \A k \in 0 .. Len(w) : RunReads(p, b, w, k)
  <1> DEFINE N == {k \in Nat : k <= Len(w) => RunReads(p, b, w, k)}
  <1>1. 0 \in N
    BY RunReadsNone
  <1>2. ASSUME NEW k \in N
        PROVE  k + 1 \in N
    <2> SUFFICES ASSUME k + 1 <= Len(w) PROVE RunReads(p, b, w, k + 1)
      OBVIOUS
    <2>1. k \in 0 .. Len(w) - 1 /\ RunReads(p, b, w, k)
      OBVIOUS
    <2> QED
      BY <2>1, RunReadsNext
  <1> HIDE DEF N
  <1>3. N = Nat
    <2>1. N \in SUBSET Nat
      BY DEF N
    <2> QED
      BY <1>1, <1>2, <2>1, Induction
  <1> QED
    BY <1>3 DEF N

\* The waiting bytes from k + 1 on still wait when k have been read.
NextBytes(w, k) == SubSeq(w, k + 1, Len(w))

LEMMA StillWaiting ==
  ASSUME NEW S, NEW b \in Seq(S), NEW w \in Seq(S), Waiting(b, w), NEW k \in 0 .. Len(w)
  PROVE  /\ NextBytes(w, k) \in Seq(S) /\ Waiting(b, NextBytes(w, k))
         /\ Len(NextBytes(w, k)) = Len(w) - k
         /\ ReadOf(b, NextBytes(w, k)) = ReadThen(b, w, k)
  <1>1. PICK v : v = NextBytes(w, k)
    OBVIOUS
  <1>2. /\ v \in Seq(S) /\ Len(v) = Len(w) - k
        /\ \A i \in 1 .. Len(v) : v[i] = w[k + i]
    BY <1>1 DEF NextBytes
  <1>3. Waiting(b, v)
    <2>1. ASSUME NEW i \in 1 .. Len(v)
          PROVE  v[i] = b[(Len(b) - Len(v)) + i]
      <3>1. k + i \in 1 .. Len(w) /\ (Len(b) - Len(w)) + (k + i) = (Len(b) - Len(v)) + i
        BY <1>2
      <3> QED
        BY <1>2, <3>1 DEF Waiting
    <2> QED
      BY <1>2, <2>1 DEF Waiting
  <1>4. Len(b) - Len(v) = (Len(b) - Len(w)) + k
    BY <1>2
  <1> QED
    BY <1>1, <1>2, <1>3, <1>4 DEF ReadOf, ReadThen

LEMMA MoreWaiting ==
  ASSUME NEW S, NEW b \in Seq(S), NEW w \in Seq(S), Waiting(b, w), NEW c \in S
  PROVE  Waiting(Append(b, c), Append(w, c)) /\ ReadOf(Append(b, c), Append(w, c)) = ReadOf(b, w)
  <1>1. PICK n, l, m : n = Len(b) /\ l = Len(w) /\ m = n - l
    OBVIOUS
  <1>2. /\ n \in Nat /\ l \in Nat /\ l <= n /\ m \in 0 .. n
        /\ Len(Append(b, c)) = n + 1 /\ Len(Append(w, c)) = l + 1 /\ (n + 1) - (l + 1) = m
    BY <1>1 DEF Waiting
  <1>3. ASSUME NEW i \in 1 .. l + 1
        PROVE  Append(w, c)[i] = Append(b, c)[m + i]
    <2>1. CASE i = l + 1
      <3>1. m + i = n + 1
        BY <1>1, <1>2, <2>1
      <3> QED
        BY <1>1, <2>1, <3>1
    <2>2. CASE i # l + 1
      <3>1. i \in 1 .. l /\ m + i \in 1 .. n
        BY <1>1, <1>2, <2>2
      <3>2. w[i] = b[m + i]
        BY <1>1, <3>1 DEF Waiting
      <3> QED
        BY <1>1, <3>1, <3>2
    <2> QED
      BY <2>1, <2>2
  <1>4. FirstBytes(Append(b, c), m) = FirstBytes(b, m)
    BY <1>1, <1>2, FirstOfAppend
  <1>5. PICK b1, w1 : b1 = Append(b, c) /\ w1 = Append(w, c)
    OBVIOUS
  <1>6. Waiting(b1, w1)
    <2>1. Len(w1) <= Len(b1) /\ Len(b1) - Len(w1) = m /\ 1 .. Len(w1) = 1 .. l + 1
      BY <1>2, <1>5
    <2>2. \A i \in 1 .. l + 1 : w1[i] = b1[m + i]
      BY <1>3, <1>5
    <2> QED
      BY <2>1, <2>2, Zenon DEF Waiting
  <1>7. ReadOf(b1, w1) = FirstBytes(b1, m) /\ ReadOf(b, w) = FirstBytes(b, m)
    BY <1>1, <1>2, <1>5, Zenon DEF ReadOf
  <1> QED
    BY <1>4, <1>5, <1>6, <1>7, Zenon

-----------------------------------------------------------------------------
(* The lines among the bytes *)

LinesAt(f, p, b, r) ==
  f = [i \in DOMAIN b |-> IF i > Len(b) - r /\ EndsLine(p, b, i)
                            THEN <<LineEnding(p, FirstBytes(b, i))>> ELSE <<>>]

LEMMA LinesInPieces ==
  ASSUME NEW p, NEW b, NEW r, NEW f, LinesAt(f, p, b, r)
  PROVE  LinesIn(p, b, r) = Joined(f)
  BY Zenon DEF LinesIn, LinesAt, FirstBytes

LEMMA KindsOfLines ==
  /\ DataRsp["seaphox"] # DataRsp["procv"]
  /\ \A p \in Sensor : DataRsp[p] # "none" /\ DataRsp[p] # "dataReq"
  /\ \A to \in {"none", "seaphox", "procv"} : DataReq[to] \in {DataReq[d] : d \in DOMAIN DataReq}
  /\ \A p \in Sensor : DataRsp[p] \in {DataRsp[d] : d \in DOMAIN DataRsp}
  BY DEF DataReq, DataRsp, Sensor

LEMMA LineType ==
  ASSUME NEW p \in Port, NEW b \in Seq(BytesOf(p)), NEW m \in 0 .. Len(b) - 1
  PROVE  /\ LineEnding(p, FirstBytes(b, m + 1)) \in Line
         /\ LineEnding(p, FirstBytes(b, m + 1)).text = LineOf(p, FirstBytes(b, m))
  <1>1. PICK v, v1 : v = FirstBytes(b, m) /\ v1 = FirstBytes(b, m + 1)
    OBVIOUS
  <1>2. Front(v1) = v
    <2>1. /\ v \in Seq(BytesOf(p)) /\ Len(v) = m /\ v1 \in Seq(BytesOf(p)) /\ Len(v1) = m + 1
          /\ \A i \in 1 .. m : v1[i] = v[i]
      <3>1. m \in 0 .. Len(b) /\ m + 1 \in 0 .. Len(b)
        OBVIOUS
      <3>2. /\ v \in Seq(BytesOf(p)) /\ Len(v) = m /\ v1 \in Seq(BytesOf(p)) /\ Len(v1) = m + 1
            /\ \A i \in 1 .. m : v[i] = b[i]
            /\ \A i \in 1 .. m + 1 : v1[i] = b[i]
        BY <1>1, <3>1, FirstBytesType
      <3> QED
        BY <3>2
    <2>2. Front(v1) \in Seq(BytesOf(p)) /\ Len(Front(v1)) = m /\ \A i \in 1 .. m : Front(v1)[i] = v1[i]
      BY <2>1 DEF Front
    <2> QED
      BY <2>1, <2>2
  <1>3. v \in Seq(BytesOf(p))
    <2>1. m \in 0 .. Len(b)
      OBVIOUS
    <2> QED
      BY <1>1, <2>1, FirstBytesType
  <1>4. LineOf(p, v) \in Seq(UNION {Payload(q) : q \in Port})
    <2>1. LineOf(p, v) \in Seq(Payload(p))
      BY <1>3, LineOfType
    <2>2. Payload(p) \subseteq UNION {Payload(q) : q \in Port}
      OBVIOUS
    <2> QED
      BY <2>1, <2>2
  <1>5. PICK kind : kind = IF p = "usb" THEN DataReq[Chosen(v1, "none")] ELSE DataRsp[p]
    OBVIOUS
  <1>6. kind \in {DataReq[d] : d \in DOMAIN DataReq} \cup {DataRsp[d] : d \in DOMAIN DataRsp}
    <2>1. CASE p = "usb"
      <3>1. Chosen(v1, "none") \in {"none", "seaphox", "procv"}
        BY ChosenType
      <3> QED
        BY <1>5, <2>1, <3>1, KindsOfLines
    <2>2. CASE p # "usb"
      <3>1. p \in Sensor
        BY <2>2 DEF Port
      <3> QED
        BY <1>5, <2>2, <3>1, KindsOfLines
    <2> QED
      BY <2>1, <2>2
  <1>7. LineEnding(p, v1) = [kind |-> kind, text |-> LineOf(p, v)]
    BY <1>2, <1>5, Zenon DEF LineEnding
  <1> QED
    BY <1>1, <1>4, <1>6, <1>7 DEF Line

LEMMA LinesAtType ==
  ASSUME NEW p \in Port, NEW b \in Seq(BytesOf(p)), NEW r, NEW f, LinesAt(f, p, b, r)
  PROVE  f \in [1 .. Len(b) -> Seq(Line)] /\ LinesIn(p, b, r) \in Seq(Line)
  <1>1. ASSUME NEW i \in 1 .. Len(b)
        PROVE  LineEnding(p, FirstBytes(b, i)) \in Line
    <2>1. i - 1 \in 0 .. Len(b) - 1 /\ (i - 1) + 1 = i
      OBVIOUS
    <2>2. LineEnding(p, FirstBytes(b, (i - 1) + 1)) \in Line
      BY <2>1, LineType
    <2> QED
      BY <2>1, <2>2
  <1>2. f \in [1 .. Len(b) -> Seq(Line)]
    <2>1. DOMAIN b = 1 .. Len(b)
      OBVIOUS
    <2>2. \A i \in 1 .. Len(b) : <<LineEnding(p, FirstBytes(b, i))>> \in Seq(Line)
      BY <1>1
    <2>3. <<>> \in Seq(Line)
      OBVIOUS
    <2> QED
      BY <2>1, <2>2, <2>3 DEF LinesAt
  <1>3. PICK n : n = Len(b)
    OBVIOUS
  <1>4. n \in Nat /\ f \in [1 .. n -> Seq(Line)]
    BY <1>2, <1>3
  <1>5. Joined(f) \in Seq(Line)
    BY <1>4, JoinedOf
  <1> QED
    BY <1>2, <1>5, LinesInPieces

LEMMA EndsLineBefore ==
  ASSUME NEW p \in Port, NEW b \in Seq(BytesOf(p)), NEW c \in BytesOf(p), NEW i \in 1 .. Len(b)
  PROVE  /\ FirstBytes(Append(b, c), i) = FirstBytes(b, i)
         /\ EndsLine(p, Append(b, c), i) <=> EndsLine(p, b, i)
  <1>1. FirstBytes(Append(b, c), i) = FirstBytes(b, i)
    <2>1. i \in 0 .. Len(b)
      OBVIOUS
    <2> QED
      BY <2>1, FirstOfAppend
  <1>2. Append(b, c)[i] = b[i]
    OBVIOUS
  <1>3. SubSeq(Append(b, c), 1, i) = SubSeq(b, 1, i)
    BY <1>1, Zenon DEF FirstBytes
  <1> QED
    BY <1>1, <1>2, <1>3, Zenon DEF EndsLine

\* A byte that arrives adds the line that it ends, if it ends one.
LEMMA LinesArrive ==
  ASSUME NEW p \in Port, NEW b \in Seq(BytesOf(p)), NEW c \in BytesOf(p), NEW r \in 0 .. Len(b)
  PROVE  \/ LinesIn(p, Append(b, c), r + 1) = LinesIn(p, b, r)
         \/ \E line \in Line : LinesIn(p, Append(b, c), r + 1) = Append(LinesIn(p, b, r), line)
  <1>0. PICK n, more : n = Len(b) /\ more = Append(b, c)
    OBVIOUS
  <1>1. /\ n \in Nat /\ more \in Seq(BytesOf(p)) /\ Len(more) = n + 1
        /\ DOMAIN b = 1 .. n /\ DOMAIN more = 1 .. n + 1 /\ (n + 1) - (r + 1) = n - r
    BY <1>0
  <1>2. PICK f : LinesAt(f, p, b, r)
    BY DEF LinesAt
  <1>3. PICK g : LinesAt(g, p, more, r + 1)
    BY DEF LinesAt
  <1>4. f \in [1 .. n -> Seq(Line)] /\ g \in [1 .. n + 1 -> Seq(Line)] /\ LinesIn(p, b, r) \in Seq(Line)
    BY <1>0, <1>1, <1>2, <1>3, LinesAtType
  <1>5. \A i \in 1 .. n : g[i] = f[i]
    <2>1. ASSUME NEW i \in 1 .. n
          PROVE  g[i] = f[i]
      <3>1. FirstBytes(more, i) = FirstBytes(b, i) /\ (EndsLine(p, more, i) <=> EndsLine(p, b, i))
        BY <1>0, EndsLineBefore
      <3>2. f[i] = IF i > n - r /\ EndsLine(p, b, i) THEN <<LineEnding(p, FirstBytes(b, i))>> ELSE <<>>
        BY <1>0, <1>1, <1>2 DEF LinesAt
      <3>3. g[i] = IF i > n - r /\ EndsLine(p, more, i) THEN <<LineEnding(p, FirstBytes(more, i))>> ELSE <<>>
        BY <1>1, <1>3 DEF LinesAt
      <3>4. PICK one : one = <<LineEnding(p, FirstBytes(b, i))>> /\ one = <<LineEnding(p, FirstBytes(more, i))>>
        BY <3>1, Zenon
      <3>5. f[i] = (IF i > n - r /\ EndsLine(p, b, i) THEN one ELSE <<>>)
        BY <3>2, <3>4, Zenon
      <3>6. g[i] = (IF i > n - r /\ EndsLine(p, more, i) THEN one ELSE <<>>)
        BY <3>3, <3>4, Zenon
      <3> QED
        BY <3>1, <3>5, <3>6
    <2> QED
      BY <2>1
  <1>6. Grown(f, g, g[n + 1])
    BY <1>1, <1>4, <1>5, JoinedGrown
  <1>7. PICK old, new : old = LinesIn(p, b, r) /\ new = LinesIn(p, more, r + 1)
    OBVIOUS
  <1>8. new = old \o g[n + 1] /\ old \in Seq(Line)
    BY <1>2, <1>3, <1>4, <1>6, <1>7, LinesInPieces, Zenon DEF Grown
  <1>9. CASE g[n + 1] = <<>>
    <2>1. new = old
      BY <1>8, <1>9
    <2> QED
      BY <1>0, <1>7, <2>1, Zenon
  <1>10. CASE g[n + 1] # <<>>
    <2>1. PICK line : g[n + 1] = <<line>>
      <3>1. PICK line : line = LineEnding(p, FirstBytes(more, n + 1))
        OBVIOUS
      <3>2. n + 1 \in DOMAIN more
        BY <1>1
      <3>3. g[n + 1] \in {<<line>>, <<>>}
        BY <1>3, <3>1, <3>2 DEF LinesAt
      <3> QED
        BY <1>10, <3>3
    <2>2. line \in Line
      <3>1. g[n + 1] \in Seq(Line)
        BY <1>1, <1>4
      <3>2. <<line>>[1] \in Line
        BY <2>1, <3>1
      <3> QED
        BY <3>2
    <2>3. new = Append(old, line)
      BY <1>8, <2>1, <2>2
    <2> QED
      BY <1>0, <1>7, <2>2, <2>3, Zenon
  <1> QED
    BY <1>9, <1>10

\* Bytes that end no line take none.
LEMMA LinesSame ==
  ASSUME NEW p, NEW S, NEW b \in Seq(S), NEW r \in 0 .. Len(b), NEW k \in 0 .. r,
         \A i \in (Len(b) - r) + 1 .. (Len(b) - r) + k : ~EndsLine(p, b, i)
  PROVE  LinesIn(p, b, r) = LinesIn(p, b, r - k)
  <1>1. PICK f, g : LinesAt(f, p, b, r - k) /\ LinesAt(g, p, b, r)
    BY DEF LinesAt
  <1>2. \A i \in DOMAIN b : (i > Len(b) - r /\ EndsLine(p, b, i)) <=> (i > Len(b) - (r - k) /\ EndsLine(p, b, i))
    <2>1. ASSUME NEW i \in DOMAIN b, EndsLine(p, b, i)
          PROVE  i > Len(b) - r <=> i > Len(b) - (r - k)
      <3>1. i \notin (Len(b) - r) + 1 .. (Len(b) - r) + k
        BY <2>1
      <3>2. i \in Nat /\ Len(b) \in Nat /\ r \in Nat /\ k \in Nat
        OBVIOUS
      <3> QED
        BY <3>1, <3>2
    <2> QED
      BY <2>1
  <1>3. g = f
    BY <1>1, <1>2 DEF LinesAt
  <1> QED
    BY <1>1, <1>3, LinesInPieces

BeginsWith(lines, line, others) == lines = <<line>> \o others

\* Bytes of which the last ends a line, and only that, take this line.
LEMMA LinesTaken ==
  ASSUME NEW p \in Port, NEW b \in Seq(BytesOf(p)), NEW r \in 0 .. Len(b), NEW k \in 1 .. r,
         EndsLine(p, b, (Len(b) - r) + k),
         \A i \in (Len(b) - r) + 1 .. (Len(b) - r) + k : i # (Len(b) - r) + k => ~EndsLine(p, b, i)
  PROVE  BeginsWith(LinesIn(p, b, r), LineEnding(p, FirstBytes(b, (Len(b) - r) + k)), LinesIn(p, b, r - k))
  <1>0. PICK n, m, e, line : /\ n = Len(b) /\ m = n - r /\ e = m + k
                             /\ line = LineEnding(p, FirstBytes(b, e))
    OBVIOUS
  <1>1. /\ n \in Nat /\ m \in Nat /\ e \in 1 .. n /\ e \in Nat /\ n - (r - k) = e /\ DOMAIN b = 1 .. n
        /\ EndsLine(p, b, e) /\ \A i \in m + 1 .. e : i # e => ~EndsLine(p, b, i)
    BY <1>0
  <1>2. PICK f : LinesAt(f, p, b, r - k)
    BY DEF LinesAt
  <1>3. PICK g : LinesAt(g, p, b, r)
    BY DEF LinesAt
  <1>4. f \in [1 .. n -> Seq(Line)] /\ g \in [1 .. n -> Seq(Line)]
    BY <1>0, <1>2, <1>3, LinesAtType
  <1>5. ASSUME NEW i \in 1 .. n
        PROVE  /\ f[i] = IF i > e /\ EndsLine(p, b, i) THEN <<LineEnding(p, FirstBytes(b, i))>> ELSE <<>>
               /\ g[i] = IF i > m /\ EndsLine(p, b, i) THEN <<LineEnding(p, FirstBytes(b, i))>> ELSE <<>>
    BY <1>0, <1>1, <1>2, <1>3 DEF LinesAt
  <1>6. AddsFirst(f, g, n, e, line)
    <2>1. g[e] = <<line>>
      <3>1. e > m
        BY <1>0, <1>1
      <3> QED
        BY <1>0, <1>1, <1>5, <3>1
    <2>2. ASSUME NEW i \in 1 .. n, i # e
          PROVE  g[i] = f[i]
      <3>1. EndsLine(p, b, i) => (i > m <=> i > e)
        <4>1. EndsLine(p, b, i) => i \notin m + 1 .. e
          BY <1>1, <2>2
        <4> QED
          BY <1>0, <1>1, <2>2, <4>1
      <3> QED
        BY <1>5, <3>1, Zenon
    <2>3. ASSUME NEW i \in 1 .. n, i <= e
          PROVE  f[i] = <<>>
      <3>1. ~(i > e)
        BY <1>1, <2>3
      <3> QED
        BY <1>5, <3>1
    <2> QED
      BY <1>1, <2>1, <2>2, <2>3 DEF AddsFirst
  <1>7. line \in Line
    <2>1. e - 1 \in 0 .. Len(b) - 1 /\ (e - 1) + 1 = e
      BY <1>0, <1>1
    <2>2. LineEnding(p, FirstBytes(b, (e - 1) + 1)) \in Line
      BY <2>1, LineType
    <2> QED
      BY <1>0, <2>1, <2>2
  <1>8. BeginsWithFirst(Line, n)
    BY <1>1, JoinedFirst
  <1>9. Joined(g) = <<line>> \o Joined(f)
    BY <1>1, <1>4, <1>6, <1>7, <1>8, Zenon DEF BeginsWithFirst
  <1> QED
    BY <1>0, <1>2, <1>3, <1>9, LinesInPieces, Zenon DEF BeginsWith

-----------------------------------------------------------------------------
(* What a run of the while loop makes of the line and of the lines that wait *)

LEMMA WaitingAt ==
  ASSUME NEW S, NEW b \in Seq(S), NEW w \in Seq(S), Waiting(b, w), NEW k \in 0 .. Len(w)
  PROVE  \A i \in (Len(b) - Len(w)) + 1 .. (Len(b) - Len(w)) + k :
           i - (Len(b) - Len(w)) \in 1 .. k /\ b[i] = w[i - (Len(b) - Len(w))]
  <1>1. PICK m \in Nat : m = Len(b) - Len(w)
    BY DEF Waiting
  <1>2. ASSUME NEW i \in m + 1 .. m + k
        PROVE  i - m \in 1 .. k /\ b[i] = w[i - m]
    <2>1. i - m \in 1 .. k /\ i - m \in 1 .. Len(w) /\ m + (i - m) = i
      BY <1>1
    <2> QED
      BY <1>1, <2>1 DEF Waiting
  <1> QED
    BY <1>1, <1>2

\* A run that meets no newline adds to the line, and no line is taken.
LEMMA RunOpen ==
  ASSUME NEW p \in Port, NEW b \in Seq(BytesOf(p)), NEW w \in Seq(BytesOf(p)), Waiting(b, w),
         NEW k \in 0 .. Len(w), \A i \in 1 .. k : w[i] \notin Newline
  PROVE  /\ AddsTo(LineOf(p, ReadThen(b, w, k)), LineOf(p, ReadOf(b, w)), AllAdded(p, FirstBytes(w, k)))
         /\ LinesIn(p, b, Len(w)) = LinesIn(p, b, Len(w) - k)
  <1>1. RunReads(p, b, w, k)
    BY RunReadsAll
  <1>2. \A i \in (Len(b) - Len(w)) + 1 .. (Len(b) - Len(w)) + k : ~EndsLine(p, b, i)
    BY WaitingAt DEF EndsLine
  <1>3. Len(w) \in 0 .. Len(b) /\ k \in 0 .. Len(w)
    BY DEF Waiting
  <1>4. LinesIn(p, b, Len(w)) = LinesIn(p, b, Len(w) - k)
    BY <1>2, <1>3, LinesSame
  <1> QED
    BY <1>1, <1>4, Zenon DEF RunReads

\* A run that ends with a newline ends the line, and takes it if it is not empty.
LEMMA RunEnded ==
  ASSUME NEW p \in Port, NEW b \in Seq(BytesOf(p)), NEW w \in Seq(BytesOf(p)), Waiting(b, w),
         NEW k \in 1 .. Len(w), w[k] \in Newline, \A i \in 1 .. k : i # k => w[i] \notin Newline
  PROVE  /\ LineOf(p, ReadThen(b, w, k)) = <<>>
         /\ LineEnding(p, ReadThen(b, w, k)) \in Line
         /\ AddsTo(LineEnding(p, ReadThen(b, w, k)).text, LineOf(p, ReadOf(b, w)), AllAdded(p, FirstBytes(w, k)))
         /\ IF LineEnding(p, ReadThen(b, w, k)).text = <<>>
              THEN LinesIn(p, b, Len(w)) = LinesIn(p, b, Len(w) - k)
              ELSE BeginsWith(LinesIn(p, b, Len(w)), LineEnding(p, ReadThen(b, w, k)), LinesIn(p, b, Len(w) - k))
  <1>0. PICK m, e, h, read, v, v1, r : /\ m = Len(b) - Len(w) /\ e = m + k /\ h = k - 1
                                       /\ read = ReadThen(b, w, k) /\ r = ReadThen(b, w, h)
                                       /\ v = FirstBytes(w, h) /\ v1 = FirstBytes(w, k)
    OBVIOUS
  <1>1. /\ m \in Nat /\ h \in 0 .. Len(w) - 1 /\ h \in 0 .. Len(w) /\ h + 1 = k /\ e \in 1 .. Len(b)
        /\ m + h \in 0 .. Len(b) - 1 /\ (m + h) + 1 = e /\ m + k = e
    BY <1>0 DEF Waiting
  <1>2. /\ w[k] \in BytesOf(p) \cap Newline /\ r \in Seq(BytesOf(p)) /\ v \in Seq(BytesOf(p))
        /\ v1 = Append(v, w[k]) /\ read = Append(r, w[k])
    <2>1. /\ w[h + 1] \in BytesOf(p) /\ v \in Seq(BytesOf(p)) /\ r \in Seq(BytesOf(p))
          /\ FirstBytes(w, h + 1) = Append(v, w[h + 1])
          /\ ReadThen(b, w, h + 1) = Append(r, w[h + 1])
      BY <1>0, <1>1, OneMoreRead
    <2> QED
      BY <1>0, <1>1, <2>1
  <1>3. LineOf(p, read) = <<>>
    BY <1>2, LineOfEnded
  <1>4. read = FirstBytes(b, e) /\ r = FirstBytes(b, m + h)
    BY <1>0, <1>1, Zenon DEF ReadThen
  <1>5. LineEnding(p, read) \in Line /\ LineEnding(p, read).text = LineOf(p, r)
    <2>1. /\ LineEnding(p, FirstBytes(b, (m + h) + 1)) \in Line
          /\ LineEnding(p, FirstBytes(b, (m + h) + 1)).text = LineOf(p, FirstBytes(b, m + h))
      BY <1>1, LineType
    <2> QED
      BY <1>1, <1>4, <2>1
  <1>6. AllAdded(p, v1) = AllAdded(p, v)
    <2>1. AddsTo(AllAdded(p, v1), AllAdded(p, v), Added(p, w[k]))
      BY <1>2, AllAddedNext
    <2>2. Added(p, w[k]) = <<>>
      BY <1>2, NewlineAddsNothing
    <2>3. AllAdded(p, v) \in Seq(Payload(p))
      BY <1>2, LineOfType
    <2>4. AllAdded(p, v1) = AllAdded(p, v) \o <<>>
      BY <2>1, <2>2, Zenon DEF AddsTo
    <2> QED
      BY <2>3, <2>4
  <1>7. AddsTo(LineOf(p, r), LineOf(p, ReadOf(b, w)), AllAdded(p, v))
    <2>1. \A i \in 1 .. h : w[i] \notin Newline
      BY <1>1
    <2> QED
      BY <1>0, <1>1, <2>1, RunOpen
  <1>8. AddsTo(LineEnding(p, read).text, LineOf(p, ReadOf(b, w)), AllAdded(p, v1))
    BY <1>5, <1>6, <1>7, Zenon DEF AddsTo
  <1>9. EndsLine(p, b, e) <=> LineEnding(p, read).text # <<>>
    <2>1. b[e] \in Newline
      <3>1. e \in m + 1 .. m + k /\ e - m = k
        BY <1>0, <1>1
      <3>2. k \in 0 .. Len(w)
        OBVIOUS
      <3> QED
        BY <1>0, <3>1, <3>2, WaitingAt
    <2>2. EndsLine(p, b, e) <=> b[e] \in Newline /\ LineEnding(p, FirstBytes(b, e)).text # <<>>
      BY Zenon DEF EndsLine, FirstBytes
    <2> QED
      BY <1>4, <2>1, <2>2, Zenon
  <1>10. \A i \in m + 1 .. m + k : i # e => ~EndsLine(p, b, i)
    <2>1. k \in 0 .. Len(w)
      OBVIOUS
    <2>2. \A i \in m + 1 .. m + k : i - m \in 1 .. k /\ b[i] = w[i - m]
      BY <1>0, <2>1, WaitingAt
    <2>3. \A i \in m + 1 .. m + k : i # e => i - m # k
      BY <1>0, <1>1
    <2> QED
      BY <2>2, <2>3 DEF EndsLine
  <1>11. Len(w) \in 0 .. Len(b) /\ k \in 0 .. Len(w)
    BY DEF Waiting
  <1>12. CASE LineEnding(p, read).text = <<>>
    <2>1. \A i \in m + 1 .. m + k : ~EndsLine(p, b, i)
      BY <1>9, <1>10, <1>12
    <2>2. LinesIn(p, b, Len(w)) = LinesIn(p, b, Len(w) - k)
      BY <1>0, <1>11, <2>1, LinesSame
    <2> QED
      BY <1>0, <1>3, <1>5, <1>8, <1>12, <2>2, Zenon
  <1>13. CASE LineEnding(p, read).text # <<>>
    <2>1. EndsLine(p, b, m + k) /\ \A i \in m + 1 .. m + k : i # m + k => ~EndsLine(p, b, i)
      BY <1>1, <1>9, <1>10, <1>13
    <2>2. BeginsWith(LinesIn(p, b, Len(w)), LineEnding(p, FirstBytes(b, m + k)), LinesIn(p, b, Len(w) - k))
      BY <1>0, <1>11, <2>1, LinesTaken
    <2> QED
      BY <1>0, <1>1, <1>3, <1>4, <1>5, <1>8, <1>13, <2>2, Zenon
  <1> QED
    BY <1>12, <1>13

-----------------------------------------------------------------------------
(* The invariant *)

\* The line buffer of p holds what was read of the line, and nothing once it is done.
InStep(p) ==
  /\ Waiting(came[p], port[p])
  /\ text[p] = LineOf(p, ReadOf(came[p], port[p]))
  /\ done[p] => text[p] = <<>>

BuffersOK ==
  /\ DOMAIN port = Port /\ DOMAIN came = Port /\ DOMAIN text = Port
  /\ done \in [Port -> BOOLEAN]
  /\ \A p \in Port : port[p] \in Seq(BytesOf(p)) /\ came[p] \in Seq(BytesOf(p)) /\ InStep(p)

\* The choice is that of all the bytes read; the endpoint's driver holds a line of the base.
PacketsOK ==
  /\ sendTo = Chosen(ReadOf(came["usb"], port["usb"]), "none")
  /\ at \in [Sketch -> {"usb", "seaphox", "procv", "receive"}]
  /\ driver \in [Sketch -> Line \cup {NoPacket}]
  /\ handed \in [Port -> Line \cup {NoPacket}]
  /\ driver["endpoint"] # NoPacket => driver["endpoint"].kind \in {DataReq[d] : d \in DOMAIN DataReq}

BridgeInv == BuffersOK /\ PacketsOK

LEMMA ReadOfType ==
  ASSUME NEW S, NEW b \in Seq(S), NEW w \in Seq(S), Waiting(b, w)
  PROVE  ReadOf(b, w) \in Seq(S)
  <1>1. Len(b) - Len(w) \in 0 .. Len(b)
    BY DEF Waiting
  <1> QED
    BY <1>1, FirstBytesType DEF ReadOf

LEMMA InvTypes ==
  ASSUME BridgeInv
  PROVE  TypeOK
  <1>1. sendTo \in {"none", "seaphox", "procv"}
    BY ChosenType DEF BridgeInv, PacketsOK
  <1>2. ASSUME NEW p \in Port
        PROVE  text[p] \in Seq(Payload(p))
    <2>1. port[p] \in Seq(BytesOf(p)) /\ came[p] \in Seq(BytesOf(p)) /\ Waiting(came[p], port[p])
      BY DEF BridgeInv, BuffersOK, InStep
    <2>2. LineOf(p, ReadOf(came[p], port[p])) \in Seq(Payload(p))
      BY <2>1, ReadOfType, LineOfType
    <2> QED
      BY <2>2 DEF BridgeInv, BuffersOK, InStep
  <1> QED
    BY <1>1, <1>2 DEF BridgeInv, BuffersOK, PacketsOK, TypeOK

-----------------------------------------------------------------------------
(* One run of the while loop *)

Left(p) == NextBytes(port[p], ReadLength(p))
ReadAfter(p) == ReadThen(came[p], port[p], ReadLength(p))

LEMMA ReadLengthMeans ==
  ASSUME NEW p, NEW S, port[p] \in Seq(S)
  PROVE  /\ ReadLength(p) \in 0 .. Len(port[p])
         /\ \A i \in 1 .. ReadLength(p) : i # ReadLength(p) => port[p][i] \notin Newline
  <1>1. NewlinesIn(p) \in SUBSET Nat /\ NewlinesIn(p) \subseteq 1 .. Len(port[p])
    BY DEF NewlinesIn
  <1>2. CASE NewlinesIn(p) = {}
    BY <1>2 DEF ReadLength, NewlinesIn
  <1>3. CASE NewlinesIn(p) # {}
    <2>1. \E x \in NewlinesIn(p) : \A y \in NewlinesIn(p) : x <= y
      BY <1>1, <1>3, Least
    <2>2. PICK k : k = Min(NewlinesIn(p))
      OBVIOUS
    <2>3. k \in NewlinesIn(p) /\ \A y \in NewlinesIn(p) : k <= y
      BY <2>1, <2>2 DEF Min
    <2>4. ReadLength(p) = k
      BY <1>3, <2>2 DEF ReadLength
    <2>5. \A i \in 1 .. k : i # k => i \notin NewlinesIn(p)
      BY <1>1, <2>3
    <2> QED
      BY <1>1, <2>3, <2>4, <2>5 DEF NewlinesIn
  <1> QED
    BY <1>2, <1>3

\* What the loop does: d says whether the line is done after it.
LoopDone(p, to, d) ==
  /\ port' = [port EXCEPT ![p] = Left(p)] /\ came' = came /\ handed' = handed
  /\ done' = [done EXCEPT ![p] = d]
  /\ text' = [text EXCEPT ![p] = LineOf(p, ReadAfter(p))]
  /\ d => LineOf(p, ReadAfter(p)) = <<>>
  /\ \/ driver' = driver /\ PendingLines(p) = LinesIn(p, came[p], Len(Left(p)))
     \/ /\ BeginsWith(PendingLines(p), LineEnding(p, ReadAfter(p)), LinesIn(p, came[p], Len(Left(p))))
        /\ LineEnding(p, ReadAfter(p)) \in Line
        /\ \/ driver' = driver
           \/ driver[to].kind = "none" /\ driver' = [driver EXCEPT ![to] = LineEnding(p, ReadAfter(p))]

\* The kind of the packet that is sent is that of the line.
LEMMA SentKind ==
  ASSUME NEW p \in Port
  PROVE  /\ p = "usb" => LineEnding(p, ReadAfter(p)).kind \in {DataReq[e] : e \in DOMAIN DataReq}
         /\ p # "usb" => LineEnding(p, ReadAfter(p)).kind = DataRsp[p]
  <1>1. LineEnding(p, ReadAfter(p)).kind =
          IF p = "usb" THEN DataReq[Chosen(ReadAfter(p), "none")] ELSE DataRsp[p]
    BY DEF LineEnding
  <1>2. Chosen(ReadAfter(p), "none") \in {"none", "seaphox", "procv"}
    BY ChosenType
  <1> QED
    BY <1>1, <1>2, KindsOfLines

\* ReadAndSend in terms of the bytes read, v, and the line that they make.
Ran(p, to, kind, v, line, d) ==
  /\ v = FirstBytes(port[p], ReadLength(p)) /\ line = text[p] \o AllAdded(p, v) /\ d = DoneAfter(p, v)
  /\ port' = [port EXCEPT ![p] = Left(p)] /\ came' = came /\ handed' = handed
  /\ done' = [done EXCEPT ![p] = d]
  /\ IF line # <<>> /\ d
       THEN /\ text' = [text EXCEPT ![p] = <<>>]
            /\ \/ driver' = driver
               \/ /\ driver[to].kind = "none"
                  /\ driver' = [driver EXCEPT ![to] = [kind |-> kind, text |-> line]]
       ELSE text' = [text EXCEPT ![p] = line] /\ driver' = driver

LEMMA LoopRan ==
  ASSUME NEW p \in Port, NEW to, NEW kind, ReadAndSend(p, to, kind)
  PROVE  \E v, line, d : Ran(p, to, kind, v, line, d)
  <1>1. PICK v, line, d : /\ v = FirstBytes(port[p], ReadLength(p))
                          /\ line = text[p] \o AllAdded(p, v) /\ d = DoneAfter(p, v)
    OBVIOUS
  <1>2. Left(p) = SubSeq(port[p], ReadLength(p) + 1, Len(port[p]))
    BY DEF Left, NextBytes
  <1>3. v = SubSeq(port[p], 1, ReadLength(p))
    BY <1>1, Zenon DEF FirstBytes
  <1>4. ASSUME NEW packet, Transmit(to, packet)
        PROVE  driver' = driver \/ (driver[to].kind = "none" /\ driver' = [driver EXCEPT ![to] = packet])
    BY <1>4 DEF Transmit
  <1>5. Transmit(to, [kind |-> kind, text |-> line]) =>
          \/ driver' = driver
          \/ driver[to].kind = "none" /\ driver' = [driver EXCEPT ![to] = [kind |-> kind, text |-> line]]
    BY <1>4, Zenon
  <1>6. /\ port' = [port EXCEPT ![p] = Left(p)] /\ came' = came /\ handed' = handed
        /\ done' = [done EXCEPT ![p] = d]
        /\ IF line # <<>> /\ d
             THEN text' = [text EXCEPT ![p] = <<>>] /\ Transmit(to, [kind |-> kind, text |-> line])
             ELSE text' = [text EXCEPT ![p] = line] /\ driver' = driver
    BY <1>1, <1>2, <1>3, Zenon DEF ReadAndSend
  <1>7. IF line # <<>> /\ d
          THEN /\ text' = [text EXCEPT ![p] = <<>>]
               /\ \/ driver' = driver
                  \/ /\ driver[to].kind = "none"
                     /\ driver' = [driver EXCEPT ![to] = [kind |-> kind, text |-> line]]
          ELSE text' = [text EXCEPT ![p] = line] /\ driver' = driver
    <2>1. CASE line # <<>> /\ d
      BY <1>5, <1>6, <2>1, Zenon
    <2>2. CASE ~(line # <<>> /\ d)
      BY <1>6, <2>2, Zenon
    <2> QED
      BY <2>1, <2>2
  <1>8. Ran(p, to, kind, v, line, d)
    BY <1>1, <1>6, <1>7, Zenon DEF Ran
  <1> QED
    BY <1>8

LEMMA LoopStep ==
  ASSUME BuffersOK, NEW p \in Port, NEW to, ReadAndSend(p, to, LineEnding(p, ReadAfter(p)).kind)
  PROVE  \E d \in BOOLEAN : LoopDone(p, to, d)
  <1>0. PICK k, b, w, read : k = ReadLength(p) /\ b = came[p] /\ w = port[p] /\ read = ReadAfter(p)
    OBVIOUS
  <1>1. /\ b \in Seq(BytesOf(p)) /\ w \in Seq(BytesOf(p)) /\ Waiting(b, w)
        /\ text[p] = LineOf(p, ReadOf(b, w)) /\ (done[p] => text[p] = <<>>) /\ done[p] \in BOOLEAN
    BY <1>0 DEF BuffersOK, InStep
  <1>2. k \in 0 .. Len(w) /\ \A i \in 1 .. k : i # k => w[i] \notin Newline
    BY <1>0, <1>1, ReadLengthMeans
  <1>3. read = ReadThen(b, w, k) /\ Len(Left(p)) = Len(w) - k
    BY <1>0, <1>1, <1>2, StillWaiting DEF Left, ReadAfter
  <1>4. PICK v, line, d : Ran(p, to, LineEnding(p, read).kind, v, line, d)
    BY <1>0, LoopRan, Zenon
  <1>5. v = FirstBytes(w, k) /\ line = text[p] \o AllAdded(p, v) /\ d = DoneAfter(p, v)
    BY <1>0, <1>4, Zenon DEF Ran
  <1>6. v \in Seq(BytesOf(p)) /\ Len(v) = k /\ (k # 0 => v[k] = w[k])
    <2>1. v = FirstBytes(w, k)
      BY <1>5
    <2>2. w \in Seq(BytesOf(p)) /\ k \in 0 .. Len(w)
      BY <1>1, <1>2
    <2>3. /\ FirstBytes(w, k) \in Seq(BytesOf(p)) /\ Len(FirstBytes(w, k)) = k
          /\ \A i \in 1 .. k : FirstBytes(w, k)[i] = w[i]
      BY <2>2, FirstBytesType
    <2>4. k # 0 => k \in 1 .. k
      BY <2>2
    <2> QED
      BY <2>1, <2>3, <2>4, Zenon
  <1>7. d = IF k = 0 THEN done[p] ELSE w[k] \in Newline
    <2>1. k = 0 <=> v = <<>>
      BY <1>6
    <2>2. k # 0 => Last(v) = w[k]
      BY <1>6 DEF Last
    <2> QED
      BY <1>5, <2>1, <2>2, Zenon DEF DoneAfter
  <1>8. d \in BOOLEAN
    <2>1. CASE k = 0
      BY <1>1, <1>7, <2>1, Zenon
    <2>2. CASE k # 0
      <3>1. d = (w[k] \in Newline)
        BY <1>7, <2>2, Zenon
      <3> QED
        BY <3>1
    <2> QED
      BY <2>1, <2>2
  <1>9. /\ port' = [port EXCEPT ![p] = Left(p)] /\ came' = came /\ handed' = handed
        /\ done' = [done EXCEPT ![p] = d]
    BY <1>4, Zenon DEF Ran
  <1>10. PendingLines(p) = LinesIn(p, b, Len(w))
    BY <1>0 DEF PendingLines
  <1>11. CASE \A i \in 1 .. k : w[i] \notin Newline
    <2>1. AddsTo(LineOf(p, read), text[p], AllAdded(p, v)) /\ LinesIn(p, b, Len(w)) = LinesIn(p, b, Len(w) - k)
      BY <1>1, <1>2, <1>3, <1>5, <1>11, RunOpen
    <2>2. LineOf(p, read) = line
      BY <1>5, <2>1, Zenon DEF AddsTo
    <2>3. d => line = <<>>
      <3>1. CASE k = 0
        <4>1. read = ReadOf(b, w)
          <5>1. (Len(b) - Len(w)) + 0 = Len(b) - Len(w)
            BY <1>1
          <5> QED
            BY <1>3, <3>1, <5>1 DEF ReadThen, ReadOf
        <4> QED
          BY <1>1, <1>7, <2>2, <3>1, <4>1
      <3>2. CASE k # 0
        <4>1. k \in 1 .. k
          BY <1>2, <3>2
        <4>2. w[k] \notin Newline
          BY <1>11, <4>1
        <4> QED
          BY <1>7, <3>2, <4>2, Zenon
      <3> QED
        BY <3>1, <3>2
    <2>4. text' = [text EXCEPT ![p] = line] /\ driver' = driver
      BY <1>4, <2>3, Zenon DEF Ran
    <2>5. PendingLines(p) = LinesIn(p, came[p], Len(Left(p)))
      BY <1>0, <1>3, <1>10, <2>1, Zenon
    <2> QED
      BY <1>0, <1>8, <1>9, <2>2, <2>3, <2>4, <2>5, Zenon DEF LoopDone
  <1>12. CASE k # 0 /\ w[k] \in Newline
    <2>1. /\ LineOf(p, read) = <<>> /\ LineEnding(p, read) \in Line
          /\ AddsTo(LineEnding(p, read).text, text[p], AllAdded(p, v))
          /\ IF LineEnding(p, read).text = <<>>
               THEN LinesIn(p, b, Len(w)) = LinesIn(p, b, Len(w) - k)
               ELSE BeginsWith(LinesIn(p, b, Len(w)), LineEnding(p, read), LinesIn(p, b, Len(w) - k))
      <3>1. k \in 1 .. Len(w)
        BY <1>2, <1>12
      <3> QED
        BY <1>1, <1>2, <1>3, <1>5, <1>12, <3>1, RunEnded
    <2>2. LineEnding(p, read).text = line
      BY <1>5, <2>1, Zenon DEF AddsTo
    <2>3. d = TRUE
      BY <1>7, <1>12
    <2>4. CASE line = <<>>
      <3>1. text' = [text EXCEPT ![p] = line] /\ driver' = driver
        BY <1>4, <2>4, Zenon DEF Ran
      <3>2. PendingLines(p) = LinesIn(p, came[p], Len(Left(p)))
        BY <1>0, <1>3, <1>10, <2>1, <2>2, <2>4, Zenon
      <3> QED
        BY <1>0, <1>8, <1>9, <2>1, <2>4, <3>1, <3>2, Zenon DEF LoopDone
    <2>5. CASE line # <<>>
      <3>1. LineEnding(p, read) = [kind |-> LineEnding(p, read).kind, text |-> line]
        BY <2>2 DEF LineEnding
      <3>2. /\ text' = [text EXCEPT ![p] = <<>>]
            /\ \/ driver' = driver
               \/ driver[to].kind = "none" /\ driver' = [driver EXCEPT ![to] = LineEnding(p, read)]
        BY <1>4, <2>3, <2>5, <3>1, Zenon DEF Ran
      <3>3. BeginsWith(PendingLines(p), LineEnding(p, read), LinesIn(p, came[p], Len(Left(p))))
        BY <1>0, <1>3, <1>10, <2>1, <2>2, <2>5, Zenon
      <3> QED
        BY <1>0, <1>8, <1>9, <2>1, <3>2, <3>3, Zenon DEF LoopDone
    <2> QED
      BY <2>4, <2>5
  <1>13. (\A i \in 1 .. k : w[i] \notin Newline) \/ (k # 0 /\ w[k] \in Newline)
    BY <1>2
  <1> QED
    BY <1>11, <1>12, <1>13

LEMMA BaseSendsDoes ==
  ASSUME BridgeInv, BaseSends
  PROVE  /\ \E d \in BOOLEAN : LoopDone("usb", "endpoint", d)
         /\ sendTo' = Chosen(ReadAfter("usb"), "none")
         /\ at' = [at EXCEPT !["base"] = "receive"]
  <1>0. PICK k, b, w, v : /\ k = ReadLength("usb") /\ b = came["usb"] /\ w = port["usb"]
                          /\ v = FirstBytes(w, k)
    OBVIOUS
  <1>1. "usb" \in Port
    BY DEF Port
  <1>2. b \in Seq(BytesOf("usb")) /\ w \in Seq(BytesOf("usb")) /\ Waiting(b, w)
    BY <1>0, <1>1 DEF BridgeInv, BuffersOK, InStep
  <1>3. k \in 0 .. Len(w)
    BY <1>0, <1>2, ReadLengthMeans
  <1>4. RunReads("usb", b, w, k)
    BY <1>1, <1>2, <1>3, RunReadsAll
  <1>5. Chosen(v, sendTo) = Chosen(ReadAfter("usb"), "none")
    <2>1. sendTo = Chosen(ReadOf(b, w), "none")
      BY <1>0 DEF BridgeInv, PacketsOK
    <2> QED
      BY <1>0, <1>4, <2>1, Zenon DEF RunReads, ReadAfter
  <1>6. /\ sendTo' = Chosen(v, sendTo) /\ ReadAndSend("usb", "endpoint", DataReq[Chosen(v, sendTo)])
        /\ at' = [at EXCEPT !["base"] = "receive"]
    BY <1>0, Zenon DEF BaseSends, FirstBytes
  <1>7. LineEnding("usb", ReadAfter("usb")).kind = DataReq[Chosen(ReadAfter("usb"), "none")]
    BY DEF LineEnding
  <1>8. ReadAndSend("usb", "endpoint", LineEnding("usb", ReadAfter("usb")).kind)
    BY <1>5, <1>6, <1>7, Zenon
  <1>9. \E d \in BOOLEAN : LoopDone("usb", "endpoint", d)
    BY <1>1, <1>8, LoopStep DEF BridgeInv
  <1> QED
    BY <1>5, <1>6, <1>9, Zenon

LEMMA EndpointSendsDoes ==
  ASSUME BridgeInv, NEW p \in Sensor, EndpointSends(p)
  PROVE  /\ \E d \in BOOLEAN : LoopDone(p, "base", d)
         /\ sendTo' = sendTo
         /\ at' = [at EXCEPT !["endpoint"] = IF p = "seaphox" THEN "procv" ELSE "receive"]
  <1>1. p \in Port /\ p # "usb"
    BY DEF Port, Sensor
  <1>2. LineEnding(p, ReadAfter(p)).kind = DataRsp[p]
    BY <1>1, SentKind
  <1>3. ReadAndSend(p, "base", LineEnding(p, ReadAfter(p)).kind)
    BY <1>2, Zenon DEF EndpointSends
  <1>4. \E d \in BOOLEAN : LoopDone(p, "base", d)
    BY <1>1, <1>3, LoopStep DEF BridgeInv
  <1> QED
    BY <1>4 DEF EndpointSends

-----------------------------------------------------------------------------
(* The invariant holds *)

LEMMA NoBytes ==
  ASSUME NEW p
  PROVE  Waiting(<<>>, <<>>) /\ ReadOf(<<>>, <<>>) = <<>> /\ LineOf(p, <<>>) = <<>>
  <1>1. Waiting(<<>>, <<>>)
    BY DEF Waiting
  <1>2. ReadOf(<<>>, <<>>) = <<>>
    BY DEF ReadOf, FirstBytes
  <1>3. PICK f : LinePieces(f, p, <<>>)
    BY DEF LinePieces
  <1>4. f \in [1 .. 0 -> {<<>>}]
    BY <1>3 DEF LinePieces
  <1>5. Joined(f) = <<>>
    BY <1>4, JoinedEmpty
  <1> QED
    BY <1>1, <1>2, <1>3, <1>5, LineOfPieces

LEMMA InvInit ==
  ASSUME Init
  PROVE  BridgeInv
  <1>1. /\ DOMAIN port = Port /\ DOMAIN came = Port /\ DOMAIN text = Port
        /\ \A p \in Port : port[p] = <<>> /\ came[p] = <<>> /\ text[p] = <<>>
    BY DEF Init
  <1>2. ASSUME NEW p \in Port
        PROVE  port[p] \in Seq(BytesOf(p)) /\ came[p] \in Seq(BytesOf(p)) /\ InStep(p)
    <2>0. <<>> \in Seq(BytesOf(p))
      OBVIOUS
    <2>1. port[p] \in Seq(BytesOf(p)) /\ came[p] \in Seq(BytesOf(p))
      BY <1>1, <2>0, Zenon
    <2>2. InStep(p)
      BY <1>1, NoBytes, Zenon DEF InStep
    <2> QED
      BY <2>1, <2>2
  <1>3. BuffersOK
    BY <1>1, <1>2 DEF BuffersOK, Init
  <1>4. sendTo = Chosen(ReadOf(came["usb"], port["usb"]), "none")
    <2>1. came["usb"] = <<>> /\ port["usb"] = <<>>
      BY <1>1 DEF Port
    <2> QED
      BY <2>1, NoBytes, ChosenOfNone, Zenon DEF Init
  <1>5. PacketsOK
    BY <1>4 DEF PacketsOK, Init, Sketch
  <1> QED
    BY <1>3, <1>5 DEF BridgeInv

LEMMA ArriveKeeps ==
  ASSUME BridgeInv, NEW q \in Port, NEW c \in BytesOf(q), Arrive(q, c)
  PROVE  BridgeInv'
  <1>1. /\ port' = [port EXCEPT ![q] = Append(port[q], c)]
        /\ came' = [came EXCEPT ![q] = Append(came[q], c)]
        /\ UNCHANGED <<text, done, sendTo, driver, at, handed>>
    BY DEF Arrive
  <1>2. DOMAIN port = Port /\ DOMAIN came = Port /\ DOMAIN text = Port /\ done \in [Port -> BOOLEAN]
    BY DEF BridgeInv, BuffersOK
  <1>3. ASSUME NEW p \in Port
        PROVE  /\ port'[p] \in Seq(BytesOf(p)) /\ came'[p] \in Seq(BytesOf(p)) /\ InStep(p)'
               /\ ReadOf(came'[p], port'[p]) = ReadOf(came[p], port[p])
    <2>1. port[p] \in Seq(BytesOf(p)) /\ came[p] \in Seq(BytesOf(p)) /\ InStep(p)
      BY DEF BridgeInv, BuffersOK
    <2>2. CASE p # q
      <3>1. port'[p] = port[p] /\ came'[p] = came[p]
        BY <1>1, <1>2, <2>2
      <3> QED
        BY <1>1, <2>1, <3>1 DEF InStep
    <2>3. CASE p = q
      <3>1. PICK b, w, b1, w1 : /\ b = came[p] /\ w = port[p]
                                /\ b1 = Append(b, c) /\ w1 = Append(w, c)
        OBVIOUS
      <3>2. came'[p] = b1 /\ port'[p] = w1
        BY <1>1, <1>2, <2>3, <3>1
      <3>3. b \in Seq(BytesOf(p)) /\ w \in Seq(BytesOf(p)) /\ c \in BytesOf(p) /\ Waiting(b, w)
        BY <2>1, <2>3, <3>1 DEF InStep
      <3>4. b1 \in Seq(BytesOf(p)) /\ w1 \in Seq(BytesOf(p))
        BY <3>1, <3>3
      <3>5. Waiting(b1, w1) /\ ReadOf(b1, w1) = ReadOf(b, w)
        BY <3>1, <3>3, MoreWaiting
      <3>6. InStep(p)'
        BY <1>1, <2>1, <3>1, <3>2, <3>5, Zenon DEF InStep
      <3> QED
        BY <3>1, <3>2, <3>4, <3>5, <3>6, Zenon
    <2> QED
      BY <2>2, <2>3
  <1>4. BuffersOK'
    BY <1>1, <1>2, <1>3 DEF BuffersOK
  <1>5. PacketsOK'
    <2>1. ReadOf(came'["usb"], port'["usb"]) = ReadOf(came["usb"], port["usb"])
      BY <1>3 DEF Port
    <2> QED
      BY <1>1, <2>1 DEF BridgeInv, PacketsOK
  <1> QED
    BY <1>4, <1>5 DEF BridgeInv

\* A run of the loop at q keeps the buffers in step.
LEMMA LoopKeeps ==
  ASSUME BridgeInv, NEW q \in Port, NEW to \in Sketch, NEW d \in BOOLEAN, LoopDone(q, to, d)
  PROVE  /\ BuffersOK'
         /\ ReadOf(came'[q], port'[q]) = ReadAfter(q)
         /\ \A p \in Port : p # q => ReadOf(came'[p], port'[p]) = ReadOf(came[p], port[p])
  <1>1. /\ port' = [port EXCEPT ![q] = Left(q)] /\ came' = came /\ done' = [done EXCEPT ![q] = d]
        /\ text' = [text EXCEPT ![q] = LineOf(q, ReadAfter(q))]
        /\ d => LineOf(q, ReadAfter(q)) = <<>>
    BY Zenon DEF LoopDone
  <1>2. DOMAIN port = Port /\ DOMAIN came = Port /\ DOMAIN text = Port /\ done \in [Port -> BOOLEAN]
    BY DEF BridgeInv, BuffersOK
  <1>3. ASSUME NEW p \in Port, p # q
        PROVE  /\ port'[p] \in Seq(BytesOf(p)) /\ came'[p] \in Seq(BytesOf(p)) /\ InStep(p)'
               /\ ReadOf(came'[p], port'[p]) = ReadOf(came[p], port[p])
    <2>1. port[p] \in Seq(BytesOf(p)) /\ came[p] \in Seq(BytesOf(p)) /\ InStep(p)
      BY DEF BridgeInv, BuffersOK
    <2>2. port'[p] = port[p] /\ came'[p] = came[p] /\ text'[p] = text[p] /\ done'[p] = done[p]
      BY <1>1, <1>2, <1>3
    <2> QED
      BY <2>1, <2>2 DEF InStep
  <1>4. /\ port'[q] \in Seq(BytesOf(q)) /\ came'[q] \in Seq(BytesOf(q)) /\ InStep(q)'
        /\ ReadOf(came'[q], port'[q]) = ReadAfter(q)
    <2>1. port[q] \in Seq(BytesOf(q)) /\ came[q] \in Seq(BytesOf(q)) /\ Waiting(came[q], port[q])
      BY DEF BridgeInv, BuffersOK, InStep
    <2>2. ReadLength(q) \in 0 .. Len(port[q])
      BY <2>1, ReadLengthMeans
    <2>3. /\ Left(q) \in Seq(BytesOf(q)) /\ Waiting(came[q], Left(q))
          /\ ReadOf(came[q], Left(q)) = ReadAfter(q)
      BY <2>1, <2>2, StillWaiting DEF Left, ReadAfter
    <2>4. /\ port'[q] = Left(q) /\ came'[q] = came[q] /\ done'[q] = d
          /\ text'[q] = LineOf(q, ReadAfter(q))
      BY <1>1, <1>2
    <2>5. InStep(q)'
      BY <1>1, <2>3, <2>4, Zenon DEF InStep
    <2> QED
      BY <2>1, <2>3, <2>4, <2>5, Zenon
  <1>5. DOMAIN port' = Port /\ DOMAIN came' = Port /\ DOMAIN text' = Port /\ done' \in [Port -> BOOLEAN]
    BY <1>1, <1>2
  <1>6. BuffersOK'
    <2>1. \A p \in Port : port'[p] \in Seq(BytesOf(p)) /\ came'[p] \in Seq(BytesOf(p)) /\ InStep(p)'
      BY <1>3, <1>4
    <2> QED
      BY <1>5, <2>1 DEF BuffersOK
  <1> QED
    BY <1>3, <1>4, <1>6

LEMMA InvNext ==
  ASSUME BridgeInv, [Next]_vars
  PROVE  BridgeInv'
  <1>1. ASSUME NEW p \in Port, NEW c \in BytesOf(p), Arrive(p, c)
        PROVE  BridgeInv'
    BY <1>1, ArriveKeeps
  <1>2. CASE BaseSends
    <2>1. PICK d \in BOOLEAN : LoopDone("usb", "endpoint", d)
      BY <1>2, BaseSendsDoes
    <2>2. /\ sendTo' = Chosen(ReadAfter("usb"), "none") /\ at' = [at EXCEPT !["base"] = "receive"]
      BY <1>2, BaseSendsDoes
    <2>3. "usb" \in Port /\ "endpoint" \in Sketch
      BY DEF Port, Sketch
    <2>4. BuffersOK' /\ ReadOf(came'["usb"], port'["usb"]) = ReadAfter("usb")
      BY <2>1, <2>3, LoopKeeps
    <2>5. /\ driver' \in [Sketch -> Line \cup {NoPacket}]
          /\ driver'["endpoint"] # NoPacket => driver'["endpoint"].kind \in {DataReq[e] : e \in DOMAIN DataReq}
      <3>1. /\ driver \in [Sketch -> Line \cup {NoPacket}]
            /\ driver["endpoint"] # NoPacket => driver["endpoint"].kind \in {DataReq[e] : e \in DOMAIN DataReq}
        BY DEF BridgeInv, PacketsOK
      <3>2. PICK line : line = LineEnding("usb", ReadAfter("usb"))
        OBVIOUS
      <3>3. line.kind \in {DataReq[e] : e \in DOMAIN DataReq}
        BY <2>3, <3>2, SentKind
      <3>4. driver' = driver \/ (line \in Line /\ driver' = [driver EXCEPT !["endpoint"] = line])
        BY <2>1, <3>2, Zenon DEF LoopDone
      <3>5. CASE driver' = driver
        BY <3>1, <3>5
      <3>6. CASE line \in Line /\ driver' = [driver EXCEPT !["endpoint"] = line]
        <4>1. driver'["endpoint"] = line
          BY <2>3, <3>1, <3>6
        <4> QED
          BY <2>3, <3>1, <3>3, <3>6, <4>1
      <3> QED
        BY <3>4, <3>5, <3>6
    <2>6. at' \in [Sketch -> {"usb", "seaphox", "procv", "receive"}] /\ handed' = handed
      BY <2>1, <2>2, Zenon DEF BridgeInv, PacketsOK, LoopDone, Sketch
    <2>7. PacketsOK'
      BY <2>2, <2>4, <2>5, <2>6 DEF BridgeInv, PacketsOK
    <2> QED
      BY <2>4, <2>7 DEF BridgeInv
  <1>3. ASSUME NEW q \in Sensor, EndpointSends(q)
        PROVE  BridgeInv'
    <2>1. PICK d \in BOOLEAN : LoopDone(q, "base", d)
      BY <1>3, EndpointSendsDoes
    <2>2. /\ sendTo' = sendTo
          /\ at' = [at EXCEPT !["endpoint"] = IF q = "seaphox" THEN "procv" ELSE "receive"]
      BY <1>3, EndpointSendsDoes
    <2>3. q \in Port /\ "usb" \in Port /\ q # "usb" /\ "base" \in Sketch
      BY DEF Port, Sensor, Sketch
    <2>4. BuffersOK' /\ ReadOf(came'["usb"], port'["usb"]) = ReadOf(came["usb"], port["usb"])
      BY <2>1, <2>3, LoopKeeps
    <2>5. /\ driver' \in [Sketch -> Line \cup {NoPacket}]
          /\ driver'["endpoint"] = driver["endpoint"]
      <3>1. driver \in [Sketch -> Line \cup {NoPacket}]
        BY DEF BridgeInv, PacketsOK
      <3>2. PICK line : line = LineEnding(q, ReadAfter(q))
        OBVIOUS
      <3>3. driver' = driver \/ (line \in Line /\ driver' = [driver EXCEPT !["base"] = line])
        BY <2>1, <3>2, Zenon DEF LoopDone
      <3>4. CASE driver' = driver
        BY <3>1, <3>4
      <3>5. CASE line \in Line /\ driver' = [driver EXCEPT !["base"] = line]
        BY <3>1, <3>5 DEF Sketch
      <3> QED
        BY <3>3, <3>4, <3>5
    <2>6. at' \in [Sketch -> {"usb", "seaphox", "procv", "receive"}]
      BY <2>2 DEF BridgeInv, PacketsOK, Sketch
    <2>7. handed' = handed
      BY <2>1, Zenon DEF LoopDone
    <2>8. PacketsOK'
      BY <2>2, <2>4, <2>5, <2>6, <2>7 DEF BridgeInv, PacketsOK
    <2> QED
      BY <2>4, <2>8 DEF BridgeInv
  <1>4. ASSUME UNCHANGED <<port, text, done, sendTo, came>>, PacketsOK'
        PROVE  BridgeInv'
    BY <1>4 DEF BridgeInv, BuffersOK, InStep
  <1>5. CASE BaseReceives
    <2>1. /\ driver' \in [Sketch -> Line \cup {NoPacket}] /\ driver'["endpoint"] = driver["endpoint"]
      BY <1>5 DEF BridgeInv, PacketsOK, BaseReceives, Sketch
    <2>2. handed' \in [Port -> Line \cup {NoPacket}]
      <3>1. driver["base"] \in Line \cup {NoPacket} /\ handed \in [Port -> Line \cup {NoPacket}]
        BY DEF BridgeInv, PacketsOK, Sketch
      <3> QED
        BY <1>5, <3>1 DEF BaseReceives
    <2>3. at' \in [Sketch -> {"usb", "seaphox", "procv", "receive"}]
      BY <1>5 DEF BridgeInv, PacketsOK, BaseReceives, Sketch
    <2>4. UNCHANGED <<port, text, done, sendTo, came>>
      BY <1>5 DEF BaseReceives
    <2>5. PacketsOK'
      BY <2>1, <2>2, <2>3, <2>4 DEF BridgeInv, PacketsOK
    <2> QED
      BY <1>4, <2>4, <2>5
  <1>6. CASE EndpointReceives
    <2>1. driver' \in [Sketch -> Line \cup {NoPacket}] /\ driver'["endpoint"] = NoPacket
      BY <1>6 DEF BridgeInv, PacketsOK, EndpointReceives, Sketch
    <2>2. handed' \in [Port -> Line \cup {NoPacket}]
      <3>1. driver["endpoint"] \in Line \cup {NoPacket} /\ handed \in [Port -> Line \cup {NoPacket}]
        BY DEF BridgeInv, PacketsOK, Sketch
      <3>2. handed' = handed \/ handed' = [handed EXCEPT !["usb"] = driver["endpoint"]]
        BY <1>6, Zenon DEF EndpointReceives
      <3> QED
        BY <3>1, <3>2
    <2>3. at' \in [Sketch -> {"usb", "seaphox", "procv", "receive"}]
      BY <1>6 DEF BridgeInv, PacketsOK, EndpointReceives, Sketch
    <2>4. UNCHANGED <<port, text, done, sendTo, came>>
      BY <1>6 DEF EndpointReceives
    <2>5. PacketsOK'
      BY <2>1, <2>2, <2>3, <2>4 DEF BridgeInv, PacketsOK
    <2> QED
      BY <1>4, <2>4, <2>5
  <1>7. CASE UNCHANGED vars
    <2>1. UNCHANGED <<port, text, done, sendTo, came>> /\ UNCHANGED <<driver, at, handed>>
      BY <1>7 DEF vars
    <2>2. PacketsOK'
      BY <2>1 DEF BridgeInv, PacketsOK
    <2> QED
      BY <1>4, <2>1, <2>2
  <1> QED
    BY <1>1, <1>2, <1>3, <1>5, <1>6, <1>7 DEF Next, BaseStep, EndpointStep

-----------------------------------------------------------------------------
(* Every step moves each port's lines as the channel allows *)

Unmoved(p) == PendingLines(p)' = PendingLines(p) /\ OnTheWay(p)' = OnTheWay(p) /\ handed'[p] = handed[p]

Entered(p) ==
  /\ \E line \in Line : PendingLines(p)' = Append(PendingLines(p), line)
  /\ PendingLines(p) \in Seq(Line)
  /\ OnTheWay(p)' = OnTheWay(p) /\ handed'[p] = handed[p]

Sent(p) ==
  /\ PendingLines(p)' \in Seq(Line) /\ handed'[p] = handed[p]
  /\ \E line \in Line :
       /\ BeginsWith(PendingLines(p), line, PendingLines(p)')
       /\ OnTheWay(p)' = OnTheWay(p) \/ (OnTheWay(p) = {} /\ OnTheWay(p)' = {line})

Received(p) ==
  /\ PendingLines(p)' = PendingLines(p)
  /\ OnTheWay(p) # {} /\ OnTheWay(p)' = {}
  /\ IF OnTheWay(p) \subseteq Undeliverable THEN handed'[p] = handed[p] ELSE handed'[p] \in OnTheWay(p)

ChannelStep(p) == Unmoved(p) \/ Entered(p) \/ Sent(p) \/ Received(p)

LEMMA PacketKinds ==
  ASSUME NEW m \in Line
  PROVE  m.kind # "none" /\ m # NoPacket /\ NoPacket.kind = "none"
  <1>1. m.kind \in {DataReq[d] : d \in DOMAIN DataReq} \cup {DataRsp[d] : d \in DOMAIN DataRsp}
    BY DEF Line
  <1>2. m.kind # "none"
    BY <1>1 DEF DataReq, DataRsp
  <1> QED
    BY <1>2 DEF NoPacket

LEMMA PendingType ==
  ASSUME BuffersOK, NEW p \in Port
  PROVE  PendingLines(p) \in Seq(Line)
  <1>1. PICK b, r, f : b = came[p] /\ r = Len(port[p]) /\ LinesAt(f, p, b, r)
    BY DEF LinesAt
  <1>2. LinesIn(p, b, r) \in Seq(Line)
    BY <1>1, LinesAtType DEF BuffersOK
  <1> QED
    BY <1>1, <1>2, Zenon DEF PendingLines

LEMMA PendingTypeNext ==
  ASSUME BuffersOK', NEW p \in Port
  PROVE  PendingLines(p)' \in Seq(Line)
  <1>1. PICK b, r, f : b = came'[p] /\ r = Len(port'[p]) /\ LinesAt(f, p, b, r)
    BY DEF LinesAt
  <1>2. b \in Seq(BytesOf(p))
    BY <1>1 DEF BuffersOK
  <1>3. LinesIn(p, b, r) \in Seq(Line)
    BY <1>1, <1>2, LinesAtType
  <1> QED
    BY <1>1, <1>3, Zenon DEF PendingLines

LEMMA ArriveMoves ==
  ASSUME BridgeInv, NEW q \in Port, NEW c \in BytesOf(q), Arrive(q, c), NEW p \in Port
  PROVE  Unmoved(p) \/ Entered(p)
  <1>1. /\ port' = [port EXCEPT ![q] = Append(port[q], c)]
        /\ came' = [came EXCEPT ![q] = Append(came[q], c)]
        /\ driver' = driver /\ handed' = handed
    BY DEF Arrive
  <1>2. /\ DOMAIN port = Port /\ DOMAIN came = Port
        /\ port[p] \in Seq(BytesOf(p)) /\ came[p] \in Seq(BytesOf(p)) /\ Waiting(came[p], port[p])
    BY DEF BridgeInv, BuffersOK, InStep
  <1>3. OnTheWay(p)' = OnTheWay(p) /\ handed'[p] = handed[p]
    BY <1>1 DEF OnTheWay
  <1>4. CASE p # q
    <2>1. port'[p] = port[p] /\ came'[p] = came[p]
      BY <1>1, <1>2, <1>4
    <2> QED
      BY <1>3, <2>1, Zenon DEF Unmoved, PendingLines
  <1>5. CASE p = q
    <2>1. PICK b, r : b = came[p] /\ r = Len(port[p])
      OBVIOUS
    <2>2. b \in Seq(BytesOf(p)) /\ c \in BytesOf(p) /\ r \in 0 .. Len(b)
      BY <1>2, <1>5, <2>1 DEF Waiting
    <2>3. came'[p] = Append(b, c) /\ Len(port'[p]) = r + 1
      BY <1>1, <1>2, <1>5, <2>1
    <2>4. \/ LinesIn(p, Append(b, c), r + 1) = LinesIn(p, b, r)
          \/ \E line \in Line : LinesIn(p, Append(b, c), r + 1) = Append(LinesIn(p, b, r), line)
      BY <2>2, LinesArrive
    <2>5. PendingLines(p) = LinesIn(p, b, r) /\ PendingLines(p)' = LinesIn(p, Append(b, c), r + 1)
      BY <2>1, <2>3, Zenon DEF PendingLines
    <2>6. PendingLines(p) \in Seq(Line)
      BY PendingType DEF BridgeInv
    <2> QED
      BY <1>3, <2>4, <2>5, <2>6, Zenon DEF Unmoved, Entered
  <1> QED
    BY <1>4, <1>5

\* A run of the loop at q takes a line of q at most, and leaves the others alone.
LEMMA LoopMoves ==
  ASSUME BridgeInv, BuffersOK', NEW q \in Port, NEW to \in Sketch, NEW d \in BOOLEAN, LoopDone(q, to, d),
         to = (IF q = "usb" THEN "endpoint" ELSE "base"), NEW p \in Port
  PROVE  Unmoved(p) \/ Sent(p)
  <1>1. PICK line : line = LineEnding(q, ReadAfter(q))
    OBVIOUS
  <1>2. /\ port' = [port EXCEPT ![q] = Left(q)] /\ came' = came /\ handed' = handed
        /\ \/ driver' = driver /\ PendingLines(q) = LinesIn(q, came[q], Len(Left(q)))
           \/ /\ BeginsWith(PendingLines(q), line, LinesIn(q, came[q], Len(Left(q))))
              /\ line \in Line
              /\ driver' = driver \/ (driver[to].kind = "none" /\ driver' = [driver EXCEPT ![to] = line])
    BY <1>1, Zenon DEF LoopDone
  <1>3. DOMAIN port = Port /\ driver \in [Sketch -> Line \cup {NoPacket}]
    BY DEF BridgeInv, BuffersOK, PacketsOK
  <1>4. /\ q = "usb" => line.kind \in {DataReq[e] : e \in DOMAIN DataReq}
        /\ q # "usb" => line.kind = DataRsp[q]
    BY <1>1, SentKind
  <1>5. handed'[p] = handed[p]
    BY <1>2
  <1>6. driver' = driver => OnTheWay(p)' = OnTheWay(p)
    BY DEF OnTheWay
  <1>7. ASSUME line \in Line, driver[to].kind = "none", driver' = [driver EXCEPT ![to] = line]
        PROVE  IF p = q THEN OnTheWay(p) = {} /\ OnTheWay(p)' = {line} ELSE OnTheWay(p)' = OnTheWay(p)
    <2>0. line.kind # "none" /\ line # NoPacket /\ driver[to] = NoPacket
      BY <1>3, <1>7, PacketKinds
    <2>1. driver'[to] = line /\ \A s \in Sketch : s # to => driver'[s] = driver[s]
      BY <1>3, <1>7
    <2>2. CASE p = "usb" /\ q = "usb"
      <3>1. driver["endpoint"] = NoPacket /\ driver'["endpoint"] = line
        BY <2>0, <2>1, <2>2
      <3> QED
        BY <2>0, <2>2, <3>1 DEF OnTheWay
    <2>3. CASE p = "usb" /\ q # "usb"
      <3>1. driver'["endpoint"] = driver["endpoint"]
        BY <2>1, <2>3 DEF Sketch
      <3> QED
        BY <2>3, <3>1 DEF OnTheWay
    <2>4. CASE p # "usb" /\ q = "usb"
      <3>1. driver'["base"] = driver["base"]
        BY <2>1, <2>4 DEF Sketch
      <3> QED
        BY <2>4, <3>1 DEF OnTheWay
    <2>5. CASE p # "usb" /\ q # "usb"
      <3>1. driver["base"] = NoPacket /\ driver'["base"] = line /\ line.kind = DataRsp[q]
        BY <1>4, <2>0, <2>1, <2>5
      <3>2. p \in Sensor /\ q \in Sensor
        BY <2>5 DEF Port
      <3>3. NoPacket.kind = "none" /\ DataRsp[p] # "none"
        BY <3>2, KindsOfLines DEF NoPacket
      <3>4. p # q => DataRsp[p] # DataRsp[q]
        BY <3>2, KindsOfLines DEF Sensor
      <3>5. OnTheWay(p) = {m \in {NoPacket} : m.kind = DataRsp[p]}
        BY <2>5, <3>1 DEF OnTheWay
      <3>6. OnTheWay(p)' = {m \in {line} : m.kind = DataRsp[p]}
        BY <2>5, <3>1 DEF OnTheWay
      <3>7. OnTheWay(p) = {}
        BY <3>3, <3>5
      <3>8. CASE p = q
        BY <3>1, <3>6, <3>7, <3>8
      <3>9. CASE p # q
        BY <3>1, <3>4, <3>6, <3>7, <3>9
      <3> QED
        BY <3>8, <3>9
    <2> QED
      BY <2>2, <2>3, <2>4, <2>5
  <1>8. CASE p # q
    <2>1. port'[p] = port[p] /\ came'[p] = came[p]
      BY <1>2, <1>3, <1>8
    <2>2. PendingLines(p)' = PendingLines(p)
      BY <2>1, Zenon DEF PendingLines
    <2>3. OnTheWay(p)' = OnTheWay(p)
      BY <1>2, <1>6, <1>7, <1>8
    <2> QED
      BY <1>5, <2>2, <2>3, Zenon DEF Unmoved
  <1>9. CASE p = q
    <2>1. PendingLines(p)' = LinesIn(p, came[p], Len(Left(p)))
      <3>1. port'[p] = Left(p) /\ came'[p] = came[p]
        BY <1>2, <1>3, <1>9
      <3> QED
        BY <3>1, Zenon DEF PendingLines
    <2>2. PendingLines(p)' \in Seq(Line)
      BY PendingTypeNext
    <2>3. CASE driver' = driver /\ PendingLines(q) = LinesIn(q, came[q], Len(Left(q)))
      BY <1>5, <1>6, <1>9, <2>1, <2>3, Zenon DEF Unmoved
    <2>4. CASE /\ BeginsWith(PendingLines(q), line, LinesIn(q, came[q], Len(Left(q))))
               /\ line \in Line
               /\ driver' = driver \/ (driver[to].kind = "none" /\ driver' = [driver EXCEPT ![to] = line])
      <3>1. BeginsWith(PendingLines(p), line, PendingLines(p)')
        BY <1>9, <2>1, <2>4, Zenon
      <3>2. OnTheWay(p)' = OnTheWay(p) \/ (OnTheWay(p) = {} /\ OnTheWay(p)' = {line})
        BY <1>6, <1>7, <1>9, <2>4, Zenon
      <3> QED
        BY <1>5, <2>2, <2>4, <3>1, <3>2, Zenon DEF Sent
    <2> QED
      BY <1>2, <2>3, <2>4, Zenon
  <1> QED
    BY <1>8, <1>9

LEMMA BaseReceivesMoves ==
  ASSUME BridgeInv, BaseReceives, NEW p \in Port
  PROVE  Unmoved(p) \/ Received(p)
  <1>1. /\ driver' = [driver EXCEPT !["base"] = NoPacket] /\ port' = port /\ came' = came
        /\ handed' = [o \in Port |-> IF o \in Sensor /\ driver["base"].kind = DataRsp[o]
                                       THEN driver["base"] ELSE handed[o]]
    BY DEF BaseReceives
  <1>2. driver \in [Sketch -> Line \cup {NoPacket}] /\ "base" \in Sketch /\ "endpoint" \in Sketch
    BY DEF BridgeInv, PacketsOK, Sketch
  <1>3. PendingLines(p)' = PendingLines(p)
    BY <1>1, Zenon DEF PendingLines
  <1>4. driver'["base"] = NoPacket /\ driver'["endpoint"] = driver["endpoint"]
    BY <1>1, <1>2
  <1>5. handed'[p] = IF p \in Sensor /\ driver["base"].kind = DataRsp[p] THEN driver["base"] ELSE handed[p]
    BY <1>1
  <1>6. CASE p = "usb"
    <2>1. OnTheWay(p)' = OnTheWay(p)
      BY <1>4, <1>6 DEF OnTheWay
    <2>2. handed'[p] = handed[p]
      BY <1>5, <1>6 DEF Sensor
    <2> QED
      BY <1>3, <2>1, <2>2, Zenon DEF Unmoved
  <1>7. CASE p # "usb"
    <2>0. p \in Sensor
      BY <1>7 DEF Port
    <2>1. OnTheWay(p) = {m \in {driver["base"]} : m.kind = DataRsp[p]}
      BY <1>7 DEF OnTheWay
    <2>2. OnTheWay(p)' = {}
      <3>1. OnTheWay(p)' = {m \in {NoPacket} : m.kind = DataRsp[p]}
        BY <1>4, <1>7 DEF OnTheWay
      <3>2. NoPacket.kind # DataRsp[p]
        BY <2>0, KindsOfLines DEF NoPacket
      <3> QED
        BY <3>1, <3>2
    <2>3. CASE driver["base"].kind = DataRsp[p]
      <3>1. OnTheWay(p) = {driver["base"]} /\ handed'[p] = driver["base"]
        BY <1>5, <2>0, <2>1, <2>3
      <3>2. ~(OnTheWay(p) \subseteq Undeliverable)
        <4>1. driver["base"].kind # "dataReq"
          BY <2>0, <2>3, KindsOfLines
        <4> QED
          BY <3>1, <4>1 DEF Undeliverable
      <3>3. OnTheWay(p) # {} /\ handed'[p] \in OnTheWay(p)
        BY <3>1
      <3> QED
        BY <1>3, <2>2, <3>2, <3>3, Zenon DEF Received
    <2>4. CASE driver["base"].kind # DataRsp[p]
      <3>1. OnTheWay(p) = {} /\ handed'[p] = handed[p]
        BY <1>5, <2>1, <2>4
      <3> QED
        BY <1>3, <2>2, <3>1, Zenon DEF Unmoved
    <2> QED
      BY <2>3, <2>4
  <1> QED
    BY <1>6, <1>7

LEMMA EndpointReceivesMoves ==
  ASSUME BridgeInv, EndpointReceives, NEW p \in Port
  PROVE  Unmoved(p) \/ Received(p)
  <1>1. /\ driver' = [driver EXCEPT !["endpoint"] = NoPacket] /\ port' = port /\ came' = came
        /\ handed' = IF driver["endpoint"].kind \in {DataReq[e] : e \in Sensor}
                       THEN [handed EXCEPT !["usb"] = driver["endpoint"]] ELSE handed
    BY DEF EndpointReceives
  <1>2. /\ driver \in [Sketch -> Line \cup {NoPacket}] /\ handed \in [Port -> Line \cup {NoPacket}]
        /\ driver["endpoint"] # NoPacket => driver["endpoint"].kind \in {DataReq[e] : e \in DOMAIN DataReq}
        /\ "base" \in Sketch /\ "endpoint" \in Sketch
    BY DEF BridgeInv, PacketsOK, Sketch
  <1>3. PendingLines(p)' = PendingLines(p)
    BY <1>1, Zenon DEF PendingLines
  <1>4. driver'["endpoint"] = NoPacket /\ driver'["base"] = driver["base"]
    BY <1>1, <1>2
  <1>5. CASE p # "usb"
    <2>1. OnTheWay(p)' = OnTheWay(p)
      BY <1>4, <1>5 DEF OnTheWay
    <2>2. handed'[p] = handed[p]
      BY <1>1, <1>2, <1>5
    <2> QED
      BY <1>3, <2>1, <2>2, Zenon DEF Unmoved
  <1>6. CASE p = "usb"
    <2>0. PICK m : m = driver["endpoint"]
      OBVIOUS
    <2>1. OnTheWay(p) = {m} \ {NoPacket} /\ OnTheWay(p)' = {}
      BY <1>4, <1>6, <2>0 DEF OnTheWay
    <2>2. CASE m = NoPacket
      <3>1. m.kind \notin {DataReq[e] : e \in Sensor}
        BY <2>2 DEF NoPacket, DataReq, Sensor
      <3>2. handed'[p] = handed[p]
        BY <1>1, <2>0, <3>1
      <3>3. OnTheWay(p)' = OnTheWay(p)
        BY <2>1, <2>2
      <3> QED
        BY <1>3, <3>2, <3>3, Zenon DEF Unmoved
    <2>3. CASE m # NoPacket /\ m.kind = "dataReq"
      <3>1. m.kind \notin {DataReq[e] : e \in Sensor} /\ m \in Line
        BY <1>2, <2>0, <2>3 DEF DataReq, Sensor
      <3>2. handed'[p] = handed[p]
        BY <1>1, <2>0, <3>1
      <3>3. OnTheWay(p) # {} /\ OnTheWay(p) \subseteq Undeliverable
        BY <2>1, <2>3, <3>1 DEF Undeliverable
      <3> QED
        BY <1>3, <2>1, <3>2, <3>3, Zenon DEF Received
    <2>4. CASE m # NoPacket /\ m.kind # "dataReq"
      <3>1. m.kind \in {DataReq[e] : e \in Sensor}
        BY <1>2, <2>0, <2>4 DEF DataReq, Sensor
      <3>2. handed'[p] = m
        BY <1>1, <1>2, <1>6, <2>0, <3>1
      <3>3. OnTheWay(p) = {m}
        BY <2>1, <2>4
      <3>4. ~(OnTheWay(p) \subseteq Undeliverable)
        BY <2>4, <3>3 DEF Undeliverable
      <3>5. OnTheWay(p) # {} /\ handed'[p] \in OnTheWay(p)
        BY <3>2, <3>3
      <3> QED
        BY <1>3, <2>1, <3>4, <3>5, Zenon DEF Received
    <2> QED
      BY <2>2, <2>3, <2>4
  <1> QED
    BY <1>5, <1>6

LEMMA StepMoves ==
  ASSUME BridgeInv, [Next]_vars, NEW p \in Port
  PROVE  ChannelStep(p)
  <1>1. ASSUME NEW q \in Port, NEW c \in BytesOf(q), Arrive(q, c)
        PROVE  ChannelStep(p)
    BY <1>1, ArriveMoves, Zenon DEF ChannelStep
  <1>2. BuffersOK'
    BY InvNext DEF BridgeInv
  <1>3. CASE BaseSends
    <2>1. PICK d \in BOOLEAN : LoopDone("usb", "endpoint", d)
      BY <1>3, BaseSendsDoes
    <2>2. "usb" \in Port /\ "endpoint" \in Sketch
      BY DEF Port, Sketch
    <2>3. Unmoved(p) \/ Sent(p)
      BY <1>2, <2>1, <2>2, LoopMoves
    <2> QED
      BY <2>3, Zenon DEF ChannelStep
  <1>4. ASSUME NEW q \in Sensor, EndpointSends(q)
        PROVE  ChannelStep(p)
    <2>1. PICK d \in BOOLEAN : LoopDone(q, "base", d)
      BY <1>4, EndpointSendsDoes
    <2>2. q \in Port /\ q # "usb" /\ "base" \in Sketch
      BY DEF Port, Sensor, Sketch
    <2>3. Unmoved(p) \/ Sent(p)
      BY <1>2, <2>1, <2>2, LoopMoves
    <2> QED
      BY <2>3, Zenon DEF ChannelStep
  <1>5. CASE BaseReceives
    BY <1>5, BaseReceivesMoves, Zenon DEF ChannelStep
  <1>6. CASE EndpointReceives
    BY <1>6, EndpointReceivesMoves, Zenon DEF ChannelStep
  <1>7. CASE UNCHANGED vars
    <2>1. port' = port /\ came' = came /\ driver' = driver /\ handed' = handed
      BY <1>7 DEF vars
    <2>2. PendingLines(p)' = PendingLines(p)
      BY <2>1, Zenon DEF PendingLines
    <2>3. OnTheWay(p)' = OnTheWay(p) /\ handed'[p] = handed[p]
      BY <2>1, Zenon DEF OnTheWay
    <2> QED
      BY <2>2, <2>3, Zenon DEF Unmoved, ChannelStep
  <1> QED
    BY <1>1, <1>3, <1>4, <1>5, <1>6, <1>7 DEF Next, BaseStep, EndpointStep

LEMMA InitEmpty ==
  ASSUME Init, NEW p \in Port
  PROVE  PendingLines(p) = <<>> /\ OnTheWay(p) = {} /\ handed[p] = NoPacket
  <1>1. came[p] = <<>> /\ handed[p] = NoPacket /\ driver["base"] = NoPacket /\ driver["endpoint"] = NoPacket
    BY DEF Init, Sketch
  <1>2. PICK f, r : LinesAt(f, p, <<>>, r) /\ r = Len(port[p])
    BY DEF LinesAt
  <1>3. f \in [1 .. 0 -> {<<>>}]
    BY <1>2 DEF LinesAt
  <1>4. Joined(f) = <<>>
    BY <1>3, JoinedEmpty
  <1>5. PendingLines(p) = <<>>
    BY <1>1, <1>2, <1>4, LinesInPieces, Zenon DEF PendingLines
  <1>6. OnTheWay(p) = {}
    <2>1. CASE p = "usb"
      BY <1>1, <2>1 DEF OnTheWay
    <2>2. CASE p # "usb"
      <3>1. NoPacket.kind = "none" /\ DataRsp[p] # "none"
        BY <2>2, KindsOfLines DEF NoPacket, Port
      <3> QED
        BY <1>1, <2>2, <3>1 DEF OnTheWay
    <2> QED
      BY <2>1, <2>2
  <1> QED
    BY <1>1, <1>5, <1>6

-----------------------------------------------------------------------------
(* These moves are the channel's *)

LEMMA LastEntered ==
  ASSUME NEW S, NEW q \in Seq(S), NEW line \in S
  PROVE  LET r == Append(q, line) IN Len(r) = Len(q) + 1 /\ r[Len(r)] = line
  OBVIOUS

LEMMA FirstSent ==
  ASSUME NEW S, NEW line \in S, NEW r \in Seq(S), NEW q, BeginsWith(q, line, r)
  PROVE  q # <<>> /\ r = Tail(q) /\ Head(q) = line
  BY DEF BeginsWith

LEMMA UsbMoves ==
  ASSUME ChannelStep("usb")
  PROVE  [Usb!Next]_<<PendingLines("usb"), OnTheWay("usb"), handed["usb"]>>
  <1>1. CASE Unmoved("usb")
    BY <1>1, Zenon DEF Unmoved
  <1>2. CASE Entered("usb")
    <2>1. PICK line \in Line : PendingLines("usb")' = Append(PendingLines("usb"), line)
      BY <1>2, Zenon DEF Entered
    <2>2. /\ Len(Append(PendingLines("usb"), line)) = Len(PendingLines("usb")) + 1
          /\ Append(PendingLines("usb"), line)[Len(Append(PendingLines("usb"), line))] = line
      BY <1>2, LastEntered DEF Entered
    <2>3. Usb!Enter
      BY <1>2, <2>1, <2>2, Zenon DEF Entered, Usb!Enter
    <2> QED
      BY <2>3, Zenon DEF Usb!Next
  <1>3. CASE Sent("usb")
    <2>1. PICK line \in Line :
            /\ BeginsWith(PendingLines("usb"), line, PendingLines("usb")')
            /\ \/ OnTheWay("usb")' = OnTheWay("usb")
               \/ OnTheWay("usb") = {} /\ OnTheWay("usb")' = {line}
      BY <1>3, Zenon DEF Sent
    <2>2. /\ PendingLines("usb") # <<>> /\ PendingLines("usb")' = Tail(PendingLines("usb"))
          /\ Head(PendingLines("usb")) = line
      BY <1>3, <2>1, FirstSent DEF Sent
    <2>3. Usb!Send
      BY <1>3, <2>1, <2>2, Zenon DEF Sent, Usb!Send
    <2> QED
      BY <2>3, Zenon DEF Usb!Next
  <1>4. CASE Received("usb")
    <2>1. Usb!Receive
      BY <1>4, Zenon DEF Received, Usb!Receive
    <2> QED
      BY <2>1, Zenon DEF Usb!Next
  <1> QED
    BY <1>1, <1>2, <1>3, <1>4 DEF ChannelStep

LEMMA SeapHOxMoves ==
  ASSUME ChannelStep("seaphox")
  PROVE  [SeapHOx!Next]_<<PendingLines("seaphox"), OnTheWay("seaphox"), handed["seaphox"]>>
  <1>1. CASE Unmoved("seaphox")
    BY <1>1, Zenon DEF Unmoved
  <1>2. CASE Entered("seaphox")
    <2>1. PICK line \in Line : PendingLines("seaphox")' = Append(PendingLines("seaphox"), line)
      BY <1>2, Zenon DEF Entered
    <2>2. /\ Len(Append(PendingLines("seaphox"), line)) = Len(PendingLines("seaphox")) + 1
          /\ Append(PendingLines("seaphox"), line)[Len(Append(PendingLines("seaphox"), line))] = line
      BY <1>2, LastEntered DEF Entered
    <2>3. SeapHOx!Enter
      BY <1>2, <2>1, <2>2, Zenon DEF Entered, SeapHOx!Enter
    <2> QED
      BY <2>3, Zenon DEF SeapHOx!Next
  <1>3. CASE Sent("seaphox")
    <2>1. PICK line \in Line :
            /\ BeginsWith(PendingLines("seaphox"), line, PendingLines("seaphox")')
            /\ \/ OnTheWay("seaphox")' = OnTheWay("seaphox")
               \/ OnTheWay("seaphox") = {} /\ OnTheWay("seaphox")' = {line}
      BY <1>3, Zenon DEF Sent
    <2>2. /\ PendingLines("seaphox") # <<>> /\ PendingLines("seaphox")' = Tail(PendingLines("seaphox"))
          /\ Head(PendingLines("seaphox")) = line
      BY <1>3, <2>1, FirstSent DEF Sent
    <2>3. SeapHOx!Send
      BY <1>3, <2>1, <2>2, Zenon DEF Sent, SeapHOx!Send
    <2> QED
      BY <2>3, Zenon DEF SeapHOx!Next
  <1>4. CASE Received("seaphox")
    <2>1. SeapHOx!Receive
      BY <1>4, Zenon DEF Received, SeapHOx!Receive
    <2> QED
      BY <2>1, Zenon DEF SeapHOx!Next
  <1> QED
    BY <1>1, <1>2, <1>3, <1>4 DEF ChannelStep

LEMMA ProCVMoves ==
  ASSUME ChannelStep("procv")
  PROVE  [ProCV!Next]_<<PendingLines("procv"), OnTheWay("procv"), handed["procv"]>>
  <1>1. CASE Unmoved("procv")
    BY <1>1, Zenon DEF Unmoved
  <1>2. CASE Entered("procv")
    <2>1. PICK line \in Line : PendingLines("procv")' = Append(PendingLines("procv"), line)
      BY <1>2, Zenon DEF Entered
    <2>2. /\ Len(Append(PendingLines("procv"), line)) = Len(PendingLines("procv")) + 1
          /\ Append(PendingLines("procv"), line)[Len(Append(PendingLines("procv"), line))] = line
      BY <1>2, LastEntered DEF Entered
    <2>3. ProCV!Enter
      BY <1>2, <2>1, <2>2, Zenon DEF Entered, ProCV!Enter
    <2> QED
      BY <2>3, Zenon DEF ProCV!Next
  <1>3. CASE Sent("procv")
    <2>1. PICK line \in Line :
            /\ BeginsWith(PendingLines("procv"), line, PendingLines("procv")')
            /\ \/ OnTheWay("procv")' = OnTheWay("procv")
               \/ OnTheWay("procv") = {} /\ OnTheWay("procv")' = {line}
      BY <1>3, Zenon DEF Sent
    <2>2. /\ PendingLines("procv") # <<>> /\ PendingLines("procv")' = Tail(PendingLines("procv"))
          /\ Head(PendingLines("procv")) = line
      BY <1>3, <2>1, FirstSent DEF Sent
    <2>3. ProCV!Send
      BY <1>3, <2>1, <2>2, Zenon DEF Sent, ProCV!Send
    <2> QED
      BY <2>3, Zenon DEF ProCV!Next
  <1>4. CASE Received("procv")
    <2>1. ProCV!Receive
      BY <1>4, Zenon DEF Received, ProCV!Receive
    <2> QED
      BY <2>1, Zenon DEF ProCV!Next
  <1> QED
    BY <1>1, <1>2, <1>3, <1>4 DEF ChannelStep

-----------------------------------------------------------------------------
(* The theorems *)

LEMMA BridgeInvariant == Spec => []BridgeInv
  <1>1. Init => BridgeInv
    BY InvInit
  <1>2. BridgeInv /\ [Next]_vars => BridgeInv'
    BY InvNext
  <1> QED
    BY <1>1, <1>2, PTL DEF Spec

\* The serial buffers, the line buffers, the drivers and the packets handed over
\* keep their types whatever arrives: a packet in a driver is always a whole line
\* with a type of the lightweight protocol.
THEOREM TypeCorrect == Spec => []TypeOK
  <1>1. BridgeInv => TypeOK
    BY InvTypes
  <1> QED
    BY <1>1, BridgeInvariant, PTL

\* The base's USB port implements the channel: each typed line is sent once,
\* whole and in order, with the type of the sensor that was chosen before its
\* end, however the bytes are split among the runs of loop(), and its sensor is
\* handed the whole line or nothing.
THEOREM UsbRefinement == Spec => UsbLinesArriveWhole
  <1>1. Init => Usb!Init
    BY InitEmpty DEF Usb!Init, Port
  <1>2. BridgeInv /\ [Next]_vars => [Usb!Next]_<<PendingLines("usb"), OnTheWay("usb"), handed["usb"]>>
    BY StepMoves, UsbMoves DEF Port
  <1> QED
    BY <1>1, <1>2, BridgeInvariant, PTL DEF Spec, UsbLinesArriveWhole, Usb!Spec

\* Each sensor's port implements the channel too, though one radio and one
\* driver carry the lines of both: no line holds bytes of the other sensor, none
\* is cut or sent twice, and each is printed under its own sensor's type.
THEOREM SensorRefinement == Spec => SensorLinesArriveWhole
  <1>1. Init => SeapHOx!Init /\ ProCV!Init
    BY InitEmpty DEF SeapHOx!Init, ProCV!Init, Port, Sensor
  <1>2. BridgeInv /\ [Next]_vars =>
          [SeapHOx!Next]_<<PendingLines("seaphox"), OnTheWay("seaphox"), handed["seaphox"]>>
    BY StepMoves, SeapHOxMoves DEF Port, Sensor
  <1>3. BridgeInv /\ [Next]_vars =>
          [ProCV!Next]_<<PendingLines("procv"), OnTheWay("procv"), handed["procv"]>>
    BY StepMoves, ProCVMoves DEF Port, Sensor
  <1> QED
    BY <1>1, <1>2, <1>3, BridgeInvariant, PTL
       DEF Spec, SensorLinesArriveWhole, SeapHOx!Spec, ProCV!Spec

=============================================================================
