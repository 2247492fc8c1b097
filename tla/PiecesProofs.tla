----------------------------- MODULE PiecesProofs -----------------------------
(***************************************************************************)
(* Facts about sequences that are joined from pieces.  FlattenSeq is a       *)
(* recursive function: the lemmas about it rest on induction over Nat, in    *)
(* the form "a set that has 0 and the successor of each member is Nat".      *)
(***************************************************************************)
EXTENDS Pieces, WellFoundedInduction, TLAPS

LEMMA Least ==
  ASSUME NEW T \in SUBSET Nat, T # {}
  PROVE  \E x \in T : \A y \in T : x <= y
  <1> DEFINE R == OpToRel(<, Nat)
  <1>1. IsWellFoundedOn(R, Nat)
    BY NatLessThanWellFounded
  <1> HIDE DEF R
  <1>2. \E x \in T : \A y \in T : ~(<<y, x>> \in R)
    BY <1>1, WFMin
  <1>3. \A x, y \in Nat : <<y, x>> \in R <=> y < x
    BY DEF OpToRel, R
  <1>4. \E x \in T : \A y \in T : ~(y < x)
    BY <1>2, <1>3, Zenon
  <1> QED
    BY <1>4

LEMMA Induction ==
  ASSUME NEW S \in SUBSET Nat, 0 \in S, \A n \in S : n + 1 \in S
  PROVE  S = Nat
  <1> SUFFICES ASSUME S # Nat PROVE FALSE
    OBVIOUS
  <1>1. PICK x \in Nat \ S : \A y \in Nat \ S : x <= y
    <2> DEFINE T == Nat \ S
    <2>1. T # {} /\ T \in SUBSET Nat
      OBVIOUS
    <2> HIDE DEF T
    <2>2. \E x \in T : \A y \in T : x <= y
      BY <2>1, Least
    <2> QED
      BY <2>2 DEF T
  <1>2. x # 0 /\ x - 1 \in Nat /\ (x - 1) + 1 = x
    BY <1>1
  <1>3. x - 1 \in S
    BY <1>1, <1>2
  <1> QED
    BY <1>1, <1>2, <1>3

LEMMA Greatest ==
  ASSUME NEW n \in Nat, NEW T \in SUBSET (0 .. n), T # {}
  PROVE  \E x \in T : \A y \in T : y <= x
  <1> DEFINE U == {k \in Nat : \A y \in T : y <= k}
  <1>1. n \in U
    OBVIOUS
  <1>2. PICK k \in U : \A l \in U : k <= l
    <2>1. U \in SUBSET Nat /\ U # {}
      BY <1>1
    <2> HIDE DEF U
    <2> QED
      BY <2>1, Least
  <1>3. k \in T
    <2> SUFFICES ASSUME k \notin T PROVE FALSE
      OBVIOUS
    <2>1. \A y \in T : y \in Nat /\ y <= k /\ y # k
      BY <1>2
    <2>2. k # 0
      <3>1. PICK z \in T : z <= k /\ z # k /\ z \in Nat
        BY <2>1
      <3> QED
        BY <3>1
    <2>3. k - 1 \in U
      BY <2>1, <2>2
    <2> QED
      BY <1>2, <2>3
  <1> QED
    BY <1>2, <1>3

-----------------------------------------------------------------------------
(* FlattenSeq *)

\* f[i] is the first i of seqs joined, up to n.
PrefixJoins(f, seqs, n) ==
  f = [i \in 1 .. n |-> IF i = 1 THEN seqs[i] ELSE f[i - 1] \o seqs[i]]

LEMMA PrefixesAt ==
  ASSUME NEW seqs, NEW n, NEW f, PrefixJoins(f, seqs, n), NEW i \in 1 .. n
  PROVE  f[i] = IF i = 1 THEN seqs[i] ELSE f[i - 1] \o seqs[i]
  BY DEF PrefixJoins

LEMMA FlattenIsLastPrefix ==
  ASSUME NEW seqs, Len(seqs) # 0, \E f : PrefixJoins(f, seqs, Len(seqs))
  PROVE  \E f : PrefixJoins(f, seqs, Len(seqs)) /\ FlattenSeq(seqs) = f[Len(seqs)]
  <1> DEFINE first == CHOOSE f : f = [i \in 1 .. Len(seqs) |->
                        IF i = 1 THEN seqs[i] ELSE f[i - 1] \o seqs[i]]
  <1>1. PrefixJoins(first, seqs, Len(seqs))
    BY DEF PrefixJoins
  <1>2. FlattenSeq(seqs) = first[Len(seqs)]
    BY DEF FlattenSeq
  <1> QED
    BY <1>1, <1>2

LEMMA PrefixesExist ==
  ASSUME NEW S, NEW seqs \in Seq(Seq(S))
  PROVE  \E f \in [1 .. Len(seqs) -> Seq(S)] : PrefixJoins(f, seqs, Len(seqs))
  <1> DEFINE N == {n \in Nat : n <= Len(seqs) => \E f \in [1 .. n -> Seq(S)] : PrefixJoins(f, seqs, n)}
  <1>1. 0 \in N
    <2> DEFINE f == [i \in 1 .. 0 |-> <<>>]
    <2>1. f \in [1 .. 0 -> Seq(S)] /\ PrefixJoins(f, seqs, 0)
      BY DEF PrefixJoins
    <2> QED
      BY <2>1
  <1>2. ASSUME NEW n \in N
        PROVE  n + 1 \in N
    <2> SUFFICES ASSUME n + 1 <= Len(seqs)
                 PROVE  \E f \in [1 .. n + 1 -> Seq(S)] : PrefixJoins(f, seqs, n + 1)
      OBVIOUS
    <2>1. PICK f \in [1 .. n -> Seq(S)] : PrefixJoins(f, seqs, n)
      OBVIOUS
    <2> DEFINE last == IF n = 0 THEN seqs[1] ELSE f[n] \o seqs[n + 1]
               g == [i \in 1 .. n + 1 |-> IF i = n + 1 THEN last ELSE f[i]]
    <2>2. last \in Seq(S)
      <3>1. seqs[n + 1] \in Seq(S)
        OBVIOUS
      <3>2. n # 0 => f[n] \in Seq(S)
        OBVIOUS
      <3> QED
        BY <3>1, <3>2
    <2>3. last = IF n + 1 = 1 THEN seqs[n + 1] ELSE f[n] \o seqs[n + 1]
      OBVIOUS
    <2> HIDE DEF last
    <2>4. g \in [1 .. n + 1 -> Seq(S)]
      BY <2>2
    <2>5. ASSUME NEW i \in 1 .. n + 1
          PROVE  g[i] = IF i = 1 THEN seqs[i] ELSE g[i - 1] \o seqs[i]
      <3>1. i # 1 => i - 1 \in 1 .. n /\ g[i - 1] = f[i - 1]
        OBVIOUS
      <3>2. CASE i \in 1 .. n
        <4>1. f[i] = IF i = 1 THEN seqs[i] ELSE f[i - 1] \o seqs[i]
          <5>1. \A j \in 1 .. n : f[j] = IF j = 1 THEN seqs[j] ELSE f[j - 1] \o seqs[j]
            BY <2>1 DEF PrefixJoins
          <5> QED
            BY <3>2, <5>1
        <4>2. g[i] = f[i]
          BY <3>2
        <4> HIDE DEF g
        <4> QED
          BY <3>1, <4>1, <4>2
      <3>3. CASE i = n + 1
        <4>1. g[i] = last
          BY <3>3
        <4>2. i - 1 = n
          BY <3>3
        <4> HIDE DEF g
        <4> QED
          BY <2>3, <3>1, <3>3, <4>1, <4>2
      <3> QED
        BY <3>2, <3>3
    <2>6. PrefixJoins(g, seqs, n + 1)
      BY <2>5 DEF PrefixJoins
    <2> QED
      BY <2>4, <2>6
  <1> HIDE DEF N
  <1>3. N = Nat
    <2>1. N \in SUBSET Nat
      BY DEF N
    <2> QED
      BY <1>1, <1>2, <2>1, Induction
  <1>4. \A n \in Nat : n <= Len(seqs) => \E f \in [1 .. n -> Seq(S)] : PrefixJoins(f, seqs, n)
    BY <1>3, Zenon DEF N
  <1> QED
    BY <1>4

LEMMA PrefixesAgree ==
  ASSUME NEW n \in Nat, NEW m \in Nat, n <= m, NEW seqs, NEW more, NEW f, NEW g,
         \A i \in 1 .. n : seqs[i] = more[i], PrefixJoins(f, seqs, n), PrefixJoins(g, more, m)
  PROVE  \A i \in 1 .. n : f[i] = g[i]
  <1> DEFINE N == {i \in Nat : i \in 1 .. n => f[i] = g[i]}
  <1>1. 0 \in N
    OBVIOUS
  <1>2. ASSUME NEW i \in N
        PROVE  i + 1 \in N
    <2> SUFFICES ASSUME i + 1 \in 1 .. n PROVE f[i + 1] = g[i + 1]
      OBVIOUS
    <2>1. f[i + 1] = IF i + 1 = 1 THEN seqs[i + 1] ELSE f[(i + 1) - 1] \o seqs[i + 1]
      BY PrefixesAt
    <2>2. g[i + 1] = IF i + 1 = 1 THEN more[i + 1] ELSE g[(i + 1) - 1] \o more[i + 1]
      <3>1. i + 1 \in 1 .. m
        OBVIOUS
      <3> QED
        BY <3>1, PrefixesAt
    <2>3. i # 0 => f[i] = g[i]
      OBVIOUS
    <2>4. (i + 1) - 1 = i /\ (i + 1 = 1 <=> i = 0)
      OBVIOUS
    <2> QED
      BY <2>1, <2>2, <2>3, <2>4
  <1> HIDE DEF N
  <1>3. N = Nat
    <2>1. N \in SUBSET Nat
      BY DEF N
    <2> QED
      BY <1>1, <1>2, <2>1, Induction
  <1> QED
    BY <1>3 DEF N

\* The sequences of seqs joined are a sequence.
LEMMA FlattenType ==
  ASSUME NEW S, NEW seqs \in Seq(Seq(S))
  PROVE  FlattenSeq(seqs) \in Seq(S)
  <1>1. CASE Len(seqs) = 0
    BY <1>1 DEF FlattenSeq
  <1>2. CASE Len(seqs) # 0
    <2>1. PICK f \in [1 .. Len(seqs) -> Seq(S)] : PrefixJoins(f, seqs, Len(seqs))
      BY PrefixesExist
    <2>2. PICK g : PrefixJoins(g, seqs, Len(seqs)) /\ FlattenSeq(seqs) = g[Len(seqs)]
      BY <1>2, <2>1, FlattenIsLastPrefix
    <2>3. f[Len(seqs)] = g[Len(seqs)]
      BY <1>2, <2>1, <2>2, PrefixesAgree
    <2>4. f[Len(seqs)] \in Seq(S)
      BY <1>2
    <2> QED
      BY <2>2, <2>3, <2>4, Zenon
  <1> QED
    BY <1>1, <1>2

\* One more sequence is joined at the end.
LEMMA FlattenAppend ==
  ASSUME NEW S, NEW seqs \in Seq(Seq(S)), NEW t \in Seq(S)
  PROVE  FlattenSeq(Append(seqs, t)) = FlattenSeq(seqs) \o t
  <1>0. PICK more, n : more = Append(seqs, t) /\ n = Len(seqs)
    OBVIOUS
  <1>1. more \in Seq(Seq(S)) /\ Len(more) = n + 1 /\ n \in Nat /\ more[n + 1] = t
        /\ \A i \in 1 .. n : seqs[i] = more[i]
    BY <1>0
  <1>2. PICK g : PrefixJoins(g, more, n + 1) /\ FlattenSeq(more) = g[n + 1]
    <2>1. \E g : PrefixJoins(g, more, Len(more))
      BY <1>1, PrefixesExist, Zenon
    <2>2. Len(more) # 0 /\ Len(more) = n + 1
      BY <1>1
    <2>3. \E g : PrefixJoins(g, more, Len(more)) /\ FlattenSeq(more) = g[Len(more)]
      BY <2>1, <2>2, FlattenIsLastPrefix, Zenon
    <2> QED
      BY <2>2, <2>3
  <1>3. g[n + 1] = IF n + 1 = 1 THEN t ELSE g[n] \o t
    <2>1. n + 1 \in 1 .. n + 1 /\ (n + 1) - 1 = n
      BY <1>1
    <2>2. g[n + 1] = IF n + 1 = 1 THEN more[n + 1] ELSE g[(n + 1) - 1] \o more[n + 1]
      BY <1>2, <2>1, PrefixesAt
    <2> QED
      BY <1>1, <2>1, <2>2
  <1>4. CASE n = 0
    <2>1. seqs = <<>> /\ FlattenSeq(seqs) = <<>>
      <3>1. Len(seqs) = 0
        BY <1>0, <1>4
      <3>2. seqs = <<>>
        BY <3>1
      <3> QED
        BY <3>1, <3>2 DEF FlattenSeq
    <2> QED
      BY <1>0, <1>2, <1>3, <1>4, <2>1
  <1>5. CASE n # 0
    <2>1. \E f : PrefixJoins(f, seqs, n)
      BY <1>0, PrefixesExist, Zenon
    <2>2. PICK f : PrefixJoins(f, seqs, n) /\ FlattenSeq(seqs) = f[n]
      BY <1>5, <2>1, <1>0, FlattenIsLastPrefix
    <2>3. \A i \in 1 .. n : f[i] = g[i]
      <3>1. n \in Nat /\ n + 1 \in Nat /\ n <= n + 1
        BY <1>1
      <3>2. \A i \in 1 .. n : seqs[i] = more[i]
        BY <1>1
      <3>3. PrefixJoins(f, seqs, n) /\ PrefixJoins(g, more, n + 1)
        BY <1>2, <2>2
      <3> HIDE <1>2
      <3> QED
        BY <3>1, <3>2, <3>3, PrefixesAgree
    <2>4. f[n] = g[n] /\ n + 1 # 1
      <3>1. n \in Nat
        BY <1>1
      <3>2. n \in 1 .. n /\ n + 1 # 1
        BY <1>5, <3>1
      <3> QED
        BY <2>3, <3>2
    <2>5. FlattenSeq(more) = f[n] \o t
      BY <1>2, <1>3, <2>4
    <2> QED
      BY <1>0, <2>2, <2>5
  <1> QED
    BY <1>4, <1>5

LEMMA JoinedType ==
  ASSUME NEW S, NEW seqs \in Seq(Seq(S))
  PROVE  Joined(seqs) \in Seq(S)
  <1>1. seqs \o <<>> = seqs
    OBVIOUS
  <1> QED
    BY <1>1, FlattenType DEF Joined

LEMMA JoinedOf ==
  ASSUME NEW S, NEW n \in Nat, NEW f \in [1 .. n -> Seq(S)]
  PROVE  Joined(f) \in Seq(S)
  <1>1. f \in Seq(Seq(S))
    OBVIOUS
  <1> QED
    BY <1>1, JoinedType

\* A piece more is joined at the end.
LEMMA JoinedNext ==
  ASSUME NEW S, NEW n \in Nat, NEW f \in [1 .. n -> Seq(S)], NEW g \in [1 .. n + 1 -> Seq(S)],
         \A i \in 1 .. n : g[i] = f[i]
  PROVE  Joined(g) = Joined(f) \o g[n + 1]
  <1>1. f \in Seq(Seq(S)) /\ g \in Seq(Seq(S)) /\ g[n + 1] \in Seq(S)
    OBVIOUS
  <1>2. g = Append(f, g[n + 1])
    BY <1>1
  <1>3. f \o <<>> = f /\ g \o <<>> = g
    BY <1>1
  <1>4. FlattenSeq(Append(f, g[n + 1])) = FlattenSeq(f) \o g[n + 1]
    BY <1>1, FlattenAppend
  <1> QED
    BY <1>2, <1>3, <1>4 DEF Joined

\* g has one piece more than f: the same, for leaves that must not look into `\o'.
Grown(f, g, t) == Joined(g) = Joined(f) \o t

LEMMA JoinedGrown ==
  ASSUME NEW S, NEW n \in Nat, NEW f \in [1 .. n -> Seq(S)], NEW g \in [1 .. n + 1 -> Seq(S)],
         \A i \in 1 .. n : g[i] = f[i]
  PROVE  Grown(f, g, g[n + 1])
  BY JoinedNext DEF Grown

\* Empty pieces make an empty sequence.
LEMMA JoinedEmpty ==
  ASSUME NEW n \in Nat, NEW seqs \in [1 .. n -> {<<>>}]
  PROVE  Joined(seqs) = <<>>
  <1>1. <<>> \in Seq({})
    OBVIOUS
  <1>2. {<<>>} \subseteq Seq({})
    BY <1>1
  <1>3. seqs \in [1 .. n -> Seq({})]
    BY <1>2
  <1>4. seqs \in Seq(Seq({}))
    BY <1>3
  <1>5. Joined(seqs) \in Seq({})
    BY <1>4, JoinedType
  <1> QED
    BY <1>5

LEMMA ConcatAssociative ==
  \A S : \A a, b, c \in Seq(S) : a \o (b \o c) = (a \o b) \o c
  OBVIOUS

Regrouped(a, b, c) == a \o (b \o c) = (a \o b) \o c

LEMMA ConcatRegrouped ==
  \A S : \A a, b, c \in Seq(S) : Regrouped(a, b, c)
  BY ConcatAssociative DEF Regrouped

-----------------------------------------------------------------------------
(* A piece of one element before all others *)

\* g is f with x put in at i, where f is empty up to there.
AddsFirst(f, g, n, i, x) ==
  /\ i \in 1 .. n /\ g[i] = <<x>>
  /\ \A j \in 1 .. n : j # i => g[j] = f[j]
  /\ \A j \in 1 .. n : j <= i => f[j] = <<>>

BeginsWithFirst(S, n) ==
  \A f, g \in [1 .. n -> Seq(S)] : \A i \in 1 .. n : \A x \in S :
    AddsFirst(f, g, n, i, x) => Joined(g) = <<x>> \o Joined(f)

LEMMA JoinedFirstStep ==
  ASSUME NEW S, NEW n \in Nat, BeginsWithFirst(S, n)
  PROVE  BeginsWithFirst(S, n + 1)
  <1> SUFFICES ASSUME NEW f \in [1 .. n + 1 -> Seq(S)], NEW g \in [1 .. n + 1 -> Seq(S)],
                      NEW i \in 1 .. n + 1, NEW x \in S, AddsFirst(f, g, n + 1, i, x)
               PROVE  Joined(g) = <<x>> \o Joined(f)
    BY Zenon DEF BeginsWithFirst
  <1>0. /\ g[i] = <<x>> /\ i \in Nat
        /\ \A j \in 1 .. n + 1 : j # i => g[j] = f[j]
        /\ \A j \in 1 .. n + 1 : j <= i => f[j] = <<>>
    BY DEF AddsFirst
  <1>1. PICK f0, g0 : f0 = [j \in 1 .. n |-> f[j]] /\ g0 = [j \in 1 .. n |-> g[j]]
    OBVIOUS
  <1>2. /\ f0 \in [1 .. n -> Seq(S)] /\ g0 \in [1 .. n -> Seq(S)]
        /\ \A j \in 1 .. n : f[j] = f0[j] /\ g[j] = g0[j]
    BY <1>1
  <1>3. PICK jf, jf0, jg, jg0 : jf = Joined(f) /\ jf0 = Joined(f0) /\ jg = Joined(g) /\ jg0 = Joined(g0)
    OBVIOUS
  <1>4. Grown(f0, f, f[n + 1]) /\ Grown(g0, g, g[n + 1])
    BY <1>2, JoinedGrown
  <1>5. jf = jf0 \o f[n + 1] /\ jg = jg0 \o g[n + 1]
    BY <1>3, <1>4, Zenon DEF Grown
  <1>6. CASE i = n + 1
    <2>1. f0 \in [1 .. n -> {<<>>}] /\ g0 \in [1 .. n -> {<<>>}]
      <3>1. \A j \in 1 .. n : j # i /\ j <= i /\ j \in 1 .. n + 1
        BY <1>6
      <3>2. \A j \in 1 .. n : f0[j] = <<>> /\ g0[j] = <<>>
        BY <1>0, <1>2, <3>1
      <3> QED
        BY <1>2, <3>2
    <2>2. jf0 = <<>> /\ jg0 = <<>>
      BY <1>3, <2>1, JoinedEmpty
    <2>3. f[n + 1] = <<>> /\ g[n + 1] = <<x>>
      BY <1>0, <1>6
    <2>4. <<x>> \in Seq(S) /\ <<>> \o <<>> = <<>> /\ <<>> \o <<x>> = <<x>> /\ <<x>> \o <<>> = <<x>>
      OBVIOUS
    <2> QED
      BY <1>3, <1>5, <2>2, <2>3, <2>4, Zenon
  <1>7. CASE i # n + 1
    <2>1. i \in 1 .. n /\ g[n + 1] = f[n + 1] /\ n + 1 \in 1 .. n + 1
      BY <1>0, <1>7
    <2>2. AddsFirst(f0, g0, n, i, x)
      <3>1. \A j \in 1 .. n : j \in 1 .. n + 1
        OBVIOUS
      <3> QED
        BY <1>0, <1>2, <2>1, <3>1 DEF AddsFirst
    <2>3. jg0 = <<x>> \o jf0
      BY <1>2, <1>3, <2>1, <2>2, Zenon DEF BeginsWithFirst
    <2>4. jf0 \in Seq(S) /\ f[n + 1] \in Seq(S) /\ <<x>> \in Seq(S)
      <3>1. f0 \in Seq(Seq(S))
        BY <1>2
      <3> QED
        BY <1>3, <2>1, <3>1, JoinedType
    <2>5. (<<x>> \o jf0) \o f[n + 1] = <<x>> \o (jf0 \o f[n + 1])
      <3>1. PICK one \in Seq(S), mid \in Seq(S), last \in Seq(S) :
              one = <<x>> /\ mid = jf0 /\ last = f[n + 1]
        BY <2>4
      <3>2. Regrouped(one, mid, last)
        BY ConcatRegrouped
      <3> QED
        BY <3>1, <3>2, Zenon DEF Regrouped
    <2> QED
      BY <1>3, <1>5, <2>1, <2>3, <2>5, Zenon
  <1> QED
    BY <1>6, <1>7

\* What is put in before the first piece comes first.
LEMMA JoinedFirst ==
  ASSUME NEW S, NEW n \in Nat
  PROVE  BeginsWithFirst(S, n)
  <1> DEFINE N == {m \in Nat : BeginsWithFirst(S, m)}
  <1>1. 0 \in N
    BY DEF BeginsWithFirst
  <1>2. ASSUME NEW m \in N
        PROVE  m + 1 \in N
    <2>1. BeginsWithFirst(S, m + 1)
      BY JoinedFirstStep
    <2> QED
      BY <2>1
  <1> HIDE DEF N
  <1>3. N = Nat
    <2>1. N \in SUBSET Nat
      BY DEF N
    <2> QED
      BY <1>1, <1>2, <2>1, Induction
  <1> QED
    BY <1>3 DEF N

=============================================================================
