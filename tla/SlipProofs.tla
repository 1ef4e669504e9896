------------------------------ MODULE SlipProofs ------------------------------
(***************************************************************************)
(* What the operators of Slip compute, for every packet and every stream.  *)
(* Unescape and Frames are recursive: that such functions exist, and what  *)
(* they compute, is argued by the least length of a counterexample.        *)
(***************************************************************************)
EXTENDS Slip, SequenceTheorems, FiniteSetTheorems, TLAPS

-----------------------------------------------------------------------------
(***************************************************************************)
(* Induction, on sets of numbers.                                          *)
(***************************************************************************)

LEMMA LeastNatural ==
  ASSUME NEW T, T \subseteq Nat, T # {}
  PROVE  \E x \in T : \A y \in T : x <= y
<1>1. PICK x \in T : \A y \in T : ~(<<y, x>> \in OpToRel(<, Nat))
  BY WFMin, NatLessThanWellFounded
<1>2. \A y \in T : ~(y < x)
  BY <1>1 DEF OpToRel
<1> QED
  BY <1>2

LEMMA SetInduction ==
  ASSUME NEW S, 0 \in S, \A n \in Nat : n \in S => n + 1 \in S
  PROVE  Nat \subseteq S
<1> SUFFICES ASSUME Nat \ S # {} PROVE FALSE
  OBVIOUS
<1>1. PICK x \in Nat \ S : \A y \in Nat \ S : x <= y
  BY LeastNatural
<1>2. x # 0 /\ x - 1 \in Nat /\ x - 1 \in S
  BY <1>1
<1> QED
  BY <1>2

(* Of the elements of a set that are no good, one is shortest.             *)
LEMMA Shortest ==
  ASSUME NEW S, NEW len \in [S -> Nat], NEW bad, bad \subseteq S, bad # {}
  PROVE  \E s \in bad : \A t \in bad : len[s] <= len[t]
<1> DEFINE lengths == {len[s] : s \in bad}
<1>1. lengths \subseteq Nat /\ lengths # {}
  OBVIOUS
<1>2. PICK n \in lengths : \A k \in lengths : n <= k
  BY <1>1, LeastNatural
<1>3. PICK s \in bad : n = len[s]
  BY <1>2
<1>4. \A t \in bad : len[t] \in lengths
  OBVIOUS
<1> QED
  BY <1>2, <1>3, <1>4

-----------------------------------------------------------------------------
(***************************************************************************)
(* Functions that recur on something shorter exist.                        *)
(***************************************************************************)

Recurs(f, D, stop, base, first, rest) ==
  f = [s \in D |-> IF s \in stop THEN base[s] ELSE first[s] \o f[rest[s]]]

Upto(S, len, n) == {s \in S : len[s] <= n}

LEMMA RecursAt ==
  ASSUME NEW D, NEW stop, NEW base, NEW first, NEW rest, NEW f,
         Recurs(f, D, stop, base, first, rest), NEW s \in D
  PROVE  f[s] = IF s \in stop THEN base[s] ELSE first[s] \o f[rest[s]]
<1> DEFINE g == [t \in D |-> IF t \in stop THEN base[t] ELSE first[t] \o f[rest[t]]]
<1>1. g[s] = IF s \in stop THEN base[s] ELSE first[s] \o f[rest[s]]
  OBVIOUS
<1>2. f = g
  BY Zenon DEF Recurs
<1> QED
  BY <1>1, <1>2, Zenon

(* Two of them agree where both are defined.                               *)
LEMMA RecursUnique ==
  ASSUME NEW S, NEW len \in [S -> Nat], NEW stop, NEW base, NEW first, NEW rest,
         \A s \in S \ stop : rest[s] \in S /\ len[rest[s]] < len[s],
         NEW m \in Nat, NEW n \in Nat, NEW f, NEW g,
         Recurs(f, Upto(S, len, m), stop, base, first, rest),
         Recurs(g, Upto(S, len, n), stop, base, first, rest)
  PROVE  \A s \in Upto(S, len, m) \cap Upto(S, len, n) : f[s] = g[s]
<1> DEFINE bad == {s \in Upto(S, len, m) \cap Upto(S, len, n) : f[s] # g[s]}
<1> SUFFICES ASSUME bad # {} PROVE FALSE
  BY Zenon
<1>1. bad \subseteq S
  BY DEF Upto
<1>2. PICK s \in bad : \A t \in bad : len[s] <= len[t]
  BY <1>1, Shortest, Zenon
<1>3. /\ s \in S /\ s \in Upto(S, len, m) /\ s \in Upto(S, len, n)
      /\ len[s] <= m /\ len[s] <= n /\ f[s] # g[s]
  BY <1>2 DEF Upto
<1>4. /\ f[s] = IF s \in stop THEN base[s] ELSE first[s] \o f[rest[s]]
      /\ g[s] = IF s \in stop THEN base[s] ELSE first[s] \o g[rest[s]]
  BY <1>3, RecursAt
<1>5. s \notin stop /\ f[rest[s]] # g[rest[s]]
  BY <1>3, <1>4, Zenon
<1>6. rest[s] \in S /\ len[rest[s]] < len[s]
  BY <1>3, <1>5
<1>7. len[rest[s]] \in Nat /\ len[s] \in Nat
  BY <1>3, <1>6
<1>8. rest[s] \in Upto(S, len, m) /\ rest[s] \in Upto(S, len, n)
  BY <1>3, <1>6, <1>7 DEF Upto
<1>9. rest[s] \in bad
  BY <1>5, <1>8
<1> QED
  BY <1>2, <1>6, <1>7, <1>9

LEMMA RecursExists ==
  ASSUME NEW S, NEW len \in [S -> Nat], NEW stop, NEW base, NEW first, NEW rest,
         \A s \in S \ stop : rest[s] \in S /\ len[rest[s]] < len[s]
  PROVE  \E f : Recurs(f, S, stop, base, first, rest)
<1> DEFINE P(f, n) == Recurs(f, Upto(S, len, n), stop, base, first, rest)
           ok == {n \in Nat : \E f : P(f, n)}
           step(f, s) == IF s \in stop THEN base[s] ELSE first[s] \o f[rest[s]]
<1>1. \A n \in Nat : \E f : P(f, n)
  <2>1. 0 \in ok
    <3> DEFINE D == Upto(S, len, 0)
               g == [s \in D |-> base[s]]
    <3>1. \A s \in D : s \in stop
      BY DEF Upto
    <3>2. g = [s \in D |-> step(g, s)]
      BY <3>1
    <3>3. P(g, 0)
      BY <3>2, Zenon DEF Recurs
    <3> QED
      BY <3>3, Zenon
  <2>2. ASSUME NEW n \in Nat, n \in ok PROVE n + 1 \in ok
    <3> DEFINE D == Upto(S, len, n)
               E == Upto(S, len, n + 1)
    <3>1. PICK f : P(f, n)
      BY <2>2, Zenon
    <3> DEFINE g == [s \in E |-> step(f, s)]
    <3>2. \A s \in D : f[s] = step(f, s)
      BY <3>1, RecursAt
    <3>3. D \subseteq E
      BY DEF Upto
    <3>4. \A s \in D : g[s] = f[s]
      BY <3>2, <3>3, Zenon
    <3>5. ASSUME NEW s \in E, s \notin stop PROVE rest[s] \in D
      <4>1. s \in S /\ len[s] <= n + 1
        BY DEF Upto
      <4>2. rest[s] \in S /\ len[rest[s]] < len[s]
        BY <3>5, <4>1
      <4>3. len[s] \in Nat /\ len[rest[s]] \in Nat
        BY <4>1, <4>2
      <4> QED
        BY <4>1, <4>2, <4>3 DEF Upto
    <3>6. \A s \in E : step(f, s) = step(g, s)
      BY <3>4, <3>5, Zenon
    <3>7. g = [s \in E |-> step(g, s)]
      <4> HIDE DEF step
      <4> QED
        BY <3>6
    <3>8. P(g, n + 1)
      BY <3>7, Zenon DEF Recurs
    <3> QED
      BY <3>8
  <2>3. Nat \subseteq ok
    <3> HIDE DEF ok
    <3> QED
      BY <2>1, <2>2, SetInduction, Zenon
  <2> QED
    BY <2>3, Zenon
<1> DEFINE G(n) == CHOOSE f : P(f, n)
           F == [s \in S |-> G(len[s])[s]]
<1>2. \A n \in Nat : P(G(n), n)
  BY <1>1, Zenon
<1>3. ASSUME NEW s \in S PROVE F[s] = step(F, s)
  <2>1. len[s] \in Nat /\ s \in Upto(S, len, len[s])
    BY DEF Upto
  <2>2. F[s] = G(len[s])[s]
    BY Zenon
  <2>3. F[s] = step(G(len[s]), s)
    BY <2>1, <2>2, <1>2, RecursAt
  <2>4. CASE s \in stop
    BY <2>3, <2>4, Zenon
  <2>5. CASE s \notin stop
    <3>1. rest[s] \in S /\ len[rest[s]] < len[s]
      BY <2>5
    <3>2. len[rest[s]] \in Nat
      BY <3>1
    <3>3. /\ rest[s] \in Upto(S, len, len[s])
          /\ rest[s] \in Upto(S, len, len[rest[s]])
      BY <2>1, <3>1, <3>2 DEF Upto
    <3>4. P(G(len[s]), len[s]) /\ P(G(len[rest[s]]), len[rest[s]])
      BY <1>2, <2>1, <3>2, Zenon
    <3>5. G(len[s])[rest[s]] = G(len[rest[s]])[rest[s]]
      <4> HIDE DEF G
      <4>1. \A t \in Upto(S, len, len[s]) \cap Upto(S, len, len[rest[s]]) :
              G(len[s])[t] = G(len[rest[s]])[t]
        BY <2>1, <3>2, <3>4, RecursUnique
      <4> QED
        BY <3>3, <4>1
    <3>6. F[rest[s]] = G(len[rest[s]])[rest[s]]
      BY <3>1, Zenon
    <3>7. /\ step(G(len[s]), s) = first[s] \o G(len[s])[rest[s]]
          /\ step(F, s) = first[s] \o F[rest[s]]
      <4> HIDE DEF F, G
      <4> QED
        BY <2>5
    <3> HIDE DEF F, G, step
    <3> QED
      BY <2>3, <3>5, <3>6, <3>7
  <2> QED
    BY <2>4, <2>5
<1>4. F = [s \in S |-> step(F, s)]
  <2>1. \A s \in S : F[s] = step(F, s)
    BY <1>3
  <2>2. F = [s \in S |-> F[s]]
    OBVIOUS
  <2> HIDE DEF F, step
  <2> QED
    BY <2>1, <2>2
<1>5. Recurs(F, S, stop, base, first, rest)
  BY <1>4, Zenon DEF Recurs
<1> QED
  BY <1>5, Zenon

(* What is true of base, and kept by what comes before, is true of all.    *)
LEMMA RecursType ==
  ASSUME NEW S, NEW len \in [S -> Nat], NEW stop, NEW base, NEW first, NEW rest,
         \A s \in S \ stop : rest[s] \in S /\ len[rest[s]] < len[s],
         NEW V, \A s \in S \cap stop : base[s] \in Seq(V),
         \A s \in S \ stop : first[s] \in Seq(V),
         NEW f, Recurs(f, S, stop, base, first, rest)
  PROVE  f \in [S -> Seq(V)]
<1> DEFINE bad == {s \in S : f[s] \notin Seq(V)}
<1>1. bad = {}
  <2> SUFFICES ASSUME bad # {} PROVE FALSE
    OBVIOUS
  <2>1. PICK s \in bad : \A t \in bad : len[s] <= len[t]
    <3>1. bad \subseteq S
      OBVIOUS
    <3> QED
      BY <3>1, Shortest, Zenon
  <2>2. f[s] = IF s \in stop THEN base[s] ELSE first[s] \o f[rest[s]]
    BY <2>1, RecursAt
  <2>3. s \in S /\ s \notin stop
    BY <2>1, <2>2
  <2>4. rest[s] \in S /\ len[rest[s]] < len[s] /\ len[s] \in Nat /\ len[rest[s]] \in Nat
    BY <2>3
  <2>5. rest[s] \notin bad
    BY <2>1, <2>4
  <2>6. f[rest[s]] \in Seq(V) /\ first[s] \in Seq(V)
    BY <2>3, <2>4, <2>5
  <2>7. f[s] \in Seq(V)
    BY <2>2, <2>3, <2>6, ConcatProperties
  <2> QED
    BY <2>1, <2>7
<1>2. f = [s \in S |-> IF s \in stop THEN base[s] ELSE first[s] \o f[rest[s]]]
  BY DEF Recurs
<1>3. f = [s \in S |-> f[s]]
  BY <1>2, Zenon
<1> QED
  BY <1>1, <1>3

-----------------------------------------------------------------------------
(***************************************************************************)
(* What Unescape and Frames compute.                                       *)
(***************************************************************************)

Letter == Byte \cup {Dangling}

Lengths == [s \in Seq(Byte) |-> Len(s)]

LEMMA LengthsType == Lengths \in [Seq(Byte) -> Nat]
BY DEF Lengths

LEMMA Specials == {END, ESC, ESC_END, ESC_ESC} \subseteq Byte
BY DEF Byte, Special

LEMMA MeaningType == ASSUME NEW b PROVE Meaning(b) \in Seq({END, ESC})
<1>1. <<>> \in Seq({END, ESC}) /\ <<END>> \in Seq({END, ESC}) /\ <<ESC>> \in Seq({END, ESC})
  OBVIOUS
<1> QED
  BY <1>1, Zenon DEF Meaning

UnescapeStop == {s \in Seq(Byte) : s = <<>> \/ (Head(s) = ESC /\ Len(s) = 1)}
UnescapeBase == [s \in Seq(Byte) |-> IF s = <<>> THEN <<>> ELSE <<Dangling>>]
UnescapeFirst == [s \in Seq(Byte) |-> IF Head(s) # ESC THEN <<Head(s)>> ELSE Meaning(s[2])]
UnescapeRest ==
  [s \in Seq(Byte) |-> IF Head(s) # ESC THEN Tail(s) ELSE SubSeq(s, 3, Len(s))]

LEMMA UnescapeShortens ==
  ASSUME NEW s \in Seq(Byte) \ UnescapeStop
  PROVE  UnescapeRest[s] \in Seq(Byte) /\ Lengths[UnescapeRest[s]] < Lengths[s]
<1>1. s # <<>> /\ Len(s) \in Nat /\ Len(s) # 0
  BY EmptySeq, LenProperties DEF UnescapeStop
<1>2. CASE Head(s) # ESC
  BY <1>1, <1>2, HeadTailProperties DEF UnescapeRest, Lengths
<1>3. CASE Head(s) = ESC
  <2>1. UnescapeRest[s] = SubSeq(s, 3, Len(s)) /\ Len(s) # 1
    BY <1>3 DEF UnescapeRest, UnescapeStop
  <2>2. \A i \in 3 .. Len(s) : s[i] \in Byte
    BY ElementOfSeq, <1>1
  <2>3. /\ SubSeq(s, 3, Len(s)) \in Seq(Byte)
        /\ Len(SubSeq(s, 3, Len(s))) = IF 3 <= Len(s) THEN Len(s) - 3 + 1 ELSE 0
    BY <1>1, <2>2, SubSeqProperties
  <2> QED
    BY <1>1, <2>1, <2>3 DEF Lengths
<1> QED
  BY <1>2, <1>3

LEMMA UnescapeRecurs ==
  Recurs(Unescape, Seq(Byte), UnescapeStop, UnescapeBase, UnescapeFirst, UnescapeRest)
<1> DEFINE body(f, s) ==
             IF s = <<>> THEN <<>>
             ELSE IF Head(s) # ESC THEN <<Head(s)>> \o f[Tail(s)]
             ELSE IF Len(s) = 1 THEN <<Dangling>>
             ELSE Meaning(s[2]) \o f[SubSeq(s, 3, Len(s))]
           step(f, s) == IF s \in UnescapeStop THEN UnescapeBase[s]
                         ELSE UnescapeFirst[s] \o f[UnescapeRest[s]]
           P(f) == f = [s \in Seq(Byte) |-> body(f, s)]
<1>1. ASSUME NEW f, NEW s \in Seq(Byte) PROVE body(f, s) = step(f, s)
  <2>1. CASE s = <<>>
    BY <2>1, Zenon DEF UnescapeStop, UnescapeBase
  <2>2. CASE s # <<>> /\ Head(s) # ESC
    <3>1. s \notin UnescapeStop
      BY <2>2 DEF UnescapeStop
    <3>2. UnescapeFirst[s] = <<Head(s)>> /\ UnescapeRest[s] = Tail(s)
      BY <2>2 DEF UnescapeFirst, UnescapeRest
    <3> QED
      BY <2>2, <3>1, <3>2, Zenon
  <2>3. CASE s # <<>> /\ Head(s) = ESC /\ Len(s) = 1
    BY <2>3, Zenon DEF UnescapeStop, UnescapeBase
  <2>4. CASE s # <<>> /\ Head(s) = ESC /\ Len(s) # 1
    <3>1. s \notin UnescapeStop
      BY <2>4 DEF UnescapeStop
    <3>2. UnescapeFirst[s] = Meaning(s[2]) /\ UnescapeRest[s] = SubSeq(s, 3, Len(s))
      BY <2>4 DEF UnescapeFirst, UnescapeRest
    <3> QED
      BY <2>4, <3>1, <3>2, Zenon
  <2> QED
    BY <2>1, <2>2, <2>3, <2>4, Zenon
<1>2. ASSUME NEW f
      PROVE  P(f) <=> Recurs(f, Seq(Byte), UnescapeStop, UnescapeBase, UnescapeFirst, UnescapeRest)
  <2>1. [s \in Seq(Byte) |-> body(f, s)] = [s \in Seq(Byte) |-> step(f, s)]
    <3> HIDE DEF body, step
    <3> QED
      BY <1>1
  <2> QED
    BY <2>1, Zenon DEF Recurs
<1>3. \E f : Recurs(f, Seq(Byte), UnescapeStop, UnescapeBase, UnescapeFirst, UnescapeRest)
  BY LengthsType, UnescapeShortens, RecursExists
<1>4. P(CHOOSE f : P(f))
  <2>1. \E f : P(f)
    <3> HIDE DEF P
    <3> QED
      BY <1>2, <1>3
  <2> QED
    BY <2>1, Zenon
<1>5. Unescape = CHOOSE f : P(f)
  BY Zenon DEF Unescape
<1>6. P(Unescape)
  <2> HIDE DEF P
  <2> QED
    BY <1>4, <1>5
<1> QED
  <2> HIDE DEF P
  <2> QED
    BY <1>2, <1>6

LEMMA UnescapeType == Unescape \in [Seq(Byte) -> Seq(Letter)]
<1>1. \A s \in Seq(Byte) \cap UnescapeStop : UnescapeBase[s] \in Seq(Letter)
  <2>1. <<>> \in Seq(Letter) /\ <<Dangling>> \in Seq(Letter)
    BY DEF Letter
  <2> QED
    BY <2>1 DEF UnescapeBase
<1>2. ASSUME NEW s \in Seq(Byte) \ UnescapeStop PROVE UnescapeFirst[s] \in Seq(Letter)
  <2>1. s \in Seq(Byte) /\ s # <<>>
    BY DEF UnescapeStop
  <2>2. Head(s) \in Letter
    BY <2>1, HeadTailProperties DEF Letter
  <2>3. <<Head(s)>> \in Seq(Letter)
    BY <2>2
  <2>4. Meaning(s[2]) \in Seq(Letter)
    <3>1. {END, ESC} \subseteq Letter
      BY Specials DEF Letter
    <3>2. Meaning(s[2]) \in Seq({END, ESC})
      BY MeaningType
    <3> QED
      BY <3>1, <3>2, SeqMonotonic
  <2> QED
    BY <2>1, <2>3, <2>4 DEF UnescapeFirst
<1> QED
  BY <1>1, <1>2, UnescapeShortens, LengthsType, UnescapeRecurs, RecursType

LEMMA UnescapeAt ==
  ASSUME NEW s \in Seq(Byte)
  PROVE  Unescape[s] = IF s \in UnescapeStop THEN UnescapeBase[s]
                       ELSE UnescapeFirst[s] \o Unescape[UnescapeRest[s]]
BY UnescapeRecurs, RecursAt

LEMMA UnescapeEmpty == Unescape[<<>>] = <<>>
<1>1. <<>> \in Seq(Byte)
  BY EmptySeq
<1>2. <<>> \in UnescapeStop /\ UnescapeBase[<<>>] = <<>>
  BY <1>1, Zenon DEF UnescapeStop, UnescapeBase
<1> QED
  BY <1>1, <1>2, UnescapeAt

LEMMA UnescapeDangling == Unescape[<<ESC>>] = <<Dangling>>
<1>1. <<ESC>> \in Seq(Byte) /\ <<ESC>> # <<>> /\ Head(<<ESC>>) = ESC /\ Len(<<ESC>>) = 1
  BY Specials
<1>2. <<ESC>> \in UnescapeStop /\ UnescapeBase[<<ESC>>] = <<Dangling>>
  BY <1>1, Zenon DEF UnescapeStop, UnescapeBase
<1> QED
  BY <1>1, <1>2, UnescapeAt

LEMMA UnescapePlain ==
  ASSUME NEW b \in Byte \ {ESC}, NEW t \in Seq(Byte)
  PROVE  Unescape[<<b>> \o t] = <<b>> \o Unescape[t]
<1> DEFINE s == <<b>> \o t
<1>1. s \in Seq(Byte) /\ s # <<>> /\ Head(s) = b /\ Tail(s) = t
  <2>1. s \in Seq(Byte) /\ Len(s) = 1 + Len(t) /\ s[1] = b
    BY <<b>> \in Seq(Byte), Len(<<b>>) = 1, <<b>>[1] = b, ConcatProperties, LenProperties
  <2>2. s # <<>>
    BY <2>1, EmptySeq, LenProperties
  <2>3. Head(s) = b
    BY <2>1, <2>2
  <2>4. Tail(s) = t
    <3>1. Len(Tail(s)) = Len(t) /\ Tail(s) \in Seq(Byte)
          /\ \A i \in 1 .. Len(t) : Tail(s)[i] = s[i + 1]
      BY <2>1, <2>2, HeadTailProperties, LenProperties
    <3>2. \A i \in 1 .. Len(t) : s[i + 1] = t[i]
      BY <<b>> \in Seq(Byte), Len(<<b>>) = 1, ConcatProperties, LenProperties
    <3> QED
      BY <3>1, <3>2, SeqEqual
  <2> QED
    BY <2>1, <2>2, <2>3, <2>4
<1> HIDE DEF s
<1>2. s \notin UnescapeStop
  BY <1>1 DEF UnescapeStop
<1>3. UnescapeFirst[s] = <<b>> /\ UnescapeRest[s] = t
  BY <1>1 DEF UnescapeFirst, UnescapeRest
<1>4. Unescape[s] = <<b>> \o Unescape[t]
  BY <1>1, <1>2, <1>3, UnescapeAt
<1> QED
  BY <1>4 DEF s

LEMMA UnescapeEscape ==
  ASSUME NEW b \in Byte, NEW t \in Seq(Byte)
  PROVE  Unescape[<<ESC, b>> \o t] = Meaning(b) \o Unescape[t]
<1> DEFINE s == <<ESC, b>> \o t
<1>0. <<ESC, b>> \in Seq(Byte) /\ Len(<<ESC, b>>) = 2 /\ <<ESC, b>>[1] = ESC /\ <<ESC, b>>[2] = b
  BY Specials
<1>1. /\ s \in Seq(Byte) /\ Len(s) = 2 + Len(t) /\ s[1] = ESC /\ s[2] = b /\ Len(t) \in Nat
      /\ \A i \in 1 .. Len(t) : s[i + 2] = t[i]
  BY <1>0, ConcatProperties, LenProperties
<1>2. s # <<>>
  BY <1>1, EmptySeq
<1> HIDE DEF s
<1>3. Head(s) = ESC
  BY <1>1, <1>2
<1>4. SubSeq(s, 3, Len(s)) = t
  <2>1. \A i \in 3 .. Len(s) : s[i] \in Byte
    BY <1>1, ElementOfSeq
  <2>2. /\ SubSeq(s, 3, Len(s)) \in Seq(Byte)
        /\ Len(SubSeq(s, 3, Len(s))) = IF 3 <= Len(s) THEN Len(s) - 3 + 1 ELSE 0
        /\ \A i \in 1 .. Len(s) - 3 + 1 : SubSeq(s, 3, Len(s))[i] = s[3 + i - 1]
    BY <1>1, <2>1, SubSeqProperties
  <2>3. Len(SubSeq(s, 3, Len(s))) = Len(t)
    BY <1>1, <2>2
  <2>4. \A i \in 1 .. Len(t) : SubSeq(s, 3, Len(s))[i] = t[i]
    BY <1>1, <2>2
  <2> QED
    BY <2>2, <2>3, <2>4, SeqEqual
<1>5. s \notin UnescapeStop
  BY <1>1, <1>3 DEF UnescapeStop
<1>6. UnescapeFirst[s] = Meaning(b) /\ UnescapeRest[s] = t
  BY <1>1, <1>3, <1>4 DEF UnescapeFirst, UnescapeRest
<1>7. Unescape[s] = Meaning(b) \o Unescape[t]
  BY <1>1, <1>5, <1>6, UnescapeAt
<1> QED
  BY <1>7 DEF s

-----------------------------------------------------------------------------
NoEnd(s) == \A i \in 1 .. Len(s) : s[i] # END

FirstEnd(s) == SelectInSeq(s, LAMBDA b : b = END)

(* SelectInSeq finds the first END, if there is one.                       *)
LEMMA FirstEndFound ==
  ASSUME NEW s \in Seq(Byte)
  PROVE  /\ NoEnd(s) => FirstEnd(s) = 0
         /\ ~NoEnd(s) => /\ FirstEnd(s) \in 1 .. Len(s) /\ s[FirstEnd(s)] = END
                         /\ \A i \in 1 .. FirstEnd(s) - 1 : s[i] # END
<1> DEFINE I == {i \in 1 .. Len(s) : s[i] = END}
<1>1. FirstEnd(s) = IF I # {} THEN Min(I) ELSE 0
  BY DEF FirstEnd, SelectInSeq
<1>2. NoEnd(s) <=> I = {}
  BY DEF NoEnd
<1>3. ASSUME I # {} PROVE Min(I) \in I /\ \A i \in I : Min(I) <= i
  <2>1. I \subseteq Nat
    BY LenProperties
  <2>2. \E x \in I : \A y \in I : x =< y
    BY <1>3, <2>1, LeastNatural
  <2> HIDE DEF I
  <2> QED
    BY <2>2, Zenon DEF Min
<1>4. ASSUME I # {}
      PROVE  /\ FirstEnd(s) \in 1 .. Len(s) /\ s[FirstEnd(s)] = END
             /\ \A i \in 1 .. FirstEnd(s) - 1 : s[i] # END
  <2>1. FirstEnd(s) \in I /\ \A i \in I : FirstEnd(s) <= i
    <3> HIDE DEF I
    <3> QED
      BY <1>1, <1>3, <1>4
  <2>2. Len(s) \in Nat
    BY LenProperties
  <2>3. ASSUME NEW i \in 1 .. FirstEnd(s) - 1, s[i] = END PROVE FALSE
    <3>1. i \in I
      BY <2>1, <2>2, <2>3
    <3> QED
      BY <2>1, <2>2, <3>1
  <2> QED
    BY <2>1, <2>3
<1> HIDE DEF I
<1> QED
  BY <1>1, <1>2, <1>4

FramesStop == {s \in Seq(Byte) : FirstEnd(s) = 0}
FramesBase == [s \in Seq(Byte) |-> <<>>]
FramesFirst == [s \in Seq(Byte) |-> Packet(Unescape[SubSeq(s, 1, FirstEnd(s) - 1)])]
FramesRest == [s \in Seq(Byte) |-> SubSeq(s, FirstEnd(s) + 1, Len(s))]

LEMMA AroundEnd ==
  ASSUME NEW s \in Seq(Byte) \ FramesStop
  PROVE  /\ SubSeq(s, 1, FirstEnd(s) - 1) \in Seq(Byte)
         /\ SubSeq(s, FirstEnd(s) + 1, Len(s)) \in Seq(Byte)
         /\ Len(SubSeq(s, FirstEnd(s) + 1, Len(s))) < Len(s)
<1>1. s \in Seq(Byte) /\ FirstEnd(s) # 0 /\ Len(s) \in Nat
  BY LenProperties DEF FramesStop
<1>2. FirstEnd(s) \in 1 .. Len(s)
  BY <1>1, FirstEndFound
<1> DEFINE n == FirstEnd(s)
<1> HIDE DEF n
<1>3. n \in 1 .. Len(s)
  BY <1>2 DEF n
<1>4. \A i \in 1 .. Len(s) : s[i] \in Byte
  BY <1>1, ElementOfSeq
<1>5. SubSeq(s, 1, n - 1) \in Seq(Byte)
  BY <1>1, <1>3, <1>4, SubSeqProperties
<1>6. /\ SubSeq(s, n + 1, Len(s)) \in Seq(Byte)
      /\ Len(SubSeq(s, n + 1, Len(s))) = IF n + 1 <= Len(s) THEN Len(s) - (n + 1) + 1 ELSE 0
  BY <1>1, <1>3, <1>4, SubSeqProperties
<1> QED
  BY <1>1, <1>3, <1>5, <1>6 DEF n

LEMMA FramesShortens ==
  ASSUME NEW s \in Seq(Byte) \ FramesStop
  PROVE  FramesRest[s] \in Seq(Byte) /\ Lengths[FramesRest[s]] < Lengths[s]
<1>1. s \in Seq(Byte)
  OBVIOUS
<1>2. FramesRest[s] = SubSeq(s, FirstEnd(s) + 1, Len(s))
  BY <1>1 DEF FramesRest
<1> QED
  BY <1>1, <1>2, AroundEnd DEF Lengths

LEMMA FramesRecurs ==
  Recurs(Frames, Seq(Byte), FramesStop, FramesBase, FramesFirst, FramesRest)
<1> DEFINE body(f, s) ==
             IF FirstEnd(s) = 0 THEN <<>>
             ELSE Packet(Unescape[SubSeq(s, 1, FirstEnd(s) - 1)])
                    \o f[SubSeq(s, FirstEnd(s) + 1, Len(s))]
           step(f, s) == IF s \in FramesStop THEN FramesBase[s]
                         ELSE FramesFirst[s] \o f[FramesRest[s]]
           P(f) == f = [s \in Seq(Byte) |-> body(f, s)]
<1>1. ASSUME NEW f, NEW s \in Seq(Byte) PROVE body(f, s) = step(f, s)
  <2>1. CASE FirstEnd(s) = 0
    BY <2>1, Zenon DEF FramesStop, FramesBase
  <2>2. CASE FirstEnd(s) # 0
    <3>1. s \notin FramesStop
      BY <2>2 DEF FramesStop
    <3>2. /\ FramesFirst[s] = Packet(Unescape[SubSeq(s, 1, FirstEnd(s) - 1)])
          /\ FramesRest[s] = SubSeq(s, FirstEnd(s) + 1, Len(s))
      BY DEF FramesFirst, FramesRest
    <3> QED
      BY <2>2, <3>1, <3>2, Zenon
  <2> QED
    BY <2>1, <2>2, Zenon
<1>2. ASSUME NEW f
      PROVE  P(f) <=> Recurs(f, Seq(Byte), FramesStop, FramesBase, FramesFirst, FramesRest)
  <2>1. [s \in Seq(Byte) |-> body(f, s)] = [s \in Seq(Byte) |-> step(f, s)]
    <3> HIDE DEF body, step
    <3> QED
      BY <1>1
  <2> QED
    BY <2>1, Zenon DEF Recurs
<1>3. \E f : Recurs(f, Seq(Byte), FramesStop, FramesBase, FramesFirst, FramesRest)
  BY LengthsType, FramesShortens, RecursExists
<1>4. P(CHOOSE f : P(f))
  <2>1. \E f : P(f)
    <3> HIDE DEF P
    <3> QED
      BY <1>2, <1>3
  <2> QED
    BY <2>1, Zenon
<1>5. Frames = CHOOSE f : P(f)
  BY Zenon DEF Frames, FirstEnd
<1>6. P(Frames)
  <2> HIDE DEF P
  <2> QED
    BY <1>4, <1>5
<1> QED
  <2> HIDE DEF P
  <2> QED
    BY <1>2, <1>6

Request == Seq(Letter) \ {<<>>}

LEMMA PacketType == ASSUME NEW p \in Seq(Letter) PROVE Packet(p) \in Seq(Request)
<1>1. <<>> \in Seq(Request) /\ (p # <<>> => <<p>> \in Seq(Request))
  BY DEF Request
<1> QED
  BY <1>1, Zenon DEF Packet

LEMMA FramesType == Frames \in [Seq(Byte) -> Seq(Request)]
<1>1. \A s \in Seq(Byte) \cap FramesStop : FramesBase[s] \in Seq(Request)
  BY EmptySeq DEF FramesBase
<1>2. ASSUME NEW s \in Seq(Byte) \ FramesStop PROVE FramesFirst[s] \in Seq(Request)
  <2>1. FramesFirst[s] = Packet(Unescape[SubSeq(s, 1, FirstEnd(s) - 1)])
    BY DEF FramesFirst
  <2>2. Unescape[SubSeq(s, 1, FirstEnd(s) - 1)] \in Seq(Letter)
    BY AroundEnd, UnescapeType
  <2> QED
    BY <2>1, <2>2, PacketType
<1> QED
  BY <1>1, <1>2, FramesShortens, LengthsType, FramesRecurs, RecursType

LEMMA FramesAt ==
  ASSUME NEW s \in Seq(Byte)
  PROVE  Frames[s] = IF s \in FramesStop THEN FramesBase[s]
                     ELSE FramesFirst[s] \o Frames[FramesRest[s]]
BY FramesRecurs, RecursAt

(* A stream without an END has no packet yet.                              *)
LEMMA FramesNone ==
  ASSUME NEW s \in Seq(Byte), NoEnd(s)
  PROVE  Frames[s] = <<>>
<1>1. s \in FramesStop
  BY FirstEndFound DEF FramesStop
<1>2. Frames[s] = FramesBase[s]
  BY <1>1, FramesAt
<1> QED
  BY <1>2 DEF FramesBase

(* The bytes up to the first END are a packet, and the rest is a stream.   *)
LEMMA FramesCut ==
  ASSUME NEW f \in Seq(Byte), NoEnd(f), NEW t \in Seq(Byte)
  PROVE  Frames[f \o <<END>> \o t] = Packet(Unescape[f]) \o Frames[t]
<1> DEFINE s == f \o <<END>> \o t
<1>0. /\ <<END>> \in Seq(Byte) /\ Len(<<END>>) = 1 /\ <<END>>[1] = END
      /\ Len(f) \in Nat /\ Len(t) \in Nat
  BY Specials, LenProperties
<1>1. /\ f \o <<END>> \in Seq(Byte) /\ Len(f \o <<END>>) = Len(f) + 1
      /\ \A i \in 1 .. Len(f) : (f \o <<END>>)[i] = f[i]
      /\ (f \o <<END>>)[Len(f) + 1] = END
  BY <1>0, ConcatProperties
<1>2. /\ s \in Seq(Byte) /\ Len(s) = Len(f) + 1 + Len(t)
      /\ \A i \in 1 .. Len(f) : s[i] = f[i]
      /\ s[Len(f) + 1] = END
      /\ \A i \in 1 .. Len(t) : s[Len(f) + 1 + i] = t[i]
  BY <1>0, <1>1, ConcatProperties
<1> HIDE DEF s
<1>3. FirstEnd(s) = Len(f) + 1
  <2>1. ~NoEnd(s)
    BY <1>0, <1>2 DEF NoEnd
  <2>2. /\ FirstEnd(s) \in 1 .. Len(s) /\ s[FirstEnd(s)] = END
        /\ \A i \in 1 .. FirstEnd(s) - 1 : s[i] # END
    BY <1>2, <2>1, FirstEndFound
  <2>3. \A i \in 1 .. Len(f) : s[i] # END
    BY <1>2 DEF NoEnd
  <2> DEFINE n == FirstEnd(s)
  <2> HIDE DEF n
  <2>4. /\ n \in Int /\ n >= 1 /\ s[n] = END
        /\ \A i \in 1 .. n - 1 : s[i] # END
    BY <1>0, <1>2, <2>2 DEF n
  <2>5. ~(n <= Len(f))
    BY <2>3, <2>4, <1>0
  <2>6. ~(Len(f) + 1 < n)
    BY <2>4, <1>0, <1>2
  <2> QED
    BY <2>4, <2>5, <2>6, <1>0 DEF n
<1>4. SubSeq(s, 1, Len(f)) = f
  <2>1. \A i \in 1 .. Len(f) : s[i] \in Byte
    BY <1>2, ElementOfSeq
  <2>2. /\ SubSeq(s, 1, Len(f)) \in Seq(Byte)
        /\ Len(SubSeq(s, 1, Len(f))) = IF 1 <= Len(f) THEN Len(f) - 1 + 1 ELSE 0
        /\ \A i \in 1 .. Len(f) - 1 + 1 : SubSeq(s, 1, Len(f))[i] = s[1 + i - 1]
    BY <1>0, <2>1, SubSeqProperties
  <2>3. Len(SubSeq(s, 1, Len(f))) = Len(f)
    BY <1>0, <2>2
  <2>4. \A i \in 1 .. Len(f) : SubSeq(s, 1, Len(f))[i] = f[i]
    BY <1>0, <1>2, <2>2
  <2> QED
    BY <2>2, <2>3, <2>4, SeqEqual
<1>5. SubSeq(s, Len(f) + 2, Len(s)) = t
  <2>1. \A i \in Len(f) + 2 .. Len(s) : s[i] \in Byte
    BY <1>0, <1>2, ElementOfSeq
  <2>2. /\ SubSeq(s, Len(f) + 2, Len(s)) \in Seq(Byte)
        /\ Len(SubSeq(s, Len(f) + 2, Len(s)))
             = IF Len(f) + 2 <= Len(s) THEN Len(s) - (Len(f) + 2) + 1 ELSE 0
        /\ \A i \in 1 .. Len(s) - (Len(f) + 2) + 1 :
             SubSeq(s, Len(f) + 2, Len(s))[i] = s[Len(f) + 2 + i - 1]
    BY <1>0, <1>2, <2>1, SubSeqProperties
  <2>3. Len(SubSeq(s, Len(f) + 2, Len(s))) = Len(t)
    BY <1>0, <1>2, <2>2
  <2>4. \A i \in 1 .. Len(t) : SubSeq(s, Len(f) + 2, Len(s))[i] = t[i]
    BY <1>0, <1>2, <2>2
  <2> QED
    BY <2>2, <2>3, <2>4, SeqEqual
<1>6. s \notin FramesStop
  BY <1>0, <1>3 DEF FramesStop
<1>7. FramesFirst[s] = Packet(Unescape[f]) /\ FramesRest[s] = t
  <2>1. FirstEnd(s) - 1 = Len(f) /\ FirstEnd(s) + 1 = Len(f) + 2
    BY <1>0, <1>3
  <2> QED
    BY <1>2, <1>4, <1>5, <2>1 DEF FramesFirst, FramesRest
<1>8. Frames[s] = Packet(Unescape[f]) \o Frames[t]
  BY <1>2, <1>6, <1>7, FramesAt
<1> QED
  BY <1>8 DEF s

-----------------------------------------------------------------------------
(***************************************************************************)
(* Streams taken apart and put together.                                   *)
(***************************************************************************)

(* No part of a packet stands at its end.                                  *)
Complete(s) == s # <<>> => s[Len(s)] = END

LEMMA ByteConcat ==
  ASSUME NEW s \in Seq(Byte), NEW t \in Seq(Byte)
  PROVE  /\ s \o t \in Seq(Byte) /\ Len(s \o t) = Len(s) + Len(t)
         /\ Len(s) \in Nat /\ Len(t) \in Nat
         /\ \A i \in 1 .. Len(s) : (s \o t)[i] = s[i]
         /\ \A i \in 1 .. Len(t) : (s \o t)[Len(s) + i] = t[i]
<1>1. /\ s \o t \in Seq(Byte) /\ Len(s \o t) = Len(s) + Len(t)
      /\ \A i \in 1 .. Len(s) + Len(t) :
           (s \o t)[i] = IF i <= Len(s) THEN s[i] ELSE t[i - Len(s)]
  BY ConcatProperties
<1>2. Len(s) \in Nat /\ Len(t) \in Nat
  BY LenProperties
<1>3. ASSUME NEW i \in 1 .. Len(t) PROVE (s \o t)[Len(s) + i] = t[i]
  <2>1. /\ Len(s) + i \in 1 .. Len(s) + Len(t) /\ ~(Len(s) + i <= Len(s))
        /\ Len(s) + i - Len(s) = i
    BY <1>2
  <2> QED
    BY <1>1, <2>1
<1> QED
  BY <1>1, <1>2, <1>3

LEMMA ByteSubSeq ==
  ASSUME NEW s \in Seq(Byte), NEW m \in 1 .. Len(s) + 1, NEW n \in 0 .. Len(s)
  PROVE  /\ SubSeq(s, m, n) \in Seq(Byte)
         /\ Len(SubSeq(s, m, n)) = IF m <= n THEN n - m + 1 ELSE 0
         /\ \A i \in 1 .. n - m + 1 : SubSeq(s, m, n)[i] = s[m + i - 1]
<1>1. Len(s) \in Nat
  BY LenProperties
<1>2. \A i \in m .. n : s[i] \in Byte
  BY <1>1, ElementOfSeq
<1> QED
  BY <1>1, <1>2, SubSeqProperties

LEMMA ByteAssociative ==
  \A r, s, t \in Seq(Byte) : (r \o s) \o t = r \o (s \o t)
BY ConcatAssociative

LEMMA EndByte == <<END>> \in Seq(Byte) /\ Len(<<END>>) = 1 /\ <<END>>[1] = END
BY Specials

(* A prefix and the rest.                                                  *)
LEMMA SplitAt ==
  ASSUME NEW s \in Seq(Byte), NEW n \in 0 .. Len(s)
  PROVE  /\ SubSeq(s, 1, n) \in Seq(Byte) /\ Len(SubSeq(s, 1, n)) = n
         /\ SubSeq(s, n + 1, Len(s)) \in Seq(Byte)
         /\ Len(SubSeq(s, n + 1, Len(s))) = Len(s) - n
         /\ s = SubSeq(s, 1, n) \o SubSeq(s, n + 1, Len(s))
<1>0. Len(s) \in Nat
  BY LenProperties
<1> DEFINE a == SubSeq(s, 1, n)
           b == SubSeq(s, n + 1, Len(s))
<1>1. /\ a \in Seq(Byte) /\ Len(a) = n /\ \A i \in 1 .. n : a[i] = s[i]
  <2>1. /\ a \in Seq(Byte) /\ Len(a) = IF 1 <= n THEN n - 1 + 1 ELSE 0
        /\ \A i \in 1 .. n - 1 + 1 : a[i] = s[1 + i - 1]
    BY <1>0, ByteSubSeq
  <2> HIDE DEF a
  <2> QED
    BY <1>0, <2>1
<1>2. /\ b \in Seq(Byte) /\ Len(b) = Len(s) - n
      /\ \A i \in 1 .. Len(s) - n : b[i] = s[n + i]
  <2>1. /\ b \in Seq(Byte) /\ Len(b) = IF n + 1 <= Len(s) THEN Len(s) - (n + 1) + 1 ELSE 0
        /\ \A i \in 1 .. Len(s) - (n + 1) + 1 : b[i] = s[n + 1 + i - 1]
    BY <1>0, ByteSubSeq
  <2> HIDE DEF b
  <2> QED
    BY <1>0, <2>1
<1>3. s = a \o b
  <2> HIDE DEF a, b
  <2> DEFINE c == a \o b
  <2>1. /\ c \in Seq(Byte) /\ Len(c) = Len(a) + Len(b)
        /\ \A i \in 1 .. Len(a) : c[i] = a[i]
        /\ \A i \in 1 .. Len(b) : c[Len(a) + i] = b[i]
    BY <1>1, <1>2, ByteConcat
  <2> HIDE DEF c
  <2>2. ASSUME NEW i \in 1 .. Len(s) PROVE c[i] = s[i]
    <3>1. CASE i <= n
      BY <1>0, <1>1, <2>1, <3>1
    <3>2. CASE i > n
      <4>1. PICK j \in 1 .. Len(b) : n + j = i
        <5>1. i - n \in 1 .. Len(b) /\ n + (i - n) = i
          BY <1>0, <1>2, <3>2
        <5> QED
          BY <5>1
      <4> QED
        BY <1>1, <1>2, <2>1, <4>1
    <3> QED
      BY <1>0, <3>1, <3>2
  <2>3. Len(c) = Len(s)
    BY <1>0, <1>1, <1>2, <2>1
  <2>4. c = s
    BY <2>1, <2>2, <2>3, SeqEqual
  <2> QED
    BY <2>4 DEF c
<1> QED
  BY <1>1, <1>2, <1>3

(* The part up to n, the byte after it and the rest.                       *)
LEMMA SplitAround ==
  ASSUME NEW s \in Seq(Byte), NEW n \in 1 .. Len(s)
  PROVE  /\ SubSeq(s, 1, n - 1) \in Seq(Byte) /\ Len(SubSeq(s, 1, n - 1)) = n - 1
         /\ \A i \in 1 .. n - 1 : SubSeq(s, 1, n - 1)[i] = s[i]
         /\ SubSeq(s, n + 1, Len(s)) \in Seq(Byte)
         /\ Len(SubSeq(s, n + 1, Len(s))) = Len(s) - n
         /\ s = SubSeq(s, 1, n - 1) \o <<s[n]>> \o SubSeq(s, n + 1, Len(s))
<1>0. Len(s) \in Nat /\ s[n] \in Byte
  BY LenProperties, ElementOfSeq
<1> DEFINE a == SubSeq(s, 1, n - 1)
           b == SubSeq(s, n + 1, Len(s))
           c == SubSeq(s, 1, n)
<1>1. /\ c \in Seq(Byte) /\ s = c \o b /\ b \in Seq(Byte) /\ Len(b) = Len(s) - n
  BY SplitAt, <1>0
<1>2. c = a \o <<s[n]>>
  <2>1. 1 \in 1 .. Len(s) /\ n \in 1 .. Len(s)
    BY <1>0
  <2> QED
    BY <2>1, SubSeqRecursiveSecond
<1>3. /\ a \in Seq(Byte) /\ Len(a) = n - 1 /\ \A i \in 1 .. n - 1 : a[i] = s[i]
  <2>1. n - 1 \in 0 .. Len(s)
    BY <1>0
  <2>2. /\ a \in Seq(Byte) /\ Len(a) = IF 1 <= n - 1 THEN n - 1 - 1 + 1 ELSE 0
        /\ \A i \in 1 .. n - 1 - 1 + 1 : a[i] = s[1 + i - 1]
    BY <1>0, <2>1, ByteSubSeq
  <2> HIDE DEF a
  <2> QED
    BY <1>0, <2>2
<1> QED
  BY <1>1, <1>2, <1>3

LEMMA CutAtEnd ==
  ASSUME NEW s \in Seq(Byte), ~NoEnd(s)
  PROVE  \E f, t \in Seq(Byte) :
           /\ s = f \o <<END>> \o t /\ NoEnd(f)
           /\ Len(s) = Len(f) + 1 + Len(t)
<1> DEFINE n == FirstEnd(s)
           f == SubSeq(s, 1, n - 1)
           t == SubSeq(s, n + 1, Len(s))
<1>0. Len(s) \in Nat
  BY LenProperties
<1>1. n \in 1 .. Len(s) /\ s[n] = END /\ \A i \in 1 .. n - 1 : s[i] # END
  BY FirstEndFound
<1> HIDE DEF n
<1>2. /\ f \in Seq(Byte) /\ Len(f) = n - 1 /\ \A i \in 1 .. n - 1 : f[i] = s[i]
      /\ t \in Seq(Byte) /\ Len(t) = Len(s) - n
      /\ s = f \o <<END>> \o t
  BY <1>1, SplitAround
<1>3. NoEnd(f)
  BY <1>0, <1>1, <1>2 DEF NoEnd
<1>4. Len(s) = Len(f) + 1 + Len(t)
  <2> HIDE DEF f, t
  <2>1. Len(f) = n - 1 /\ Len(t) = Len(s) - n
    BY <1>2
  <2> QED
    BY <1>0, <1>1, <2>1
<1> QED
  BY <1>2, <1>3, <1>4

LEMMA CutFacts ==
  ASSUME NEW f \in Seq(Byte), NEW t \in Seq(Byte)
  PROVE  /\ f \o <<END>> \in Seq(Byte) /\ Len(f \o <<END>>) = Len(f) + 1
         /\ f \o <<END>> \o t \in Seq(Byte)
         /\ Len(f \o <<END>> \o t) = Len(f) + 1 + Len(t)
         /\ Len(f) \in Nat /\ Len(t) \in Nat
         /\ \A i \in 1 .. Len(f) : (f \o <<END>> \o t)[i] = f[i]
         /\ (f \o <<END>> \o t)[Len(f) + 1] = END
         /\ \A i \in 1 .. Len(t) : (f \o <<END>> \o t)[Len(f) + 1 + i] = t[i]
<1>1. /\ f \o <<END>> \in Seq(Byte) /\ Len(f \o <<END>>) = Len(f) + 1
      /\ \A i \in 1 .. Len(f) : (f \o <<END>>)[i] = f[i]
      /\ (f \o <<END>>)[Len(f) + 1] = END
      /\ Len(f) \in Nat
  BY EndByte, ByteConcat
<1>2. /\ f \o <<END>> \o t \in Seq(Byte) /\ Len(f \o <<END>> \o t) = Len(f \o <<END>>) + Len(t)
      /\ Len(t) \in Nat
      /\ \A i \in 1 .. Len(f \o <<END>>) : (f \o <<END>> \o t)[i] = (f \o <<END>>)[i]
      /\ \A i \in 1 .. Len(t) : (f \o <<END>> \o t)[Len(f \o <<END>>) + i] = t[i]
  BY <1>1, ByteConcat
<1> QED
  BY <1>1, <1>2

LEMMA CutComplete ==
  ASSUME NEW f \in Seq(Byte), NEW t \in Seq(Byte)
  PROVE  Complete(f \o <<END>> \o t) <=> Complete(t)
<1> DEFINE s == f \o <<END>> \o t
<1>1. /\ s \in Seq(Byte) /\ Len(s) = Len(f) + 1 + Len(t) /\ Len(f) \in Nat /\ Len(t) \in Nat
      /\ s[Len(f) + 1] = END /\ \A i \in 1 .. Len(t) : s[Len(f) + 1 + i] = t[i]
  BY CutFacts
<1> HIDE DEF s
<1>2. s # <<>>
  BY <1>1, EmptySeq
<1>3. CASE t = <<>>
  <2>1. Len(t) = 0
    BY <1>3, EmptySeq
  <2>2. s[Len(s)] = END
    BY <1>1, <2>1
  <2> QED
    BY <1>3, <2>2 DEF Complete, s
<1>4. CASE t # <<>>
  <2>1. Len(t) \in 1 .. Len(t)
    BY <1>1, <1>4, EmptySeq
  <2>2. s[Len(s)] = t[Len(t)]
    BY <1>1, <2>1
  <2> QED
    BY <1>2, <1>4, <2>2 DEF Complete, s
<1> QED
  BY <1>3, <1>4

LEMMA FramesEmpty == Frames[<<>>] = <<>>
<1>1. <<>> \in Seq(Byte) /\ NoEnd(<<>>)
  BY EmptySeq DEF NoEnd
<1> QED
  BY <1>1, FramesNone

LEMMA CompleteHasEnd ==
  ASSUME NEW s \in Seq(Byte), Complete(s), s # <<>>
  PROVE  ~NoEnd(s)
<1>1. Len(s) \in 1 .. Len(s)
  BY EmptySeq, LenProperties
<1> QED
  BY <1>1 DEF Complete, NoEnd

(* The packets of a stream after whole packets are theirs and its own.     *)
LEMMA FramesConcat ==
  ASSUME NEW s \in Seq(Byte), Complete(s), NEW t \in Seq(Byte)
  PROVE  Frames[s \o t] = Frames[s] \o Frames[t]
<1> DEFINE bad == {u \in Seq(Byte) : Complete(u) /\ Frames[u \o t] # Frames[u] \o Frames[t]}
<1> SUFFICES ASSUME bad # {} PROVE FALSE
  OBVIOUS
<1>1. PICK u \in bad : \A v \in bad : Lengths[u] <= Lengths[v]
  <2>1. bad \subseteq Seq(Byte)
    OBVIOUS
  <2> HIDE DEF bad
  <2> QED
    BY <2>1, LengthsType, Shortest
<1>2. u \in Seq(Byte) /\ Complete(u) /\ Frames[u \o t] # Frames[u] \o Frames[t]
  BY <1>1
<1>3. Frames[t] \in Seq(Request)
  BY FramesType
<1>4. u # <<>>
  <2>1. ASSUME u = <<>> PROVE FALSE
    <3>1. u \o t = t
      BY <2>1, ConcatEmptySeq
    <3>2. Frames[u] \o Frames[t] = Frames[t]
      BY <1>3, <2>1, FramesEmpty, ConcatEmptySeq
    <3> QED
      BY <1>2, <3>1, <3>2
  <2> QED
    BY <2>1
<1>5. PICK f, v \in Seq(Byte) : u = f \o <<END>> \o v /\ NoEnd(f) /\ Len(u) = Len(f) + 1 + Len(v)
  BY <1>2, <1>4, CompleteHasEnd, CutAtEnd
<1>6. Complete(v)
  BY <1>2, <1>5, CutComplete
<1>7. v \notin bad
  <2>1. Lengths[v] = Len(v) /\ Lengths[u] = Len(u) /\ Len(v) \in Nat /\ Len(f) \in Nat
    BY <1>2, LenProperties DEF Lengths
  <2>2. ~(Lengths[u] <= Lengths[v])
    BY <1>5, <2>1
  <2> QED
    BY <1>1, <2>2
<1>8. Frames[v \o t] = Frames[v] \o Frames[t]
  BY <1>6, <1>7
<1>9. u \o t = f \o <<END>> \o (v \o t) /\ v \o t \in Seq(Byte)
  <2>1. f \o <<END>> \in Seq(Byte) /\ v \o t \in Seq(Byte)
    BY CutFacts, ByteConcat
  <2>2. (f \o <<END>> \o v) \o t = (f \o <<END>>) \o (v \o t)
    <3> DEFINE g == f \o <<END>>
    <3> HIDE DEF g
    <3>1. g \in Seq(Byte)
      BY <2>1 DEF g
    <3>2. (g \o v) \o t = g \o (v \o t)
      BY <3>1, ConcatAssociative
    <3> QED
      BY <3>2 DEF g
  <2> QED
    BY <1>5, <2>1, <2>2, Zenon
<1>10. /\ Frames[u \o t] = Packet(Unescape[f]) \o (Frames[v] \o Frames[t])
       /\ Frames[u] = Packet(Unescape[f]) \o Frames[v]
  BY <1>5, <1>8, <1>9, FramesCut
<1>11. /\ Packet(Unescape[f]) \in Seq(Request) /\ Frames[v] \in Seq(Request)
  BY UnescapeType, PacketType, FramesType
<1>12. Packet(Unescape[f]) \o (Frames[v] \o Frames[t])
         = (Packet(Unescape[f]) \o Frames[v]) \o Frames[t]
  <2> DEFINE p == Packet(Unescape[f])
             q == Frames[v]
             r == Frames[t]
  <2>1. p \in Seq(Request) /\ q \in Seq(Request) /\ r \in Seq(Request)
    BY <1>3, <1>11
  <2> HIDE DEF p, q, r
  <2>2. (p \o q) \o r = p \o (q \o r)
    BY <2>1, ConcatAssociative
  <2> QED
    BY <2>2 DEF p, q, r
<1> QED
  BY <1>2, <1>10, <1>12

-----------------------------------------------------------------------------
(***************************************************************************)
(* What the encoder makes of a packet is a stream that means this packet.  *)
(***************************************************************************)

(* Every escape is followed by what it escapes.                            *)
Escapes(e) == \A i \in 1 .. Len(e) : e[i] = ESC => i < Len(e) /\ e[i + 1] \in {ESC_END, ESC_ESC}

(* e means p, whatever comes after it.                                     *)
Encodes(e, p) ==
  /\ e \in Seq(Byte) /\ NoEnd(e) /\ Escapes(e) /\ Len(p) <= Len(e)
  /\ \A t \in Seq(Byte) : Unescape[e \o t] = p \o Unescape[t]

LEMMA EmptyEncodes == Encodes(<<>>, <<>>)
<1>1. <<>> \in Seq(Byte) /\ Len(<<>>) = 0
  BY EmptySeq
<1>2. NoEnd(<<>>) /\ Escapes(<<>>)
  BY DEF NoEnd, Escapes
<1>3. ASSUME NEW t \in Seq(Byte) PROVE Unescape[<<>> \o t] = <<>> \o Unescape[t]
  <2>1. Unescape[t] \in Seq(Letter)
    BY UnescapeType
  <2>2. <<>> \o t = t
    BY ConcatEmptySeq
  <2>3. <<>> \o Unescape[t] = Unescape[t]
    BY <2>1, ConcatEmptySeq
  <2> QED
    BY <2>2, <2>3
<1> QED
  BY <1>1, <1>2, <1>3 DEF Encodes

LEMMA ByteEncodes ==
  ASSUME NEW b \in Byte
  PROVE  Encodes(Escaped(b), <<b>>) /\ Escaped(b) \in Seq(Byte)
<1>0. /\ END # ESC /\ ESC_END # END /\ ESC_ESC # END /\ ESC_END # ESC /\ ESC_ESC # ESC
      /\ ESC_END # ESC_ESC
  BY SlipAssumption
<1>1. CASE b = END
  <2>1. Escaped(b) = <<ESC, ESC_END>>
    BY <1>1 DEF Escaped
  <2> DEFINE e == <<ESC, ESC_END>>
  <2>2. e \in Seq(Byte) /\ Len(e) = 2 /\ e[1] = ESC /\ e[2] = ESC_END /\ Len(<<b>>) = 1
    BY Specials
  <2>3. ASSUME NEW t \in Seq(Byte) PROVE Unescape[e \o t] = <<b>> \o Unescape[t]
    BY <1>0, <1>1, Specials, UnescapeEscape DEF Meaning
  <2> HIDE DEF e
  <2>4. NoEnd(e) /\ Escapes(e)
    BY <1>0, <2>2 DEF NoEnd, Escapes
  <2>5. Encodes(e, <<b>>)
    BY <2>2, <2>3, <2>4 DEF Encodes
  <2> QED
    BY <2>1, <2>2, <2>5 DEF e
<1>2. CASE b = ESC
  <2>1. Escaped(b) = <<ESC, ESC_ESC>>
    BY <1>0, <1>2 DEF Escaped
  <2> DEFINE e == <<ESC, ESC_ESC>>
  <2>2. e \in Seq(Byte) /\ Len(e) = 2 /\ e[1] = ESC /\ e[2] = ESC_ESC /\ Len(<<b>>) = 1
    BY Specials
  <2>3. ASSUME NEW t \in Seq(Byte) PROVE Unescape[e \o t] = <<b>> \o Unescape[t]
    BY <1>0, <1>2, Specials, UnescapeEscape DEF Meaning
  <2> HIDE DEF e
  <2>4. NoEnd(e) /\ Escapes(e)
    BY <1>0, <2>2 DEF NoEnd, Escapes
  <2>5. Encodes(e, <<b>>)
    BY <2>2, <2>3, <2>4 DEF Encodes
  <2> QED
    BY <2>1, <2>2, <2>5 DEF e
<1>3. CASE b # END /\ b # ESC
  <2>1. Escaped(b) = <<b>>
    BY <1>3 DEF Escaped
  <2> DEFINE e == <<b>>
  <2>2. e \in Seq(Byte) /\ Len(e) = 1 /\ e[1] = b
    OBVIOUS
  <2>3. ASSUME NEW t \in Seq(Byte) PROVE Unescape[e \o t] = e \o Unescape[t]
    BY <1>3, UnescapePlain
  <2> HIDE DEF e
  <2>4. NoEnd(e) /\ Escapes(e)
    BY <1>3, <2>2 DEF NoEnd, Escapes
  <2>5. Encodes(e, e)
    BY <2>2, <2>3, <2>4 DEF Encodes
  <2> QED
    BY <2>1, <2>2, <2>5 DEF e
<1> QED
  BY <1>1, <1>2, <1>3

LEMMA ConcatEncodes ==
  ASSUME NEW e, NEW p \in Seq(Byte), Encodes(e, p),
         NEW d, NEW q \in Seq(Byte), Encodes(d, q)
  PROVE  Encodes(e \o d, p \o q)
<1>1. e \in Seq(Byte) /\ d \in Seq(Byte)
  BY DEF Encodes
<1> DEFINE c == e \o d
           r == p \o q
<1>2. /\ c \in Seq(Byte) /\ Len(c) = Len(e) + Len(d) /\ Len(e) \in Nat /\ Len(d) \in Nat
      /\ \A i \in 1 .. Len(e) : c[i] = e[i]
      /\ \A i \in 1 .. Len(d) : c[Len(e) + i] = d[i]
  BY <1>1, ByteConcat
<1>3. r \in Seq(Byte) /\ Len(r) = Len(p) + Len(q) /\ Len(p) \in Nat /\ Len(q) \in Nat
  BY ByteConcat
<1>4. ASSUME NEW t \in Seq(Byte) PROVE Unescape[c \o t] = r \o Unescape[t]
  <2> DEFINE u == Unescape[t]
  <2>1. u \in Seq(Letter) /\ p \in Seq(Letter) /\ q \in Seq(Letter)
    <3>1. Byte \subseteq Letter
      BY DEF Letter
    <3> QED
      BY <3>1, SeqMonotonic, UnescapeType
  <2>2. d \o t \in Seq(Byte)
    BY <1>1, ByteConcat
  <2>3. (e \o d) \o t = e \o (d \o t)
    BY <1>1, ByteAssociative
  <2>4. Unescape[e \o (d \o t)] = p \o Unescape[d \o t]
    BY <2>2 DEF Encodes
  <2>5. Unescape[d \o t] = q \o u
    BY DEF Encodes
  <2> HIDE DEF u
  <2>6. (p \o q) \o u = p \o (q \o u)
    BY <2>1, ConcatAssociative
  <2>7. Unescape[(e \o d) \o t] = (p \o q) \o u
    BY <2>3, <2>4, <2>5, <2>6, Zenon
  <2> QED
    BY <2>7 DEF u
<1> HIDE DEF c, r
<1>5. ASSUME NEW i \in 1 .. Len(c)
      PROVE  i \in 1 .. Len(e) \/ \E j \in 1 .. Len(d) : i = Len(e) + j
  <2>1. CASE ~(i <= Len(e))
    <3>1. i - Len(e) \in 1 .. Len(d) /\ i = Len(e) + (i - Len(e))
      BY <1>2, <2>1
    <3> QED
      BY <3>1
  <2> QED
    BY <1>2, <2>1
<1>6. NoEnd(c)
  <2>1. NoEnd(e) /\ NoEnd(d)
    BY DEF Encodes
  <2> QED
    BY <1>2, <1>5, <2>1 DEF NoEnd
<1>7. Escapes(c)
  <2>1. Escapes(e) /\ Escapes(d)
    BY DEF Encodes
  <2>2. ASSUME NEW i \in 1 .. Len(e), c[i] = ESC
        PROVE  i < Len(c) /\ c[i + 1] \in {ESC_END, ESC_ESC}
    <3>1. i < Len(e) /\ e[i + 1] \in {ESC_END, ESC_ESC}
      BY <1>2, <2>1, <2>2 DEF Escapes
    <3>2. PICK k \in 1 .. Len(e) : k = i + 1
      BY <1>2, <3>1
    <3>3. c[k] = e[k]
      BY <1>2
    <3> QED
      BY <1>2, <3>1, <3>2, <3>3
  <2>3. ASSUME NEW j \in 1 .. Len(d), c[Len(e) + j] = ESC
        PROVE  Len(e) + j < Len(c) /\ c[Len(e) + j + 1] \in {ESC_END, ESC_ESC}
    <3>1. j < Len(d) /\ d[j + 1] \in {ESC_END, ESC_ESC}
      BY <1>2, <2>1, <2>3 DEF Escapes
    <3>2. PICK k \in 1 .. Len(d) : k = j + 1
      BY <1>2, <3>1
    <3>3. c[Len(e) + k] = d[k] /\ Len(e) + k = Len(e) + j + 1
      BY <1>2, <3>2
    <3> QED
      BY <1>2, <3>1, <3>2, <3>3
  <2> QED
    BY <1>5, <2>2, <2>3 DEF Escapes
<1>8. Len(r) <= Len(c)
  <2>1. Len(p) <= Len(e) /\ Len(q) <= Len(d)
    BY DEF Encodes
  <2> QED
    BY <1>2, <1>3, <2>1
<1>9. Encodes(c, r)
  BY <1>2, <1>4, <1>6, <1>7, <1>8 DEF Encodes
<1> QED
  BY <1>9 DEF c, r

-----------------------------------------------------------------------------
(* FlattenSeq joins the sequences one by one.                              *)
Joins(f, seqs, n) == f = [i \in 1 .. n |-> IF i = 1 THEN seqs[i] ELSE f[i - 1] \o seqs[i]]

LEMMA JoinsAt ==
  ASSUME NEW f, NEW seqs, NEW n, Joins(f, seqs, n), NEW i \in 1 .. n
  PROVE  f[i] = IF i = 1 THEN seqs[i] ELSE f[i - 1] \o seqs[i]
<1> DEFINE g == [j \in 1 .. n |-> IF j = 1 THEN seqs[j] ELSE f[j - 1] \o seqs[j]]
<1>1. g[i] = IF i = 1 THEN seqs[i] ELSE f[i - 1] \o seqs[i]
  OBVIOUS
<1>2. f = g
  BY Zenon DEF Joins
<1> QED
  BY <1>1, <1>2, Zenon

LEMMA JoinsExists ==
  ASSUME NEW seqs
  PROVE  \A n \in Nat : \E f : Joins(f, seqs, n)
<1> DEFINE ok == {n \in Nat : \E f : Joins(f, seqs, n)}
           step(f, i) == IF i = 1 THEN seqs[i] ELSE f[i - 1] \o seqs[i]
<1>1. 0 \in ok
  <2> DEFINE g == [i \in 1 .. 0 |-> seqs[i]]
  <2>1. g = [i \in 1 .. 0 |-> step(g, i)]
    OBVIOUS
  <2>2. Joins(g, seqs, 0)
    BY <2>1, Zenon DEF Joins
  <2> QED
    BY <2>2
<1>2. ASSUME NEW n \in Nat, n \in ok PROVE n + 1 \in ok
  <2>1. PICK f : Joins(f, seqs, n)
    BY <1>2
  <2> DEFINE g == [i \in 1 .. n + 1 |-> step(f, i)]
  <2>2. \A i \in 1 .. n : f[i] = step(f, i)
    BY <2>1, JoinsAt
  <2>3. \A i \in 1 .. n : g[i] = f[i]
    <3> HIDE DEF step
    <3> QED
      BY <2>2
  <2>4. ASSUME NEW i \in 1 .. n + 1 PROVE step(f, i) = step(g, i)
    <3>1. i # 1 => i - 1 \in 1 .. n
      OBVIOUS
    <3>2. i # 1 => g[i - 1] = f[i - 1]
      BY <2>3, <3>1
    <3> HIDE DEF g
    <3> QED
      BY <3>2
  <2>5. g = [i \in 1 .. n + 1 |-> step(g, i)]
    <3> HIDE DEF step
    <3> QED
      BY <2>4
  <2>6. Joins(g, seqs, n + 1)
    BY <2>5, Zenon DEF Joins
  <2> HIDE DEF g
  <2> QED
    BY <2>6
<1>3. Nat \subseteq ok
  <2> HIDE DEF ok
  <2> QED
    BY <1>1, <1>2, SetInduction
<1> QED
  BY <1>3

LEMMA FlattenJoins ==
  ASSUME NEW seqs, Len(seqs) \in Nat, Len(seqs) # 0
  PROVE  \E f : Joins(f, seqs, Len(seqs)) /\ FlattenSeq(seqs) = f[Len(seqs)]
<1> DEFINE g == CHOOSE f : Joins(f, seqs, Len(seqs))
<1>1. Joins(g, seqs, Len(seqs))
  <2>1. \E f : Joins(f, seqs, Len(seqs))
    BY JoinsExists
  <2> QED
    BY <2>1, Zenon
<1>2. FlattenSeq(seqs) = g[Len(seqs)]
  BY Zenon DEF FlattenSeq, Joins
<1> QED
  BY <1>1, <1>2, Zenon

(* udi_cdc_write_slip_packet sends an encoding of the packet, and an END.  *)
LEMMA EncodeShape ==
  ASSUME NEW p \in Seq(Byte)
  PROVE  \E e : Encodes(e, p) /\ Encode(p) = e \o <<END>>
<1> DEFINE seqs == [i \in DOMAIN p |-> Escaped(p[i])]
<1>0. Len(p) \in Nat /\ DOMAIN p = 1 .. Len(p) /\ \A i \in 1 .. Len(p) : p[i] \in Byte
  BY LenProperties, ElementOfSeq
<1>1. /\ seqs \in Seq(Seq(Byte)) /\ Len(seqs) = Len(p)
      /\ \A i \in 1 .. Len(p) : seqs[i] = Escaped(p[i])
  <2>1. \A i \in 1 .. Len(p) : Escaped(p[i]) \in Seq(Byte)
    BY <1>0, ByteEncodes
  <2>2. seqs = [i \in 1 .. Len(p) |-> Escaped(p[i])]
    BY <1>0
  <2> DEFINE X == Seq(Byte)
  <2>3. \A i \in 1 .. Len(p) : Escaped(p[i]) \in X
    BY <2>1
  <2> HIDE DEF X
  <2>4. seqs \in Seq(X) /\ Len(seqs) = Len(p) /\ \A i \in 1 .. Len(p) : seqs[i] = Escaped(p[i])
    BY <1>0, <2>2, <2>3
  <2> QED
    BY <2>4 DEF X
<1>2. Encode(p) = FlattenSeq(seqs) \o <<END>>
  BY DEF Encode
<1>3. CASE p = <<>>
  <2>1. Len(p) = 0
    BY <1>3, EmptySeq
  <2>2. Len(seqs) = 0
    BY <1>1, <2>1
  <2> HIDE DEF seqs
  <2>3. FlattenSeq(seqs) = seqs
    BY <2>2, Zenon DEF FlattenSeq
  <2>4. seqs = <<>>
    BY <1>1, <2>2, EmptySeq
  <2> QED
    BY <1>2, <1>3, <2>3, <2>4, EmptyEncodes
<1>4. CASE p # <<>>
  <2>1. Len(p) # 0
    BY <1>4, EmptySeq
  <2> HIDE DEF seqs
  <2>2. PICK f : Joins(f, seqs, Len(p)) /\ FlattenSeq(seqs) = f[Len(p)]
    BY <1>0, <1>1, <2>1, FlattenJoins
  <2> DEFINE ok == {n \in Nat : n \in 1 .. Len(p) => Encodes(f[n], SubSeq(p, 1, n))}
  <2>3. 0 \in ok
    OBVIOUS
  <2>4. ASSUME NEW n \in Nat, n \in ok PROVE n + 1 \in ok
    <3> SUFFICES ASSUME n + 1 \in 1 .. Len(p) PROVE Encodes(f[n + 1], SubSeq(p, 1, n + 1))
      OBVIOUS
    <3>1. f[n + 1] = IF n + 1 = 1 THEN seqs[n + 1] ELSE f[n + 1 - 1] \o seqs[n + 1]
      BY <2>2, JoinsAt
    <3>2. p[n + 1] \in Byte /\ Encodes(seqs[n + 1], <<p[n + 1]>>)
      BY <1>0, <1>1, ByteEncodes
    <3>3. SubSeq(p, 1, n + 1) = SubSeq(p, 1, n) \o <<p[n + 1]>> /\ SubSeq(p, 1, n) \in Seq(Byte)
      <4>1. 1 \in 1 .. Len(p) /\ n + 1 \in 1 .. Len(p) /\ n \in 0 .. Len(p) /\ n + 1 - 1 = n
        BY <1>0
      <4> QED
        BY <4>1, SubSeqRecursiveSecond, SplitAt
    <3>4. CASE n = 0
      <4>1. SubSeq(p, 1, n) = <<>>
        BY <3>4, SubSeqEmpty
      <4>2. <<p[n + 1]>> \in Seq(Byte)
        BY <3>2
      <4>3. SubSeq(p, 1, n + 1) = <<p[n + 1]>>
        BY <3>3, <4>1, <4>2, ConcatEmptySeq
      <4>4. f[n + 1] = seqs[n + 1]
        BY <3>1, <3>4
      <4> QED
        BY <3>2, <4>3, <4>4
    <3>5. CASE n # 0
      <4>1. n \in 1 .. Len(p) /\ n + 1 - 1 = n /\ n + 1 # 1
        BY <1>0, <3>5
      <4>2. f[n + 1] = f[n] \o seqs[n + 1]
        BY <3>1, <4>1
      <4>3. Encodes(f[n], SubSeq(p, 1, n))
        BY <2>4, <4>1
      <4>4. <<p[n + 1]>> \in Seq(Byte)
        BY <3>2
      <4>5. Encodes(f[n] \o seqs[n + 1], SubSeq(p, 1, n) \o <<p[n + 1]>>)
        BY <3>2, <3>3, <4>3, <4>4, ConcatEncodes
      <4> QED
        BY <3>3, <4>2, <4>5
    <3> QED
      BY <3>4, <3>5
  <2>5. Nat \subseteq ok
    <3> HIDE DEF ok
    <3> QED
      BY <2>3, <2>4, SetInduction
  <2>6. Encodes(f[Len(p)], SubSeq(p, 1, Len(p)))
    BY <1>0, <2>1, <2>5
  <2>7. SubSeq(p, 1, Len(p)) = p
    BY SubSeqFull
  <2> QED
    BY <1>2, <2>2, <2>6, <2>7
<1> QED
  BY <1>3, <1>4

LEMMA EncodeType ==
  ASSUME NEW p \in Seq(Byte)
  PROVE  /\ Encode(p) \in Seq(Byte) /\ Encode(p) # <<>> /\ Complete(Encode(p))
         /\ Frames[Encode(p)] = Packet(p)
<1>1. PICK e : Encodes(e, p) /\ Encode(p) = e \o <<END>>
  BY EncodeShape
<1>2. /\ e \in Seq(Byte) /\ NoEnd(e)
      /\ \A t \in Seq(Byte) : Unescape[e \o t] = p \o Unescape[t]
  BY <1>1 DEF Encodes
<1>3. /\ e \o <<END>> \in Seq(Byte) /\ Len(e \o <<END>>) = Len(e) + 1 /\ Len(e) \in Nat
      /\ (e \o <<END>>)[Len(e) + 1] = END
  BY <1>2, EndByte, ByteConcat
<1>4. <<>> \in Seq(Byte)
  BY EmptySeq
<1>5. Unescape[e] = p
  <2>1. e \o <<>> = e /\ p \o <<>> = p
    BY <1>2, ConcatEmptySeq
  <2>2. Unescape[e \o <<>>] = p \o Unescape[<<>>]
    BY <1>2, <1>4
  <2> QED
    BY <2>1, <2>2, UnescapeEmpty
<1>6. Frames[e \o <<END>>] = Packet(p)
  <2>1. (e \o <<END>>) \o <<>> = e \o <<END>>
    BY <1>3, ConcatEmptySeq
  <2>2. Frames[e \o <<END>> \o <<>>] = Packet(Unescape[e]) \o Frames[<<>>]
    BY <1>2, <1>4, FramesCut
  <2>3. Packet(p) \in Seq(Request)
    <3>1. p \in Seq(Letter)
      BY SeqMonotonic DEF Letter
    <3> QED
      BY <3>1, PacketType
  <2>4. Packet(p) \o <<>> = Packet(p)
    BY <2>3, ConcatEmptySeq
  <2> QED
    BY <1>5, <2>1, <2>2, <2>4, FramesEmpty
<1>7. e \o <<END>> # <<>>
  BY <1>3, EmptySeq
<1> QED
  BY <1>1, <1>3, <1>6, <1>7 DEF Complete

-----------------------------------------------------------------------------
(***************************************************************************)
(* What a host that stops half way leaves behind.                          *)
(***************************************************************************)

(* Every escape is followed by what it escapes, or by the END of a host    *)
(* that began afresh.                                                      *)
Regular(s) ==
  \A i \in 1 .. Len(s) : s[i] = ESC => i < Len(s) /\ s[i + 1] \in {ESC_END, ESC_ESC, END}

(* The same of a packet, whose END is left out.                            *)
RegularPacket(f) ==
  \A i \in 1 .. Len(f) : f[i] = ESC => i = Len(f) \/ f[i + 1] \in {ESC_END, ESC_ESC}

(* v is the beginning of u, and may have one escape at its end that is not *)
(* followed by what it escapes.                                            *)
Shortened(v, u) == \E n \in 0 .. Len(u) :
  \/ v = SubSeq(u, 1, n)
  \/ n < Len(u) /\ u[n + 1] \in {END, ESC} /\ v = SubSeq(u, 1, n) \o <<Dangling>>

LEMMA LetterCons ==
  ASSUME NEW x \in Letter, NEW u \in Seq(Letter), NEW n \in 0 .. Len(u)
  PROVE  /\ <<x>> \o u \in Seq(Letter) /\ Len(<<x>> \o u) = Len(u) + 1 /\ Len(u) \in Nat
         /\ \A i \in 1 .. Len(u) : (<<x>> \o u)[i + 1] = u[i]
         /\ SubSeq(<<x>> \o u, 1, n + 1) = <<x>> \o SubSeq(u, 1, n)
         /\ SubSeq(u, 1, n) \in Seq(Letter)
<1>0. <<x>> \in Seq(Letter) /\ Len(<<x>>) = 1 /\ <<x>>[1] = x /\ Len(u) \in Nat
  BY LenProperties
<1> DEFINE w == <<x>> \o u
           a == SubSeq(u, 1, n)
           b == <<x>> \o a
           c == SubSeq(w, 1, n + 1)
<1>1. /\ w \in Seq(Letter) /\ Len(w) = 1 + Len(u) /\ w[1] = x
      /\ \A i \in 2 .. 1 + Len(u) : w[i] = u[i - 1]
  BY <1>0, ConcatProperties
<1>2. /\ a \in Seq(Letter) /\ Len(a) = n /\ \A i \in 1 .. n : a[i] = u[i]
  <2>1. \A i \in 1 .. n : u[i] \in Letter
    BY <1>0, ElementOfSeq
  <2>2. /\ a \in Seq(Letter) /\ Len(a) = IF 1 <= n THEN n - 1 + 1 ELSE 0
        /\ \A i \in 1 .. n - 1 + 1 : a[i] = u[1 + i - 1]
    BY <1>0, <2>1, SubSeqProperties
  <2> HIDE DEF a
  <2> QED
    BY <1>0, <2>2
<1> HIDE DEF a
<1>3. /\ b \in Seq(Letter) /\ Len(b) = 1 + n /\ b[1] = x
      /\ \A i \in 2 .. 1 + n : b[i] = a[i - 1]
  BY <1>0, <1>2, ConcatProperties
<1> HIDE DEF w, b
<1>4. /\ c \in Seq(Letter) /\ Len(c) = n + 1 /\ \A i \in 1 .. n + 1 : c[i] = w[i]
  <2>1. \A i \in 1 .. n + 1 : w[i] \in Letter
    BY <1>0, <1>1, ElementOfSeq
  <2>2. /\ c \in Seq(Letter) /\ Len(c) = IF 1 <= n + 1 THEN n + 1 - 1 + 1 ELSE 0
        /\ \A i \in 1 .. n + 1 - 1 + 1 : c[i] = w[1 + i - 1]
    BY <1>0, <2>1, SubSeqProperties
  <2> HIDE DEF c
  <2> QED
    BY <1>0, <2>2
<1> HIDE DEF c
<1>5. ASSUME NEW i \in 1 .. n + 1 PROVE c[i] = b[i]
  <2>1. CASE i = 1
    BY <1>1, <1>3, <1>4, <2>1
  <2>2. CASE i # 1
    <3>1. i \in 2 .. 1 + n /\ i \in 2 .. 1 + Len(u) /\ i - 1 \in 1 .. n
      BY <1>0, <2>2
    <3> QED
      BY <1>1, <1>2, <1>3, <1>4, <3>1
  <2> QED
    BY <2>1, <2>2
<1>6. c = b
  <2>1. Len(c) = Len(b) /\ \A i \in 1 .. Len(c) : c[i] = b[i]
    BY <1>0, <1>3, <1>4, <1>5
  <2> QED
    BY <1>3, <1>4, <2>1, SeqEqual
<1>7. \A i \in 1 .. Len(u) : w[i + 1] = u[i]
  <2>1. ASSUME NEW i \in 1 .. Len(u) PROVE w[i + 1] = u[i]
    <3>1. i + 1 \in 2 .. 1 + Len(u) /\ i + 1 - 1 = i
      BY <1>0
    <3> QED
      BY <1>1, <3>1
  <2> QED
    BY <2>1
<1>8. Len(w) = Len(u) + 1
  BY <1>0, <1>1
<1> QED
  BY <1>0, <1>1, <1>2, <1>6, <1>7, <1>8 DEF w, a, b, c

LEMMA LetterAssociative ==
  \A r, s, t \in Seq(Letter) : (r \o s) \o t = r \o (s \o t)
BY ConcatAssociative

LEMMA ShortenedCons ==
  ASSUME NEW x \in Letter, NEW u \in Seq(Letter), NEW v \in Seq(Letter), Shortened(v, u)
  PROVE  Shortened(<<x>> \o v, <<x>> \o u)
<1>1. PICK n \in 0 .. Len(u) :
        \/ v = SubSeq(u, 1, n)
        \/ n < Len(u) /\ u[n + 1] \in {END, ESC} /\ v = SubSeq(u, 1, n) \o <<Dangling>>
  BY DEF Shortened
<1> DEFINE w == <<x>> \o u
<1>2. /\ w \in Seq(Letter) /\ Len(w) = Len(u) + 1 /\ Len(u) \in Nat
      /\ \A i \in 1 .. Len(u) : w[i + 1] = u[i]
      /\ SubSeq(w, 1, n + 1) = <<x>> \o SubSeq(u, 1, n)
      /\ SubSeq(u, 1, n) \in Seq(Letter)
  BY LetterCons
<1> HIDE DEF w
<1>3. n + 1 \in 0 .. Len(w)
  BY <1>2
<1>4. CASE v = SubSeq(u, 1, n)
  <2>1. <<x>> \o v = SubSeq(w, 1, n + 1)
    BY <1>2, <1>4, Zenon
  <2>2. Shortened(<<x>> \o v, w)
    BY <1>3, <2>1, Zenon DEF Shortened
  <2> QED
    BY <2>2 DEF w
<1>5. CASE n < Len(u) /\ u[n + 1] \in {END, ESC} /\ v = SubSeq(u, 1, n) \o <<Dangling>>
  <2> DEFINE a == SubSeq(u, 1, n)
             d == <<Dangling>>
             y == <<x>>
  <2>1. a \in Seq(Letter) /\ d \in Seq(Letter) /\ y \in Seq(Letter)
    BY <1>2 DEF Letter
  <2>2. SubSeq(w, 1, n + 1) = y \o a /\ v = a \o d
    BY <1>2, <1>5, Zenon
  <2> HIDE DEF a, d, y
  <2>3. (y \o a) \o d = y \o (a \o d)
    BY <2>1, LetterAssociative
  <2>4. y \o v = SubSeq(w, 1, n + 1) \o d
    BY <2>2, <2>3, Zenon
  <2>5. n + 1 < Len(w) /\ w[n + 1 + 1] \in {END, ESC}
    <3>1. n + 1 \in 1 .. Len(u)
      BY <1>2, <1>5
    <3> QED
      BY <1>2, <1>5, <3>1
  <2>6. Shortened(y \o v, w)
    BY <1>3, <2>4, <2>5, Zenon DEF Shortened, d
  <2> QED
    BY <2>6 DEF w, y
<1> QED
  BY <1>1, <1>4, <1>5

LEMMA ByteLetters == Byte \subseteq Letter /\ \A s \in Seq(Byte) : s \in Seq(Letter)
<1>1. Byte \subseteq Letter
  BY DEF Letter
<1> QED
  BY <1>1, SeqMonotonic

(* The first byte of a packet and the others.                              *)
LEMMA TakeFirst ==
  ASSUME NEW f \in Seq(Byte), f # <<>>
  PROVE  /\ f[1] \in Byte /\ Tail(f) \in Seq(Byte) /\ Len(Tail(f)) = Len(f) - 1
         /\ Len(f) \in Nat \ {0}
         /\ \A i \in 1 .. Len(f) - 1 : Tail(f)[i] = f[i + 1]
         /\ f = <<f[1]>> \o Tail(f)
         /\ \A m \in 1 .. Len(f) : SubSeq(f, 1, m) = <<f[1]>> \o SubSeq(Tail(f), 1, m - 1)
<1> DEFINE t == Tail(f)
           b == f[1]
<1>1. Len(f) \in Nat \ {0} /\ b \in Byte
  <2>1. Len(f) \in Nat \ {0}
    BY EmptySeq
  <2> QED
    BY <2>1, ElementOfSeq
<1>2. t \in Seq(Byte) /\ Len(t) = Len(f) - 1 /\ \A i \in 1 .. Len(f) - 1 : t[i] = f[i + 1]
  BY HeadTailProperties
<1> HIDE DEF t, b
<1>3. f = <<b>> \o t
  <2>1. f = SubSeq(f, 1, Len(f)) /\ Tail(f) = SubSeq(f, 2, Len(f))
    BY SubSeqFull, TailIsSubSeq
  <2>2. SubSeq(f, 1, Len(f)) = <<f[1]>> \o SubSeq(f, 1 + 1, Len(f))
    BY <1>1, SubSeqRecursiveFirst
  <2> QED
    BY <2>1, <2>2 DEF t, b
<1>4. ASSUME NEW m \in 1 .. Len(f) PROVE SubSeq(f, 1, m) = <<b>> \o SubSeq(t, 1, m - 1)
  <2>1. b \in Letter /\ t \in Seq(Letter) /\ m - 1 \in 0 .. Len(t) /\ m - 1 + 1 = m
    BY <1>1, <1>2, ByteLetters
  <2>2. SubSeq(<<b>> \o t, 1, m - 1 + 1) = <<b>> \o SubSeq(t, 1, m - 1)
    BY <2>1, LetterCons
  <2> QED
    BY <1>3, <2>1, <2>2
<1> QED
  BY <1>1, <1>2, <1>3, <1>4 DEF t, b

LEMMA UnescapePair ==
  ASSUME NEW b \in Byte, NEW t \in Seq(Byte)
  PROVE  Unescape[<<ESC>> \o (<<b>> \o t)] = Meaning(b) \o Unescape[t]
<1>1. <<ESC>> \in Seq(Byte) /\ <<b>> \in Seq(Byte)
  BY Specials
<1>2. <<ESC>> \o <<b>> = <<ESC, b>>
  <2> DEFINE x == <<ESC>>
             y == <<b>>
             w == <<ESC, b>>
  <2>1. /\ x \in Seq(Byte) /\ Len(x) = 1 /\ x[1] = ESC
        /\ y \in Seq(Byte) /\ Len(y) = 1 /\ y[1] = b
        /\ w \in Seq(Byte) /\ Len(w) = 2 /\ w[1] = ESC /\ w[2] = b
    BY Specials
  <2> HIDE DEF x, y, w
  <2> DEFINE xy == x \o y
  <2>4. /\ xy \in Seq(Byte) /\ Len(xy) = Len(x) + Len(y)
        /\ \A i \in 1 .. Len(x) : xy[i] = x[i]
        /\ \A i \in 1 .. Len(y) : xy[Len(x) + i] = y[i]
    BY <2>1, ByteConcat
  <2> HIDE DEF xy
  <2>2. Len(xy) = 2 /\ xy[1] = ESC /\ xy[2] = b
    BY <2>1, <2>4
  <2>3. xy = w
    <3>1. \A i \in 1 .. Len(xy) : xy[i] = w[i]
      BY <2>1, <2>2
    <3> QED
      BY <2>1, <2>2, <2>4, <3>1, SeqEqual
  <2> QED
    BY <2>3, Zenon DEF x, y, w, xy
<1> DEFINE e == <<ESC>>
           c == <<b>>
<1>3. e \in Seq(Byte) /\ c \in Seq(Byte)
  BY <1>1
<1> HIDE DEF e, c
<1>4. (e \o c) \o t = e \o (c \o t)
  BY <1>3, ByteAssociative
<1>5. Unescape[<<ESC, b>> \o t] = Meaning(b) \o Unescape[t]
  BY UnescapeEscape
<1> QED
  BY <1>2, <1>4, <1>5, Zenon DEF e, c

LEMMA MeaningOne ==
  ASSUME NEW b \in {ESC_END, ESC_ESC}
  PROVE  \E x \in {END, ESC} : Meaning(b) = <<x>>
BY SlipAssumption DEF Meaning

(* So does a packet cut short mean its beginning.                          *)
LEMMA PacketShortened ==
  ASSUME NEW f \in Seq(Byte), RegularPacket(f), NEW m \in 0 .. Len(f)
  PROVE  Shortened(Unescape[SubSeq(f, 1, m)], Unescape[f])
<1> DEFINE bad == {g \in Seq(Byte) : RegularPacket(g) /\
             \E k \in 0 .. Len(g) : ~Shortened(Unescape[SubSeq(g, 1, k)], Unescape[g])}
<1> SUFFICES ASSUME bad # {} PROVE FALSE
  OBVIOUS
<1>1. PICK g \in bad : \A h \in bad : Lengths[g] <= Lengths[h]
  <2>1. bad \subseteq Seq(Byte)
    OBVIOUS
  <2> HIDE DEF bad
  <2> QED
    BY <2>1, LengthsType, Shortest
<1>2. g \in Seq(Byte) /\ RegularPacket(g)
  BY <1>1
<1>3. PICK k \in 0 .. Len(g) : ~Shortened(Unescape[SubSeq(g, 1, k)], Unescape[g])
  BY <1>1
<1>4. \A h \in Seq(Byte) : RegularPacket(h) /\ Len(h) < Len(g) =>
        \A j \in 0 .. Len(h) : Shortened(Unescape[SubSeq(h, 1, j)], Unescape[h])
  <2> SUFFICES ASSUME NEW h \in Seq(Byte), RegularPacket(h), Len(h) < Len(g), NEW j \in 0 .. Len(h),
                      ~Shortened(Unescape[SubSeq(h, 1, j)], Unescape[h])
               PROVE  FALSE
    OBVIOUS
  <2>1. h \in bad
    OBVIOUS
  <2>2. Lengths[g] = Len(g) /\ Lengths[h] = Len(h) /\ Len(g) \in Nat /\ Len(h) \in Nat
    BY <1>2, LenProperties DEF Lengths
  <2> QED
    BY <1>1, <2>1, <2>2
<1> HIDE DEF bad
<1> DEFINE U == Unescape[g]
<1>5. U \in Seq(Letter) /\ Len(U) \in Nat
  BY <1>2, UnescapeType, LenProperties
<1>6. k # 0
  <2> SUFFICES ASSUME k = 0 PROVE FALSE
    OBVIOUS
  <2>1. SubSeq(g, 1, k) = <<>> /\ SubSeq(U, 1, 0) = <<>>
    BY SubSeqEmpty
  <2>2. Unescape[SubSeq(g, 1, k)] = SubSeq(U, 1, 0)
    BY <2>1, UnescapeEmpty
  <2>3. 0 \in 0 .. Len(U)
    BY <1>5
  <2>4. Shortened(Unescape[SubSeq(g, 1, k)], U)
    BY <2>2, <2>3, Zenon DEF Shortened
  <2> QED
    BY <1>3, <2>4
<1>7. k # Len(g)
  <2> SUFFICES ASSUME k = Len(g) PROVE FALSE
    OBVIOUS
  <2>1. SubSeq(g, 1, k) = g /\ SubSeq(U, 1, Len(U)) = U
    BY <1>2, <1>5, SubSeqFull
  <2>2. Unescape[SubSeq(g, 1, k)] = SubSeq(U, 1, Len(U))
    BY <2>1
  <2>3. Len(U) \in 0 .. Len(U)
    BY <1>5
  <2>4. Shortened(Unescape[SubSeq(g, 1, k)], U)
    BY <2>2, <2>3, Zenon DEF Shortened
  <2> QED
    BY <1>3, <2>4
<1>8. Len(g) \in Nat /\ k \in 1 .. Len(g) - 1 /\ Len(g) >= 2 /\ g # <<>>
  <2>1. Len(g) \in Nat
    BY <1>2, LenProperties
  <2>2. k \in 1 .. Len(g) - 1 /\ Len(g) >= 2
    BY <1>3, <1>6, <1>7, <2>1
  <2> QED
    BY <1>2, <2>1, <2>2, EmptySeq
<1> DEFINE t == Tail(g)
           b == g[1]
<1>9. /\ b \in Byte /\ t \in Seq(Byte) /\ Len(t) = Len(g) - 1
      /\ \A i \in 1 .. Len(g) - 1 : t[i] = g[i + 1]
      /\ g = <<b>> \o t
      /\ SubSeq(g, 1, k) = <<b>> \o SubSeq(t, 1, k - 1)
  BY <1>2, <1>8, TakeFirst
<1> HIDE DEF t, b
<1>10. RegularPacket(t)
  <2> SUFFICES ASSUME NEW i \in 1 .. Len(t), t[i] = ESC
               PROVE  i = Len(t) \/ t[i + 1] \in {ESC_END, ESC_ESC}
    BY DEF RegularPacket
  <2>1. g[i + 1] = ESC /\ i + 1 \in 1 .. Len(g)
    BY <1>8, <1>9
  <2>2. i + 1 = Len(g) \/ g[i + 1 + 1] \in {ESC_END, ESC_ESC}
    BY <1>2, <2>1 DEF RegularPacket
  <2>3. CASE i + 1 = Len(g)
    BY <1>8, <1>9, <2>3
  <2>4. CASE i + 1 # Len(g)
    <3>1. i + 1 \in 1 .. Len(g) - 1
      BY <1>8, <1>9, <2>4
    <3>2. t[i + 1] = g[i + 1 + 1]
      BY <1>9, <3>1
    <3> QED
      BY <2>2, <2>4, <3>2
  <2> QED
    BY <2>3, <2>4
<1>11. CASE b # ESC
  <2>1. SubSeq(t, 1, k - 1) \in Seq(Byte) /\ k - 1 \in 0 .. Len(t) /\ Len(t) < Len(g)
    BY <1>8, <1>9, SplitAt
  <2>2. Shortened(Unescape[SubSeq(t, 1, k - 1)], Unescape[t])
    BY <1>4, <1>9, <1>10, <2>1
  <2>3. /\ U = <<b>> \o Unescape[t]
        /\ Unescape[SubSeq(g, 1, k)] = <<b>> \o Unescape[SubSeq(t, 1, k - 1)]
    BY <1>9, <1>11, <2>1, UnescapePlain
  <2>4. b \in Letter /\ Unescape[t] \in Seq(Letter) /\ Unescape[SubSeq(t, 1, k - 1)] \in Seq(Letter)
    BY <1>9, <2>1, UnescapeType, ByteLetters
  <2>5. Shortened(<<b>> \o Unescape[SubSeq(t, 1, k - 1)], <<b>> \o Unescape[t])
    BY <2>2, <2>4, ShortenedCons
  <2> QED
    BY <1>3, <2>3, <2>5
<1>12. CASE b = ESC
  <2> DEFINE u == Tail(t)
             c == t[1]
  <2>1. t # <<>>
    BY <1>8, <1>9, EmptySeq
  <2>2. /\ c \in Byte /\ u \in Seq(Byte) /\ Len(u) = Len(t) - 1
        /\ \A i \in 1 .. Len(t) - 1 : u[i] = t[i + 1]
        /\ t = <<c>> \o u
        /\ \A j \in 1 .. Len(t) : SubSeq(t, 1, j) = <<c>> \o SubSeq(u, 1, j - 1)
    BY <1>9, <2>1, TakeFirst
  <2> HIDE DEF u, c
  <2>3. c \in {ESC_END, ESC_ESC}
    <3>1. 1 \in 1 .. Len(g) /\ 1 # Len(g) /\ 1 \in 1 .. Len(g) - 1
      BY <1>8
    <3>5. g[1] = ESC
      BY <1>12 DEF b
    <3>2. g[1 + 1] \in {ESC_END, ESC_ESC}
      BY <1>2, <3>1, <3>5 DEF RegularPacket
    <3>3. t[1] = g[1 + 1]
      BY <1>9, <3>1
    <3> QED
      BY <3>2, <3>3 DEF c
  <2>4. PICK x \in {END, ESC} : Meaning(c) = <<x>>
    BY <2>3, MeaningOne
  <2>5. U = <<x>> \o Unescape[u] /\ Unescape[u] \in Seq(Letter) /\ x \in Letter
    <3>1. Unescape[<<ESC>> \o (<<c>> \o u)] = Meaning(c) \o Unescape[u]
      BY <2>2, UnescapePair
    <3>2. g = <<ESC>> \o (<<c>> \o u)
      BY <1>9, <1>12, <2>2, Zenon
    <3>3. U = <<x>> \o Unescape[u]
      BY <2>4, <3>1, <3>2, Zenon
    <3>4. x \in Letter
      BY Specials, ByteLetters
    <3> QED
      BY <2>2, <3>3, <3>4, UnescapeType
  <2>6. CASE k = 1
    <3>1. SubSeq(t, 1, 0) = <<>> /\ <<b>> \in Seq(Byte)
      BY <1>9, SubSeqEmpty
    <3>2. SubSeq(g, 1, k) = <<ESC>>
      <4>1. k - 1 = 0
        BY <2>6
      <4>2. <<b>> \o <<>> = <<b>>
        BY <3>1, ConcatEmptySeq
      <4> QED
        BY <1>9, <1>12, <3>1, <4>1, <4>2
    <3>3. Unescape[SubSeq(g, 1, k)] = <<Dangling>>
      BY <3>2, UnescapeDangling
    <3>4. SubSeq(U, 1, 0) \o <<Dangling>> = <<Dangling>>
      <4>1. SubSeq(U, 1, 0) = <<>> /\ <<Dangling>> \in Seq(Letter)
        BY SubSeqEmpty DEF Letter
      <4> QED
        BY <4>1, ConcatEmptySeq
    <3>5. 0 < Len(U) /\ U[0 + 1] \in {END, ESC} /\ 0 \in 0 .. Len(U)
      <4> DEFINE y == <<x>>
                 w == Unescape[u]
      <4>1. y \in Seq(Letter) /\ Len(y) = 1 /\ y[1] = x /\ w \in Seq(Letter)
        BY <2>5
      <4>2. Len(w) \in Nat /\ U = y \o w
        BY <2>5, LenProperties
      <4> HIDE DEF y, w, U
      <4>3. /\ Len(y \o w) = Len(y) + Len(w)
            /\ \A i \in 1 .. Len(y) + Len(w) :
                 (y \o w)[i] = IF i <= Len(y) THEN y[i] ELSE w[i - Len(y)]
        BY <4>1, ConcatProperties
      <4> QED
        BY <4>1, <4>2, <4>3
    <3>6. Shortened(Unescape[SubSeq(g, 1, k)], U)
      BY <3>3, <3>4, <3>5, Zenon DEF Shortened
    <3> QED
      BY <1>3, <3>6
  <2>7. CASE k # 1
    <3>1. /\ k - 1 \in 1 .. Len(t) /\ k - 1 - 1 = k - 2 /\ k - 2 \in 0 .. Len(u) /\ Len(u) < Len(g)
          /\ Len(t) \in Nat
      BY <1>8, <1>9, <2>2, <2>7
    <3>2. SubSeq(t, 1, k - 1) = <<c>> \o SubSeq(u, 1, k - 2)
      BY <2>2, <3>1
    <3>3. SubSeq(g, 1, k) = <<ESC>> \o (<<c>> \o SubSeq(u, 1, k - 2))
      BY <1>9, <1>12, <3>2
    <3>4. SubSeq(u, 1, k - 2) \in Seq(Byte)
      BY <2>2, <3>1, SplitAt
    <3>5. Unescape[SubSeq(g, 1, k)] = <<x>> \o Unescape[SubSeq(u, 1, k - 2)]
      BY <2>2, <2>4, <3>3, <3>4, UnescapePair
    <3>6. RegularPacket(u)
      <4> SUFFICES ASSUME NEW i \in 1 .. Len(u), u[i] = ESC
                   PROVE  i = Len(u) \/ u[i + 1] \in {ESC_END, ESC_ESC}
        BY DEF RegularPacket
      <4>1. t[i + 1] = ESC /\ i + 1 \in 1 .. Len(t)
        BY <2>2, <3>1
      <4>2. i + 1 = Len(t) \/ t[i + 1 + 1] \in {ESC_END, ESC_ESC}
        BY <1>10, <4>1 DEF RegularPacket
      <4>3. CASE i + 1 = Len(t)
        BY <2>2, <3>1, <4>3
      <4>4. CASE i + 1 # Len(t)
        <5>1. i + 1 \in 1 .. Len(t) - 1
          BY <2>2, <3>1, <4>4
        <5>2. u[i + 1] = t[i + 1 + 1]
          BY <2>2, <5>1
        <5> QED
          BY <4>2, <4>4, <5>2
      <4> QED
        BY <4>3, <4>4
    <3>7. Shortened(Unescape[SubSeq(u, 1, k - 2)], Unescape[u])
      BY <1>4, <2>2, <3>1, <3>6
    <3>8. Shortened(<<x>> \o Unescape[SubSeq(u, 1, k - 2)], <<x>> \o Unescape[u])
      BY <2>5, <3>4, <3>7, UnescapeType, ShortenedCons
    <3> QED
      BY <1>3, <2>5, <3>5, <3>8
  <2> QED
    BY <2>6, <2>7
<1> QED
  BY <1>11, <1>12

-----------------------------------------------------------------------------
(***************************************************************************)
(* Streams whose packets fit in a buffer, and streams of replies.          *)
(***************************************************************************)

(* No more than n bytes stand between two ENDs.                            *)
Fits(s, n) == \A i \in 1 .. Len(s) - n : \E k \in i .. i + n : s[k] = END

(* Every escape is followed by what it escapes, and no packet is empty.    *)
Tidy(s) == \A i \in 1 .. Len(s) :
  /\ s[i] = ESC => i < Len(s) /\ s[i + 1] \in {ESC_END, ESC_ESC}
  /\ s[i] = END => i > 1 /\ s[i - 1] # END

LEMMA CompleteConcat ==
  ASSUME NEW s \in Seq(Byte), NEW t \in Seq(Byte), Complete(s), Complete(t)
  PROVE  Complete(s \o t)
<1>1. CASE t = <<>>
  BY <1>1, ConcatEmptySeq
<1>2. CASE t # <<>>
  <2> DEFINE c == s \o t
  <2>1. /\ Len(c) = Len(s) + Len(t) /\ Len(s) \in Nat /\ Len(t) \in Nat
        /\ \A i \in 1 .. Len(t) : c[Len(s) + i] = t[i]
    BY ByteConcat
  <2>2. Len(t) \in 1 .. Len(t) /\ t[Len(t)] = END
    BY <1>2, <2>1, EmptySeq DEF Complete
  <2> HIDE DEF c
  <2>3. c[Len(c)] = END
    BY <2>1, <2>2
  <2> QED
    BY <2>3 DEF Complete, c
<1> QED
  BY <1>1, <1>2

LEMMA FitsConcat ==
  ASSUME NEW s \in Seq(Byte), NEW t \in Seq(Byte), NEW n \in Nat,
         Complete(s), Fits(s, n), Fits(t, n)
  PROVE  Fits(s \o t, n)
<1> DEFINE c == s \o t
<1>1. /\ Len(c) = Len(s) + Len(t) /\ Len(s) \in Nat /\ Len(t) \in Nat
      /\ \A i \in 1 .. Len(s) : c[i] = s[i]
      /\ \A i \in 1 .. Len(t) : c[Len(s) + i] = t[i]
  BY ByteConcat
<1> HIDE DEF c
<1>2. SUFFICES ASSUME NEW i \in 1 .. Len(c) - n PROVE \E k \in i .. i + n : c[k] = END
  BY Zenon DEF Fits, c
<1>3. CASE i + n <= Len(s)
  <2>1. i \in 1 .. Len(s) - n
    BY <1>1, <1>3
  <2>2. PICK k \in i .. i + n : s[k] = END
    BY <2>1 DEF Fits
  <2>3. k \in 1 .. Len(s)
    BY <1>1, <1>3
  <2> QED
    BY <1>1, <2>2, <2>3
<1>4. CASE i > Len(s)
  <2>1. PICK j \in 1 .. Len(t) - n : i = Len(s) + j
    <3>1. i - Len(s) \in 1 .. Len(t) - n /\ i = Len(s) + (i - Len(s))
      BY <1>1, <1>4
    <3> QED
      BY <3>1
  <2>2. PICK k \in j .. j + n : t[k] = END
    BY DEF Fits
  <2>3. Len(s) + k \in i .. i + n /\ k \in 1 .. Len(t)
    BY <1>1, <2>1
  <2> QED
    BY <1>1, <2>2, <2>3
<1>5. CASE i <= Len(s) /\ i + n > Len(s)
  <2>1. Len(s) \in i .. i + n /\ Len(s) \in 1 .. Len(s)
    BY <1>1, <1>5
  <2>2. s # <<>>
    BY <2>1, EmptySeq
  <2>3. s[Len(s)] = END
    BY <2>2 DEF Complete
  <2> QED
    BY <1>1, <2>1, <2>3
<1> QED
  BY <1>1, <1>3, <1>4, <1>5

LEMMA RegularConcat ==
  ASSUME NEW s \in Seq(Byte), NEW t \in Seq(Byte), Regular(s), Regular(t)
  PROVE  Regular(s \o t)
<1> DEFINE c == s \o t
<1>1. /\ Len(c) = Len(s) + Len(t) /\ Len(s) \in Nat /\ Len(t) \in Nat
      /\ \A i \in 1 .. Len(s) : c[i] = s[i]
      /\ \A i \in 1 .. Len(t) : c[Len(s) + i] = t[i]
  BY ByteConcat
<1> HIDE DEF c
<1>2. SUFFICES ASSUME NEW i \in 1 .. Len(c), c[i] = ESC
               PROVE  i < Len(c) /\ c[i + 1] \in {ESC_END, ESC_ESC, END}
  BY Zenon DEF Regular, c
<1>3. CASE i <= Len(s)
  <2>1. i \in 1 .. Len(s)
    BY <1>1, <1>3
  <2>2. i < Len(s) /\ s[i + 1] \in {ESC_END, ESC_ESC, END}
    BY <1>1, <1>2, <2>1 DEF Regular
  <2>3. i + 1 \in 1 .. Len(s) /\ i < Len(c)
    BY <1>1, <2>1, <2>2
  <2>4. c[i + 1] = s[i + 1]
    BY <1>1, <2>3
  <2> QED
    BY <2>2, <2>3, <2>4
<1>4. CASE i > Len(s)
  <2>1. PICK j \in 1 .. Len(t) : i = Len(s) + j
    <3>1. i - Len(s) \in 1 .. Len(t) /\ i = Len(s) + (i - Len(s))
      BY <1>1, <1>4
    <3> QED
      BY <3>1
  <2>2. t[j] = ESC
    BY <1>1, <1>2, <2>1
  <2>3. j < Len(t) /\ t[j + 1] \in {ESC_END, ESC_ESC, END}
    BY <2>2 DEF Regular
  <2>4. PICK k \in 1 .. Len(t) : k = j + 1
    BY <1>1, <2>3
  <2>5. c[Len(s) + k] = t[k] /\ i + 1 = Len(s) + k /\ i < Len(c)
    BY <1>1, <2>1, <2>3, <2>4
  <2> QED
    BY <2>3, <2>4, <2>5
<1> QED
  BY <1>1, <1>3, <1>4

(* What is left of a stream when its first packet has been read, and that  *)
(* packet.                                                                 *)
LEMMA CutFits ==
  ASSUME NEW f \in Seq(Byte), NEW t \in Seq(Byte), NEW n \in Nat, Fits(f \o <<END>> \o t, n)
  PROVE  Fits(t, n)
<1> DEFINE c == f \o <<END>> \o t
<1>1. /\ Len(c) = Len(f) + 1 + Len(t) /\ Len(f) \in Nat /\ Len(t) \in Nat
      /\ \A i \in 1 .. Len(t) : c[Len(f) + 1 + i] = t[i]
  BY CutFacts
<1>2. Fits(c, n)
  OBVIOUS
<1> HIDE DEF c
<1>3. SUFFICES ASSUME NEW i \in 1 .. Len(t) - n PROVE \E k \in i .. i + n : t[k] = END
  BY DEF Fits
<1>4. Len(f) + 1 + i \in 1 .. Len(c) - n
  BY <1>1
<1>5. PICK j \in Len(f) + 1 + i .. Len(f) + 1 + i + n : c[j] = END
  BY <1>2, <1>4 DEF Fits
<1>6. PICK k \in i .. i + n : j = Len(f) + 1 + k
  <2>1. j - (Len(f) + 1) \in i .. i + n /\ j = Len(f) + 1 + (j - (Len(f) + 1))
    BY <1>1
  <2> QED
    BY <2>1
<1>7. k \in 1 .. Len(t)
  BY <1>1
<1> QED
  BY <1>1, <1>5, <1>6, <1>7

LEMMA CutRegular ==
  ASSUME NEW f \in Seq(Byte), NEW t \in Seq(Byte), Regular(f \o <<END>> \o t)
  PROVE  /\ Regular(t)
         /\ NoEnd(f) => RegularPacket(f)
<1> DEFINE c == f \o <<END>> \o t
<1>1. /\ Len(c) = Len(f) + 1 + Len(t) /\ Len(f) \in Nat /\ Len(t) \in Nat
      /\ \A i \in 1 .. Len(f) : c[i] = f[i]
      /\ \A i \in 1 .. Len(t) : c[Len(f) + 1 + i] = t[i]
  BY CutFacts
<1>2. Regular(c)
  OBVIOUS
<1> HIDE DEF c
<1>3. Regular(t)
  <2> SUFFICES ASSUME NEW i \in 1 .. Len(t), t[i] = ESC
               PROVE  i < Len(t) /\ t[i + 1] \in {ESC_END, ESC_ESC, END}
    BY DEF Regular
  <2>1. PICK j \in 1 .. Len(c) : j = Len(f) + 1 + i
    BY <1>1
  <2>2. j < Len(c) /\ c[j + 1] \in {ESC_END, ESC_ESC, END}
    BY <1>1, <1>2, <2>1 DEF Regular
  <2>3. PICK k \in 1 .. Len(t) : k = i + 1 /\ j + 1 = Len(f) + 1 + k
    BY <1>1, <2>1, <2>2
  <2> QED
    BY <1>1, <2>1, <2>2, <2>3
<1>4. ASSUME NoEnd(f) PROVE RegularPacket(f)
  <2> SUFFICES ASSUME NEW i \in 1 .. Len(f), f[i] = ESC, i # Len(f)
               PROVE  f[i + 1] \in {ESC_END, ESC_ESC}
    BY DEF RegularPacket
  <2>1. i \in 1 .. Len(c) /\ c[i] = ESC
    BY <1>1
  <2>2. c[i + 1] \in {ESC_END, ESC_ESC, END}
    BY <1>2, <2>1 DEF Regular
  <2>3. PICK k \in 1 .. Len(f) : k = i + 1
    BY <1>1
  <2>4. c[k] = f[k] /\ f[k] # END
    BY <1>1, <1>4, <2>3 DEF NoEnd
  <2> QED
    BY <2>2, <2>3, <2>4
<1> QED
  BY <1>3, <1>4

LEMMA FitsNoEnd ==
  ASSUME NEW f \in Seq(Byte), NEW t \in Seq(Byte), NEW n \in Nat, Fits(f \o t, n), NoEnd(f)
  PROVE  Len(f) <= n
<1> DEFINE c == f \o t
<1>1. /\ Len(c) = Len(f) + Len(t) /\ Len(f) \in Nat /\ Len(t) \in Nat
      /\ \A i \in 1 .. Len(f) : c[i] = f[i]
  BY ByteConcat
<1>2. Fits(c, n)
  OBVIOUS
<1> HIDE DEF c
<1> SUFFICES ASSUME Len(f) > n PROVE FALSE
  BY <1>1
<1>3. 1 \in 1 .. Len(c) - n
  BY <1>1
<1>4. PICK k \in 1 .. 1 + n : c[k] = END
  BY <1>2, <1>3 DEF Fits
<1>5. k \in 1 .. Len(f)
  BY <1>1
<1> QED
  BY <1>1, <1>4, <1>5 DEF NoEnd

(* The host stops, and the next one begins with an END.                    *)
LEMMA StoppedStream ==
  ASSUME NEW s \in Seq(Byte), NEW m \in 0 .. Len(s), NEW n \in Nat \ {0}, Fits(s, n), Regular(s)
  PROVE  /\ SubSeq(s, 1, m) \o <<END>> \in Seq(Byte)
         /\ Complete(SubSeq(s, 1, m) \o <<END>>)
         /\ Fits(SubSeq(s, 1, m) \o <<END>>, n)
         /\ Regular(SubSeq(s, 1, m) \o <<END>>)
<1> DEFINE a == SubSeq(s, 1, m)
           c == a \o <<END>>
<1>1. Len(s) \in Nat
  BY LenProperties
<1>2. a \in Seq(Byte) /\ Len(a) = m /\ \A i \in 1 .. m : a[i] = s[i]
  <2>1. /\ a \in Seq(Byte) /\ Len(a) = IF 1 <= m THEN m - 1 + 1 ELSE 0
        /\ \A i \in 1 .. m - 1 + 1 : a[i] = s[1 + i - 1]
    BY <1>1, ByteSubSeq
  <2> HIDE DEF a
  <2> QED
    BY <1>1, <2>1
<1> HIDE DEF a
<1>3. /\ c \in Seq(Byte) /\ Len(c) = m + 1 /\ c[m + 1] = END
      /\ \A i \in 1 .. m : c[i] = s[i]
  <2>1. /\ c \in Seq(Byte) /\ Len(c) = Len(a) + Len(<<END>>)
        /\ \A i \in 1 .. Len(a) : c[i] = a[i]
        /\ \A i \in 1 .. Len(<<END>>) : c[Len(a) + i] = <<END>>[i]
    BY <1>2, EndByte, ByteConcat
  <2> HIDE DEF c
  <2>2. Len(c) = m + 1 /\ c[m + 1] = END
    BY <1>1, <1>2, <2>1, EndByte
  <2> QED
    BY <1>2, <2>1, <2>2
<1> HIDE DEF c
<1>4. Complete(c)
  BY <1>3 DEF Complete
<1>5. Fits(c, n)
  <2> SUFFICES ASSUME NEW i \in 1 .. Len(c) - n PROVE \E k \in i .. i + n : c[k] = END
    BY DEF Fits
  <2>1. CASE i + n = m + 1
    <3>1. m + 1 \in i .. i + n
      BY <1>1, <2>1
    <3> QED
      BY <1>3, <3>1
  <2>2. CASE i + n # m + 1
    <3>1. i \in 1 .. Len(s) - n /\ i + n <= m
      BY <1>1, <1>3, <2>2
    <3>2. PICK k \in i .. i + n : s[k] = END
      BY <3>1 DEF Fits
    <3>3. k \in 1 .. m
      BY <3>1
    <3> QED
      BY <1>3, <3>2, <3>3
  <2> QED
    BY <2>1, <2>2
<1>6. Regular(c)
  <2> SUFFICES ASSUME NEW i \in 1 .. Len(c), c[i] = ESC
               PROVE  i < Len(c) /\ c[i + 1] \in {ESC_END, ESC_ESC, END}
    BY DEF Regular
  <2>1. i \in 1 .. m
    BY <1>1, <1>3, SlipAssumption
  <2>2. CASE i = m
    BY <1>3, <2>1, <2>2
  <2>3. CASE i # m
    <3>1. PICK k \in 1 .. m : k = i + 1
      BY <1>1, <2>1, <2>3
    <3>2. s[i] = ESC /\ i \in 1 .. Len(s)
      BY <1>1, <1>3, <2>1
    <3>3. s[i + 1] \in {ESC_END, ESC_ESC, END}
      BY <3>2 DEF Regular
    <3> QED
      BY <1>3, <2>1, <3>1, <3>3
  <2> QED
    BY <2>2, <2>3
<1> QED
  BY <1>3, <1>4, <1>5, <1>6 DEF c, a

(* What the encoder sends is a stream of this kind.                        *)
LEMMA EncodeFits ==
  ASSUME NEW p \in Seq(Byte)
  PROVE  /\ \A n \in Nat : Len(Encode(p)) <= n + 1 => Fits(Encode(p), n)
         /\ Regular(Encode(p))
         /\ p # <<>> => Tidy(Encode(p))
<1>1. PICK e : Encodes(e, p) /\ Encode(p) = e \o <<END>>
  BY EncodeShape
<1>2. e \in Seq(Byte) /\ NoEnd(e) /\ Escapes(e) /\ Len(p) <= Len(e)
  BY <1>1 DEF Encodes
<1> DEFINE c == e \o <<END>>
<1>3. /\ c \in Seq(Byte) /\ Len(c) = Len(e) + 1 /\ c[Len(e) + 1] = END /\ Len(e) \in Nat
      /\ \A i \in 1 .. Len(e) : c[i] = e[i]
  BY <1>2, EndByte, ByteConcat
<1> HIDE DEF c
<1>4. ASSUME NEW n \in Nat, Len(c) <= n + 1 PROVE Fits(c, n)
  <2> SUFFICES ASSUME NEW i \in 1 .. Len(c) - n PROVE \E k \in i .. i + n : c[k] = END
    BY DEF Fits
  <2>1. Len(e) + 1 \in i .. i + n
    BY <1>3, <1>4
  <2> QED
    BY <1>3, <2>1
<1>5. ASSUME NEW i \in 1 .. Len(c), c[i] = ESC
      PROVE  i < Len(c) /\ c[i + 1] \in {ESC_END, ESC_ESC}
  <2>1. i \in 1 .. Len(e) /\ e[i] = ESC
    BY <1>3, <1>5, SlipAssumption
  <2>2. i < Len(e) /\ e[i + 1] \in {ESC_END, ESC_ESC}
    BY <1>2, <2>1 DEF Escapes
  <2>3. PICK k \in 1 .. Len(e) : k = i + 1
    BY <1>3, <2>1, <2>2
  <2> QED
    BY <1>3, <2>2, <2>3
<1>6. Regular(c)
  BY <1>5 DEF Regular
<1>7. ASSUME p # <<>>, NEW i \in 1 .. Len(c), c[i] = END
      PROVE  i > 1 /\ c[i - 1] # END
  <2>1. Len(e) >= 1
    BY <1>2, <1>3, <1>7, EmptySeq, LenProperties
  <2>2. i \notin 1 .. Len(e)
    BY <1>2, <1>3, <1>7 DEF NoEnd
  <2>3. i - 1 = Len(e) /\ i - 1 \in 1 .. Len(e)
    BY <1>3, <2>1, <2>2
  <2>4. c[i - 1] = e[i - 1] /\ e[i - 1] # END
    BY <1>2, <1>3, <2>3 DEF NoEnd
  <2> QED
    BY <2>3, <2>4
<1>8. p # <<>> => Tidy(c)
  BY <1>5, <1>7 DEF Tidy
<1> QED
  BY <1>1, <1>4, <1>6, <1>8 DEF c

(* A packet before others.                                                 *)
LEMMA OneMore ==
  ASSUME NEW S, NEW u \in S, NEW F \in Seq(S)
  PROVE  /\ <<u>> \o F \in Seq(S) /\ <<u>> \o F # <<>> /\ Len(<<u>> \o F) = Len(F) + 1
         /\ Head(<<u>> \o F) = u /\ Tail(<<u>> \o F) = F
         /\ Len(F) \in Nat /\ (<<u>> \o F)[1] = u
         /\ \A i \in 1 .. Len(F) : (<<u>> \o F)[i + 1] = F[i]
<1> DEFINE a == <<u>>
           c == a \o F
<1>1. a \in Seq(S) /\ Len(a) = 1 /\ a[1] = u /\ Len(F) \in Nat
  BY LenProperties
<1> HIDE DEF a
<1>6. /\ c \in Seq(S) /\ Len(c) = Len(a) + Len(F)
      /\ \A i \in 1 .. Len(a) + Len(F) : c[i] = IF i <= Len(a) THEN a[i] ELSE F[i - Len(a)]
  BY <1>1, ConcatProperties
<1> HIDE DEF c
<1>2. /\ c \in Seq(S) /\ Len(c) = 1 + Len(F)
      /\ \A i \in 1 .. 1 + Len(F) : c[i] = IF i <= 1 THEN a[i] ELSE F[i - 1]
  BY <1>1, <1>6
<1>3. c # <<>> /\ c[1] = u /\ Head(c) = u /\ Len(c) = Len(F) + 1
  BY <1>1, <1>2, EmptySeq
<1>4. ASSUME NEW i \in 1 .. Len(F) PROVE c[i + 1] = F[i]
  <2>1. i + 1 \in 1 .. 1 + Len(F) /\ ~(i + 1 <= 1) /\ i + 1 - 1 = i
    BY <1>1
  <2> QED
    BY <1>2, <2>1
<1>5. Tail(c) = F
  <2> DEFINE t == Tail(c)
  <2>1. t \in Seq(S) /\ Len(t) = Len(c) - 1 /\ \A i \in 1 .. Len(t) : t[i] = c[i + 1]
    BY <1>2, <1>3, HeadTailProperties
  <2> HIDE DEF t
  <2>2. Len(t) = Len(F) /\ \A i \in 1 .. Len(t) : t[i] = F[i]
    BY <1>1, <1>3, <1>4, <2>1
  <2>3. t = F
    BY <2>1, <2>2, SeqEqual
  <2> QED
    BY <2>3 DEF t
<1> QED
  BY <1>1, <1>2, <1>3, <1>4, <1>5 DEF c, a

LEMMA TidyConcat ==
  ASSUME NEW s \in Seq(Byte), NEW t \in Seq(Byte), Tidy(s), Tidy(t)
  PROVE  Tidy(s \o t)
<1> DEFINE c == s \o t
<1>1. /\ Len(c) = Len(s) + Len(t) /\ Len(s) \in Nat /\ Len(t) \in Nat
      /\ \A i \in 1 .. Len(s) : c[i] = s[i]
      /\ \A i \in 1 .. Len(t) : c[Len(s) + i] = t[i]
  BY ByteConcat
<1> HIDE DEF c
<1>2. SUFFICES ASSUME NEW i \in 1 .. Len(c)
               PROVE  /\ c[i] = ESC => i < Len(c) /\ c[i + 1] \in {ESC_END, ESC_ESC}
                      /\ c[i] = END => i > 1 /\ c[i - 1] # END
  BY Zenon DEF Tidy, c
<1>3. CASE i <= Len(s)
  <2>1. i \in 1 .. Len(s)
    BY <1>1, <1>3
  <2>2. ASSUME c[i] = ESC PROVE i < Len(c) /\ c[i + 1] \in {ESC_END, ESC_ESC}
    <3>1. i < Len(s) /\ s[i + 1] \in {ESC_END, ESC_ESC}
      BY <1>1, <2>1, <2>2 DEF Tidy
    <3>2. PICK k \in 1 .. Len(s) : k = i + 1
      BY <1>1, <2>1, <3>1
    <3> QED
      BY <1>1, <3>1, <3>2
  <2>3. ASSUME c[i] = END PROVE i > 1 /\ c[i - 1] # END
    <3>1. i > 1 /\ s[i - 1] # END
      BY <1>1, <2>1, <2>3 DEF Tidy
    <3>2. PICK k \in 1 .. Len(s) : k = i - 1
      BY <1>1, <2>1, <3>1
    <3> QED
      BY <1>1, <3>1, <3>2
  <2> QED
    BY <2>2, <2>3
<1>4. CASE i > Len(s)
  <2>1. PICK j \in 1 .. Len(t) : i = Len(s) + j
    <3>1. i - Len(s) \in 1 .. Len(t) /\ i = Len(s) + (i - Len(s))
      BY <1>1, <1>4
    <3> QED
      BY <3>1
  <2>2. c[i] = t[j]
    BY <1>1, <2>1
  <2>3. ASSUME c[i] = ESC PROVE i < Len(c) /\ c[i + 1] \in {ESC_END, ESC_ESC}
    <3>1. j < Len(t) /\ t[j + 1] \in {ESC_END, ESC_ESC}
      BY <2>2, <2>3 DEF Tidy
    <3>2. PICK k \in 1 .. Len(t) : k = j + 1
      BY <1>1, <3>1
    <3>3. i + 1 = Len(s) + k
      BY <1>1, <2>1, <3>2
    <3> QED
      BY <1>1, <2>1, <3>1, <3>2, <3>3
  <2>4. ASSUME c[i] = END PROVE i > 1 /\ c[i - 1] # END
    <3>1. j > 1 /\ t[j - 1] # END
      BY <2>2, <2>4 DEF Tidy
    <3>2. PICK k \in 1 .. Len(t) : k = j - 1
      BY <1>1, <3>1
    <3>3. i - 1 = Len(s) + k /\ i > 1
      BY <1>1, <2>1, <3>1, <3>2
    <3>4. c[Len(s) + k] = t[k]
      BY <1>1, <3>2
    <3> QED
      BY <3>1, <3>2, <3>3, <3>4
  <2> QED
    BY <2>3, <2>4
<1> QED
  BY <1>1, <1>3, <1>4

(* Something is left of a packet when it is decoded.                       *)
LEMMA UnescapeNotEmpty ==
  ASSUME NEW f \in Seq(Byte), f # <<>>, Escapes(f)
  PROVE  Unescape[f] # <<>>
<1> DEFINE t == Tail(f)
           b == f[1]
<1>1. /\ b \in Byte /\ t \in Seq(Byte) /\ Len(t) = Len(f) - 1 /\ Len(f) \in Nat \ {0}
      /\ \A i \in 1 .. Len(f) - 1 : t[i] = f[i + 1]
      /\ f = <<b>> \o t
  BY TakeFirst
<1>2. b = f[1]
  OBVIOUS
<1> HIDE DEF t, b
<1>3. CASE b # ESC
  <2>1. Unescape[f] = <<b>> \o Unescape[t] /\ Unescape[t] \in Seq(Letter) /\ b \in Letter
    BY <1>1, <1>3, UnescapePlain, UnescapeType, ByteLetters
  <2> DEFINE u == Unescape[f]
  <2>2. u \in Seq(Letter) /\ Len(u) = Len(Unescape[t]) + 1 /\ Len(Unescape[t]) \in Nat
    <3>1. 0 \in 0 .. Len(Unescape[t])
      BY <2>1, LenProperties
    <3> QED
      BY <2>1, <3>1, LetterCons
  <2> HIDE DEF u
  <2>3. u # <<>>
    BY <2>2, EmptySeq
  <2> QED
    BY <2>3 DEF u
<1>4. CASE b = ESC
  <2>1. 1 < Len(f) /\ f[1 + 1] \in {ESC_END, ESC_ESC}
    <3>1. 1 \in 1 .. Len(f) /\ f[1] = ESC
      BY <1>1, <1>2, <1>4
    <3> QED
      BY <3>1 DEF Escapes
  <2>2. t # <<>> /\ t[1] = f[1 + 1]
    <3>1. Len(t) # 0 /\ 1 \in 1 .. Len(f) - 1
      BY <1>1, <2>1
    <3> QED
      BY <1>1, <3>1, EmptySeq
  <2> DEFINE u == Tail(t)
             c == t[1]
  <2>3. c \in Byte /\ u \in Seq(Byte) /\ t = <<c>> \o u
    BY <1>1, <2>2, TakeFirst
  <2>4. c \in {ESC_END, ESC_ESC}
    BY <2>1, <2>2
  <2> HIDE DEF u, c
  <2>5. PICK x \in {END, ESC} : Meaning(c) = <<x>>
    BY <2>4, MeaningOne
  <2>6. Unescape[<<ESC>> \o (<<c>> \o u)] = Meaning(c) \o Unescape[u]
    BY <2>3, UnescapePair
  <2>7. Unescape[f] = <<x>> \o Unescape[u]
    BY <1>1, <1>4, <2>3, <2>5, <2>6, Zenon
  <2>8. x \in Letter /\ Unescape[u] \in Seq(Letter)
    BY <2>3, Specials, ByteLetters, UnescapeType
  <2> DEFINE w == <<x>> \o Unescape[u]
  <2>9. w \in Seq(Letter) /\ Len(w) = Len(Unescape[u]) + 1 /\ Len(Unescape[u]) \in Nat
    <3>1. 0 \in 0 .. Len(Unescape[u])
      BY <2>8, LenProperties
    <3> QED
      BY <2>8, <3>1, LetterCons
  <2> HIDE DEF w
  <2>10. w # <<>>
    BY <2>9, EmptySeq
  <2> QED
    BY <2>7, <2>10 DEF w
<1> QED
  BY <1>3, <1>4

(* The host takes the first of the replies.                                *)
LEMMA CutTidy ==
  ASSUME NEW f \in Seq(Byte), NEW t \in Seq(Byte), NoEnd(f), Tidy(f \o <<END>> \o t)
  PROVE  Tidy(t) /\ Escapes(f) /\ f # <<>>
<1> DEFINE c == f \o <<END>> \o t
<1>1. /\ Len(c) = Len(f) + 1 + Len(t) /\ Len(f) \in Nat /\ Len(t) \in Nat
      /\ \A i \in 1 .. Len(f) : c[i] = f[i]
      /\ c[Len(f) + 1] = END
      /\ \A i \in 1 .. Len(t) : c[Len(f) + 1 + i] = t[i]
  BY CutFacts
<1>2. Tidy(c)
  OBVIOUS
<1> HIDE DEF c
<1>3. ASSUME f = <<>> PROVE FALSE
  <2>1. Len(f) = 0
    BY <1>3, EmptySeq
  <2>2. 1 \in 1 .. Len(c) /\ c[1] = END
    BY <1>1, <2>1
  <2> QED
    BY <1>2, <2>2 DEF Tidy
<1>4. Escapes(f)
  <2> SUFFICES ASSUME NEW i \in 1 .. Len(f), f[i] = ESC
               PROVE  i < Len(f) /\ f[i + 1] \in {ESC_END, ESC_ESC}
    BY DEF Escapes
  <2>1. i \in 1 .. Len(c) /\ c[i] = ESC
    BY <1>1
  <2>2. c[i + 1] \in {ESC_END, ESC_ESC}
    BY <1>2, <2>1 DEF Tidy
  <2>3. i # Len(f)
    BY <1>1, <2>2, SlipAssumption
  <2>4. PICK k \in 1 .. Len(f) : k = i + 1
    BY <1>1, <2>3
  <2> QED
    BY <1>1, <2>2, <2>3, <2>4
<1>5. Tidy(t)
  <2> SUFFICES ASSUME NEW i \in 1 .. Len(t)
               PROVE  /\ t[i] = ESC => i < Len(t) /\ t[i + 1] \in {ESC_END, ESC_ESC}
                      /\ t[i] = END => i > 1 /\ t[i - 1] # END
    BY Zenon DEF Tidy
  <2>1. PICK j \in 1 .. Len(c) : j = Len(f) + 1 + i
    BY <1>1
  <2>2. c[j] = t[i]
    BY <1>1, <2>1
  <2>3. ASSUME t[i] = ESC PROVE i < Len(t) /\ t[i + 1] \in {ESC_END, ESC_ESC}
    <3>1. j < Len(c) /\ c[j + 1] \in {ESC_END, ESC_ESC}
      BY <1>2, <2>2, <2>3 DEF Tidy
    <3>2. PICK k \in 1 .. Len(t) : k = i + 1 /\ j + 1 = Len(f) + 1 + k
      BY <1>1, <2>1, <3>1
    <3> QED
      BY <1>1, <2>1, <3>1, <3>2
  <2>4. ASSUME t[i] = END PROVE i > 1 /\ t[i - 1] # END
    <3>1. j > 1 /\ c[j - 1] # END
      BY <1>2, <2>2, <2>4 DEF Tidy
    <3>2. i # 1
      <4>1. ASSUME i = 1 PROVE j - 1 = Len(f) + 1
        BY <1>1, <2>1, <4>1
      <4> QED
        BY <1>1, <3>1, <4>1
    <3>3. PICK k \in 1 .. Len(t) : k = i - 1 /\ j - 1 = Len(f) + 1 + k
      BY <1>1, <2>1, <3>2
    <3> QED
      BY <1>1, <3>1, <3>2, <3>3
  <2> QED
    BY <2>3, <2>4
<1> QED
  BY <1>3, <1>4, <1>5

LEMMA Heard ==
  ASSUME NEW s \in Seq(Byte), s # <<>>, Complete(s), Tidy(s),
         NEW t, t = SubSeq(s, FirstEnd(s) + 1, Len(s))
  PROVE  /\ t \in Seq(Byte) /\ Complete(t) /\ Tidy(t)
         /\ Frames[s] \in Seq(Request) /\ Frames[s] # <<>> /\ Frames[t] = Tail(Frames[s])
<1> DEFINE n == FirstEnd(s)
           f == SubSeq(s, 1, n - 1)
<1>1. ~NoEnd(s)
  BY CompleteHasEnd
<1>2. n \in 1 .. Len(s) /\ s[n] = END /\ \A i \in 1 .. n - 1 : s[i] # END
  BY <1>1, FirstEndFound
<1>3. t = SubSeq(s, n + 1, Len(s))
  OBVIOUS
<1> HIDE DEF n
<1>4. /\ f \in Seq(Byte) /\ Len(f) = n - 1 /\ \A i \in 1 .. n - 1 : f[i] = s[i]
      /\ t \in Seq(Byte) /\ s = f \o <<END>> \o t
  BY <1>2, <1>3, SplitAround
<1> HIDE DEF f
<1>5. NoEnd(f)
  BY <1>2, <1>4 DEF NoEnd
<1>6. Complete(t) /\ Tidy(t) /\ Escapes(f) /\ f # <<>>
  BY <1>4, <1>5, CutComplete, CutTidy
<1>7. Unescape[f] \in Seq(Letter) /\ Unescape[f] # <<>>
  BY <1>4, <1>6, UnescapeNotEmpty, UnescapeType
<1>8. Frames[s] = <<Unescape[f]>> \o Frames[t]
  <2>1. Frames[s] = Packet(Unescape[f]) \o Frames[t]
    BY <1>4, <1>5, FramesCut
  <2> QED
    BY <1>7, <2>1 DEF Packet
<1>9. Unescape[f] \in Request /\ Frames[t] \in Seq(Request)
  BY <1>4, <1>7, FramesType DEF Request
<1>10. /\ <<Unescape[f]>> \o Frames[t] \in Seq(Request) /\ <<Unescape[f]>> \o Frames[t] # <<>>
       /\ Tail(<<Unescape[f]>> \o Frames[t]) = Frames[t]
  BY <1>9, OneMore
<1>11. Frames[s] \in Seq(Request) /\ Frames[s] # <<>> /\ Frames[t] = Tail(Frames[s])
  BY <1>8, <1>10, Zenon
<1> QED
  BY <1>4, <1>6, <1>11, Zenon

-----------------------------------------------------------------------------
(***************************************************************************)
(* A stream in parts.                                                      *)
(***************************************************************************)
LEMMA SeqConcat ==
  ASSUME NEW S, NEW s \in Seq(S), NEW t \in Seq(S)
  PROVE  /\ s \o t \in Seq(S) /\ Len(s \o t) = Len(s) + Len(t)
         /\ Len(s) \in Nat /\ Len(t) \in Nat
         /\ \A i \in 1 .. Len(s) : (s \o t)[i] = s[i]
         /\ \A i \in 1 .. Len(t) : (s \o t)[Len(s) + i] = t[i]
<1>1. /\ s \o t \in Seq(S) /\ Len(s \o t) = Len(s) + Len(t)
      /\ \A i \in 1 .. Len(s) + Len(t) :
           (s \o t)[i] = IF i <= Len(s) THEN s[i] ELSE t[i - Len(s)]
  BY ConcatProperties
<1>2. Len(s) \in Nat /\ Len(t) \in Nat
  BY LenProperties
<1>3. ASSUME NEW i \in 1 .. Len(t) PROVE (s \o t)[Len(s) + i] = t[i]
  <2>1. /\ Len(s) + i \in 1 .. Len(s) + Len(t) /\ ~(Len(s) + i <= Len(s))
        /\ Len(s) + i - Len(s) = i
    BY <1>2
  <2> QED
    BY <1>1, <2>1
<1> QED
  BY <1>1, <1>2, <1>3

LEMMA SeqPrefix ==
  ASSUME NEW S, NEW s \in Seq(S), NEW n \in 0 .. Len(s)
  PROVE  /\ SubSeq(s, 1, n) \in Seq(S) /\ Len(SubSeq(s, 1, n)) = n
         /\ \A i \in 1 .. n : SubSeq(s, 1, n)[i] = s[i]
<1> DEFINE q == SubSeq(s, 1, n)
<1>1. Len(s) \in Nat /\ \A i \in 1 .. n : s[i] \in S
  BY LenProperties, ElementOfSeq
<1>2. /\ q \in Seq(S) /\ Len(q) = IF 1 <= n THEN n - 1 + 1 ELSE 0
      /\ \A i \in 1 .. n - 1 + 1 : q[i] = s[1 + i - 1]
  BY <1>1, SubSeqProperties
<1> HIDE DEF q
<1>3. Len(q) = n /\ \A i \in 1 .. n : q[i] = s[i]
  BY <1>1, <1>2
<1> QED
  BY <1>2, <1>3 DEF q

LEMMA PrefixOfConcat ==
  ASSUME NEW S, NEW a \in Seq(S), NEW w \in Seq(S), NEW n \in 0 .. Len(w)
  PROVE  /\ Len(a) + n \in 0 .. Len(a \o w)
         /\ SubSeq(a \o w, 1, Len(a) + n) = a \o SubSeq(w, 1, n)
<1> DEFINE c == a \o w
           m == Len(a) + n
           p == SubSeq(c, 1, m)
           q == SubSeq(w, 1, n)
           r == a \o q
<1>1. /\ c \in Seq(S) /\ Len(c) = Len(a) + Len(w) /\ Len(a) \in Nat /\ Len(w) \in Nat
      /\ \A i \in 1 .. Len(a) : c[i] = a[i]
      /\ \A i \in 1 .. Len(w) : c[Len(a) + i] = w[i]
  BY SeqConcat
<1>2. q \in Seq(S) /\ Len(q) = n /\ \A i \in 1 .. n : q[i] = w[i]
  BY SeqPrefix
<1> HIDE DEF q, c
<1>3. m \in 0 .. Len(c)
  BY <1>1
<1>4. p \in Seq(S) /\ Len(p) = m /\ \A i \in 1 .. m : p[i] = c[i]
  BY <1>1, <1>3, SeqPrefix
<1>5. /\ r \in Seq(S) /\ Len(r) = Len(a) + Len(q)
      /\ \A i \in 1 .. Len(a) : r[i] = a[i]
      /\ \A i \in 1 .. Len(q) : r[Len(a) + i] = q[i]
  <2>1. q \in Seq(S)
    BY <1>2
  <2> QED
    BY <2>1, SeqConcat, SMTT(30)
<1> HIDE DEF p, r
<1>6. ASSUME NEW i \in 1 .. Len(p) PROVE p[i] = r[i]
  <2>1. CASE i <= Len(a)
    BY <1>1, <1>4, <1>5, <2>1
  <2>2. CASE i > Len(a)
    <3>1. PICK j \in 1 .. n : i = Len(a) + j
      <4>1. i - Len(a) \in 1 .. n /\ i = Len(a) + (i - Len(a))
        BY <1>1, <1>4, <2>2
      <4> QED
        BY <4>1
    <3>2. p[i] = w[j]
      <4>1. i \in 1 .. m /\ j \in 1 .. Len(w)
        BY <1>1, <1>4, <3>1
      <4> HIDE DEF m
      <4>2. p[i] = c[i] /\ c[Len(a) + j] = w[j]
        BY <1>1, <1>4, <4>1
      <4> QED
        BY <3>1, <4>2
    <3>4. r[i] = q[j]
      BY <1>1, <1>2, <1>5, <3>1
    <3> QED
      BY <1>2, <3>2, <3>4
  <2> QED
    BY <1>1, <2>1, <2>2
<1>7. Len(p) = Len(r)
  BY <1>1, <1>2, <1>4, <1>5
<1>8. p = r
  BY <1>4, <1>5, <1>6, <1>7, SeqEqual
<1> QED
  BY <1>3, <1>8 DEF p, r, q, c

LEMMA PrefixOfFirst ==
  ASSUME NEW S, NEW a \in Seq(S), NEW w \in Seq(S), NEW n \in 0 .. Len(a)
  PROVE  SubSeq(a \o w, 1, n) = SubSeq(a, 1, n)
<1> DEFINE c == a \o w
           p == SubSeq(c, 1, n)
           q == SubSeq(a, 1, n)
<1>1. /\ c \in Seq(S) /\ Len(c) = Len(a) + Len(w) /\ Len(a) \in Nat /\ Len(w) \in Nat
      /\ \A i \in 1 .. Len(a) : c[i] = a[i]
  BY SeqConcat
<1> HIDE DEF c
<1>2. n \in 0 .. Len(c)
  BY <1>1
<1>3. /\ p \in Seq(S) /\ Len(p) = n /\ \A i \in 1 .. n : p[i] = c[i]
      /\ q \in Seq(S) /\ Len(q) = n /\ \A i \in 1 .. n : q[i] = a[i]
  BY <1>1, <1>2, SeqPrefix
<1> HIDE DEF p, q
<1>4. \A i \in 1 .. Len(p) : p[i] = q[i]
  BY <1>1, <1>3
<1>5. p = q
  BY <1>3, <1>4, SeqEqual
<1> QED
  BY <1>5 DEF p, q, c

(* A byte is read.                                                         *)
LEMMA MoveByte ==
  ASSUME NEW a \in Seq(Byte), NEW r \in Seq(Byte), r # <<>>, NEW w \in Seq(Byte)
  PROVE  /\ Head(r) \in Byte /\ Tail(r) \in Seq(Byte) /\ Tail(r) \o w \in Seq(Byte)
         /\ a \o <<Head(r)>> \in Seq(Byte)
         /\ a \o r \o w = (a \o <<Head(r)>>) \o Tail(r) \o w
         /\ a \o r \o w = (a \o <<Head(r)>>) \o (Tail(r) \o w)
<1> DEFINE h == Head(r)
           t == Tail(r)
           b == <<h>>
<1>1. h \in Byte /\ t \in Seq(Byte) /\ r = b \o t
  <2>1. r[1] \in Byte /\ Tail(r) \in Seq(Byte) /\ r = <<r[1]>> \o Tail(r)
    BY TakeFirst
  <2>2. Head(r) = r[1]
    OBVIOUS
  <2> QED
    BY <2>1, <2>2
<1>2. b \in Seq(Byte)
  BY <1>1
<1> HIDE DEF h, t, b
<1>3. a \o b \in Seq(Byte) /\ t \o w \in Seq(Byte)
  BY <1>1, <1>2, ByteConcat
<1> DEFINE e == a \o b
<1>4. (a \o b) \o t = a \o (b \o t)
  BY <1>1, <1>2, ByteAssociative
<1>5. a \o r \o w = (e \o t) \o w
  BY <1>1, <1>4, Zenon
<1>6. (e \o t) \o w = e \o (t \o w)
  <2>1. e \in Seq(Byte)
    BY <1>3
  <2> HIDE DEF e
  <2> QED
    BY <1>1, <2>1, ByteAssociative
<1>7. a \o r \o w = e \o (t \o w)
  BY <1>5, <1>6, Zenon
<1> QED
  BY <1>1, <1>3, <1>5, <1>7, Zenon DEF h, t, b

-----------------------------------------------------------------------------
(***************************************************************************)
(* A host that stops after some packets and a part of the next one, and    *)
(* begins with an END: that part is taken for a packet, and nothing else.  *)
(***************************************************************************)
Parts(p) ==
  {SubSeq(p, 1, n) : n \in 1 .. Len(p)} \cup
  {Append(SubSeq(p, 1, n), Dangling) : n \in {m \in 0 .. Len(p) - 1 : p[m + 1] \in {END, ESC}}}

Interrupted(G, F) == \E k \in 0 .. Len(F) :
  \/ G = SubSeq(F, 1, k)
  \/ k < Len(F) /\ \E q \in Parts(F[k + 1]) : G = Append(SubSeq(F, 1, k), q)

LEMMA PartsType ==
  ASSUME NEW p \in Seq(Letter)
  PROVE  Parts(p) \subseteq Request
<1>1. ASSUME NEW n \in 1 .. Len(p) PROVE SubSeq(p, 1, n) \in Request
  <2>1. n \in 0 .. Len(p) /\ n # 0
    OBVIOUS
  <2>2. SubSeq(p, 1, n) \in Seq(Letter) /\ Len(SubSeq(p, 1, n)) = n
    BY <2>1, SeqPrefix
  <2> DEFINE q == SubSeq(p, 1, n)
  <2>3. q \in Seq(Letter) /\ Len(q) = n
    BY <2>2
  <2> HIDE DEF q
  <2>4. q # <<>>
    BY <2>1, <2>3, EmptySeq
  <2> QED
    BY <2>3, <2>4 DEF Request, q
<1>2. ASSUME NEW n \in 0 .. Len(p) - 1 PROVE Append(SubSeq(p, 1, n), Dangling) \in Request
  <2>1. n \in 0 .. Len(p)
    BY LenProperties
  <2>2. SubSeq(p, 1, n) \in Seq(Letter) /\ Dangling \in Letter
    BY <2>1, SeqPrefix DEF Letter
  <2>3. /\ Append(SubSeq(p, 1, n), Dangling) \in Seq(Letter)
        /\ Append(SubSeq(p, 1, n), Dangling) # <<>>
    BY <2>2, AppendProperties
  <2> QED
    BY <2>3 DEF Request
<1> QED
  BY <1>1, <1>2 DEF Parts

LEMMA RequestAssociative ==
  \A r, s, t \in Seq(Request) : (r \o s) \o t = r \o (s \o t)
BY ConcatAssociative

LEMMA InterruptedConcat ==
  ASSUME NEW E \in Seq(Request), NEW F \in Seq(Request), NEW G, Interrupted(G, F)
  PROVE  Interrupted(E \o G, E \o F)
<1>1. PICK k \in 0 .. Len(F) :
        \/ G = SubSeq(F, 1, k)
        \/ k < Len(F) /\ \E q \in Parts(F[k + 1]) : G = Append(SubSeq(F, 1, k), q)
  BY DEF Interrupted
<1> DEFINE c == E \o F
           m == Len(E) + k
           a == SubSeq(F, 1, k)
<1>2. /\ c \in Seq(Request) /\ Len(c) = Len(E) + Len(F) /\ Len(E) \in Nat /\ Len(F) \in Nat
      /\ \A i \in 1 .. Len(F) : c[Len(E) + i] = F[i]
  BY SeqConcat
<1>3. m \in 0 .. Len(c) /\ SubSeq(c, 1, m) = E \o a
  BY PrefixOfConcat
<1>4. a \in Seq(Request)
  BY SeqPrefix
<1> HIDE DEF a, c
<1>5. CASE G = a
  <2>1. E \o G = SubSeq(c, 1, m)
    BY <1>3, <1>5, Zenon
  <2>2. Interrupted(E \o G, c)
    BY <1>3, <2>1, Zenon DEF Interrupted
  <2> QED
    BY <2>2 DEF c
<1>6. CASE k < Len(F) /\ \E q \in Parts(F[k + 1]) : G = Append(a, q)
  <2>1. PICK q \in Parts(F[k + 1]) : G = Append(a, q)
    BY <1>6
  <2>2. PICK j \in 1 .. Len(F) : j = k + 1
    BY <1>2, <1>6
  <2>3. F[j] \in Request
    BY <2>2, ElementOfSeq
  <2>4. q \in Request
    BY <2>1, <2>2, <2>3, PartsType DEF Request
  <2>5. m < Len(c) /\ c[m + 1] = F[k + 1]
    <3>1. c[Len(E) + j] = F[j] /\ Len(E) + j = m + 1 /\ m < Len(c)
      BY <1>2, <1>6, <2>2
    <3> QED
      BY <2>2, <3>1
  <2>6. E \o Append(a, q) = Append(E \o a, q)
    <3> DEFINE z == <<q>>
    <3>1. z \in Seq(Request)
      BY <2>4
    <3>2. Append(a, q) = a \o z
      BY <1>4, <2>4, AppendIsConcat
    <3>3. E \o a \in Seq(Request)
      BY <1>4, SeqConcat
    <3>4. Append(E \o a, q) = (E \o a) \o z
      BY <2>4, <3>3, AppendIsConcat
    <3> HIDE DEF z
    <3>5. (E \o a) \o z = E \o (a \o z)
      BY <1>4, <3>1, RequestAssociative
    <3> QED
      BY <3>2, <3>4, <3>5, Zenon
  <2>7. E \o G = Append(SubSeq(c, 1, m), q) /\ q \in Parts(c[m + 1])
    BY <1>3, <2>1, <2>5, <2>6, Zenon
  <2>8. Interrupted(E \o G, c)
    BY <1>3, <2>5, <2>7, Zenon DEF Interrupted
  <2> QED
    BY <2>8 DEF c
<1> QED
  BY <1>1, <1>5, <1>6 DEF a

LEMMA ShortenedInterrupted ==
  ASSUME NEW u \in Seq(Letter), NEW v, Shortened(v, u), NEW F \in Seq(Request)
  PROVE  Interrupted(Packet(v), Packet(u) \o F)
<1>1. PICK n \in 0 .. Len(u) :
        \/ v = SubSeq(u, 1, n)
        \/ n < Len(u) /\ u[n + 1] \in {END, ESC} /\ v = SubSeq(u, 1, n) \o <<Dangling>>
  BY DEF Shortened
<1>2. SubSeq(u, 1, n) \in Seq(Letter) /\ Dangling \in Letter /\ Len(u) \in Nat
  BY SeqPrefix, LenProperties DEF Letter
<1> DEFINE c == Packet(u) \o F
<1>3. Packet(u) \in Seq(Request) /\ c \in Seq(Request) /\ Len(c) \in Nat
  <2>1. Packet(u) \in Seq(Request)
    BY PacketType
  <2>2. c \in Seq(Request)
    BY <2>1, SeqConcat
  <2> HIDE DEF c
  <2> QED
    BY <2>1, <2>2, LenProperties
<1>4. SubSeq(c, 1, 0) = <<>>
  BY SubSeqEmpty
<1>5. CASE v = <<>>
  <2>1. Packet(v) = SubSeq(c, 1, 0) /\ 0 \in 0 .. Len(c)
    <3>1. Packet(v) = <<>>
      BY <1>5, Zenon DEF Packet
    <3> HIDE DEF c
    <3>2. 0 \in 0 .. Len(c)
      BY <1>3
    <3> QED
      BY <1>4, <3>1, <3>2, Zenon
  <2> QED
    <3> HIDE DEF c
    <3>1. Interrupted(Packet(v), c)
      BY <2>1, Zenon DEF Interrupted
    <3> QED
      BY <3>1 DEF c
<1>6. CASE v # <<>>
  <2>1. v \in Parts(u) /\ u # <<>>
    <3>1. CASE v = SubSeq(u, 1, n)
      <4>1. n # 0
        <5>1. ASSUME n = 0 PROVE FALSE
          <6>1. SubSeq(u, 1, n) = <<>>
            BY <5>1, SubSeqEmpty
          <6> QED
            BY <1>6, <3>1, <6>1
        <5> QED
          BY <5>1
      <4>2. n \in 1 .. Len(u) /\ u # <<>>
        BY <1>2, <4>1, EmptySeq
      <4> QED
        BY <3>1, <4>2, Zenon DEF Parts
    <3>2. CASE n < Len(u) /\ u[n + 1] \in {END, ESC} /\ v = SubSeq(u, 1, n) \o <<Dangling>>
      <4>1. v = Append(SubSeq(u, 1, n), Dangling)
        BY <1>2, <3>2, AppendIsConcat
      <4>2. n \in {m \in 0 .. Len(u) - 1 : u[m + 1] \in {END, ESC}} /\ Len(u) # 0
        BY <1>2, <3>2
      <4>3. u # <<>>
        BY <4>2, EmptySeq
      <4> QED
        BY <4>1, <4>2, <4>3, Zenon DEF Parts
    <3> QED
      BY <1>1, <3>1, <3>2
  <2>2. Packet(v) = <<v>> /\ Packet(u) = <<u>> /\ u \in Request
    BY <1>6, <2>1 DEF Packet, Request
  <2>3. Len(c) = Len(F) + 1 /\ c[1] = u /\ Len(F) \in Nat
    BY <2>2, OneMore
  <2>4. <<v>> = Append(<<>>, v)
    OBVIOUS
  <2> HIDE DEF c
  <2>5. 0 \in 0 .. Len(c) /\ 0 < Len(c) /\ c[0 + 1] = u
    BY <2>3
  <2>6. Packet(v) = Append(SubSeq(c, 1, 0), v) /\ v \in Parts(c[0 + 1])
    BY <1>4, <2>1, <2>2, <2>4, <2>5, Zenon
  <2>7. Interrupted(Packet(v), c)
    BY <2>5, <2>6, Zenon DEF Interrupted
  <2> QED
    BY <2>7 DEF c
<1> QED
  BY <1>5, <1>6

LEMMA RestartMeans ==
  ASSUME NEW s \in Seq(Byte), Complete(s), Regular(s), NEW m \in 0 .. Len(s)
  PROVE  Interrupted(Frames[SubSeq(s, 1, m) \o <<END>>], Frames[s])
<1> DEFINE bad == {u \in Seq(Byte) : Complete(u) /\ Regular(u) /\
             \E j \in 0 .. Len(u) : ~Interrupted(Frames[SubSeq(u, 1, j) \o <<END>>], Frames[u])}
<1> SUFFICES ASSUME bad # {} PROVE FALSE
  OBVIOUS
<1>1. PICK u \in bad : \A v \in bad : Lengths[u] <= Lengths[v]
  <2>1. bad \subseteq Seq(Byte)
    OBVIOUS
  <2> HIDE DEF bad
  <2> QED
    BY <2>1, LengthsType, Shortest
<1>2. u \in Seq(Byte) /\ Complete(u) /\ Regular(u)
  BY <1>1
<1>3. PICK j \in 0 .. Len(u) : ~Interrupted(Frames[SubSeq(u, 1, j) \o <<END>>], Frames[u])
  BY <1>1
<1>4. \A v \in Seq(Byte) : Complete(v) /\ Regular(v) /\ Len(v) < Len(u) =>
        \A i \in 0 .. Len(v) : Interrupted(Frames[SubSeq(v, 1, i) \o <<END>>], Frames[v])
  <2> SUFFICES ASSUME NEW v \in Seq(Byte), Complete(v), Regular(v), Len(v) < Len(u),
                      NEW i \in 0 .. Len(v),
                      ~Interrupted(Frames[SubSeq(v, 1, i) \o <<END>>], Frames[v])
               PROVE  FALSE
    OBVIOUS
  <2>1. v \in bad
    OBVIOUS
  <2>2. Lengths[u] = Len(u) /\ Lengths[v] = Len(v) /\ Len(u) \in Nat /\ Len(v) \in Nat
    BY <1>2, LenProperties DEF Lengths
  <2>3. Lengths[u] <= Lengths[v]
    <3> HIDE DEF bad
    <3> QED
      BY <1>1, <2>1
  <2> HIDE DEF bad
  <2> QED
    BY <2>2, <2>3
<1> HIDE DEF bad
<1>5. <<>> \in Seq(Byte) /\ NoEnd(<<>>) /\ Frames[<<>>] = <<>> /\ <<END>> \in Seq(Byte)
  BY EmptySeq, FramesEmpty, EndByte DEF NoEnd
<1>6. u # <<>>
  <2> SUFFICES ASSUME u = <<>> PROVE FALSE
    OBVIOUS
  <2>1. j = 0
    <3>1. Len(u) = 0
      BY EmptySeq
    <3> QED
      BY <3>1
  <2>2. SubSeq(u, 1, j) \o <<END>> = <<>> \o <<END>> \o <<>>
    <3>1. SubSeq(u, 1, j) = <<>>
      BY <2>1, SubSeqEmpty
    <3>2. <<>> \o <<END>> \o <<>> = <<>> \o <<END>>
      BY <1>5, ConcatEmptySeq
    <3> QED
      BY <3>1, <3>2, Zenon
  <2>3. Frames[<<>> \o <<END>> \o <<>>] = Packet(Unescape[<<>>]) \o Frames[<<>>]
    BY <1>5, FramesCut
  <2>4. Packet(Unescape[<<>>]) = <<>>
    BY UnescapeEmpty DEF Packet
  <2>5. Frames[SubSeq(u, 1, j) \o <<END>>] = <<>>
    <3>1. <<>> \o <<>> = <<>>
      BY <1>5, ConcatEmptySeq
    <3> QED
      BY <1>5, <2>2, <2>3, <2>4, <3>1, Zenon
  <2>6. SubSeq(Frames[u], 1, 0) = <<>> /\ 0 \in 0 .. Len(Frames[u])
    <3>1. Len(Frames[u]) \in Nat
      BY <1>2, FramesType, LenProperties
    <3> QED
      BY <3>1, SubSeqEmpty
  <2>7. Interrupted(Frames[SubSeq(u, 1, j) \o <<END>>], Frames[u])
    BY <2>5, <2>6, Zenon DEF Interrupted
  <2> QED
    BY <1>3, <2>7
<1>7. PICK f, v \in Seq(Byte) : u = f \o <<END>> \o v /\ NoEnd(f) /\ Len(u) = Len(f) + 1 + Len(v)
  BY <1>2, <1>6, CompleteHasEnd, CutAtEnd
<1>8. Complete(v) /\ Regular(v) /\ RegularPacket(f)
  <2>1. Complete(f \o <<END>> \o v) /\ Regular(f \o <<END>> \o v)
    BY <1>2, <1>7, Zenon
  <2> QED
    BY <1>7, <2>1, CutComplete, CutRegular
<1>9. Len(f) \in Nat /\ Len(v) \in Nat /\ Len(v) < Len(u)
  BY <1>7, LenProperties
<1> DEFINE U == Unescape[f]
           F == Frames[v]
<1>10. U \in Seq(Letter) /\ F \in Seq(Request) /\ Packet(U) \in Seq(Request)
  BY UnescapeType, FramesType, PacketType
<1>11. Frames[u] = Packet(U) \o F
  BY <1>7, FramesCut, Zenon
<1> HIDE DEF U, F
<1>12. CASE j <= Len(f)
  <2> DEFINE b == SubSeq(f, 1, j)
  <2>1. SubSeq(u, 1, j) = b
    <3> DEFINE e == <<END>>
    <3>0. e \in Seq(Byte)
      BY <1>5
    <3> HIDE DEF e
    <3>1. (f \o e) \o v = f \o (e \o v)
      BY <3>0, ByteAssociative
    <3>2. e \o v \in Seq(Byte) /\ j \in 0 .. Len(f)
      BY <1>9, <1>12, <3>0, ByteConcat
    <3>3. SubSeq(f \o (e \o v), 1, j) = b
      BY <3>2, PrefixOfFirst
    <3> QED
      BY <1>7, <3>1, <3>3, Zenon DEF e
  <2>2. b \in Seq(Byte) /\ NoEnd(b)
    <3>1. j \in 0 .. Len(f)
      BY <1>9, <1>12
    <3>2. b \in Seq(Byte) /\ Len(b) = j /\ \A i \in 1 .. j : b[i] = f[i]
      BY <3>1, SeqPrefix
    <3> HIDE DEF b
    <3> QED
      BY <1>7, <1>9, <3>1, <3>2 DEF NoEnd
  <2>3. Shortened(Unescape[b], U)
    <3>1. j \in 0 .. Len(f)
      BY <1>9, <1>12
    <3> QED
      BY <1>8, <3>1, PacketShortened DEF U
  <2> HIDE DEF b
  <2>4. Frames[b \o <<END>>] = Packet(Unescape[b])
    <3>1. Frames[b \o <<END>> \o <<>>] = Packet(Unescape[b]) \o Frames[<<>>]
      BY <1>5, <2>2, FramesCut
    <3>2. b \o <<END>> \in Seq(Byte)
      BY <2>2, CutFacts
    <3>3. b \o <<END>> \o <<>> = b \o <<END>>
      BY <3>2, ConcatEmptySeq
    <3>4. Packet(Unescape[b]) \in Seq(Request)
      BY <2>2, UnescapeType, PacketType
    <3>5. Packet(Unescape[b]) \o <<>> = Packet(Unescape[b])
      BY <3>4, ConcatEmptySeq
    <3> QED
      BY <1>5, <3>1, <3>3, <3>5, Zenon
  <2>5. Interrupted(Packet(Unescape[b]), Packet(U) \o F)
    BY <1>10, <2>3, ShortenedInterrupted
  <2> QED
    BY <1>3, <1>11, <2>1, <2>4, <2>5, Zenon
<1>13. CASE j > Len(f)
  <2>1. PICK i \in 0 .. Len(v) : j = Len(f) + 1 + i
    <3>1. j - (Len(f) + 1) \in 0 .. Len(v) /\ j = Len(f) + 1 + (j - (Len(f) + 1))
      BY <1>7, <1>9, <1>13
    <3> QED
      BY <3>1
  <2> DEFINE h == f \o <<END>>
             b == SubSeq(v, 1, i)
             e == <<END>>
  <2>2. h \in Seq(Byte) /\ Len(h) = Len(f) + 1 /\ b \in Seq(Byte) /\ e \in Seq(Byte)
    BY <1>5, CutFacts, SeqPrefix
  <2>3. SubSeq(h \o v, 1, Len(h) + i) = h \o b
    BY <2>2, PrefixOfConcat
  <2>4. SubSeq(u, 1, j) = h \o b
    BY <1>7, <2>1, <2>2, <2>3, Zenon
  <2> HIDE DEF b, e
  <2>5. (h \o b) \o e = h \o (b \o e) /\ b \o e \in Seq(Byte)
    <3>1. b \o e \in Seq(Byte)
      BY <2>2, ByteConcat
    <3> HIDE DEF h
    <3>2. h \in Seq(Byte) /\ b \in Seq(Byte) /\ e \in Seq(Byte)
      BY <2>2 DEF h
    <3>3. (h \o b) \o e = h \o (b \o e)
      BY <3>2, ByteAssociative, SMTT(60)
    <3> QED
      BY <3>1, <3>3, Zenon
  <2>6. Frames[h \o (b \o e)] = Packet(U) \o Frames[b \o e]
    BY <1>7, <2>5, FramesCut DEF U
  <2>7. Interrupted(Frames[b \o e], F)
    BY <1>4, <1>8, <1>9 DEF b, e, F
  <2>8. Interrupted(Packet(U) \o Frames[b \o e], Packet(U) \o F)
    BY <1>10, <2>7, InterruptedConcat
  <2>9. Frames[SubSeq(u, 1, j) \o <<END>>] = Packet(U) \o Frames[b \o e]
    BY <2>4, <2>5, <2>6, Zenon DEF e
  <2> QED
    BY <1>3, <1>11, <2>8, <2>9, Zenon
<1> QED
  BY <1>9, <1>12, <1>13

-----------------------------------------------------------------------------
(* What udi_cdc_write_slip_packet sends (slip.c:38) is read back whole:    *)
(* behind packets that are complete, any packet is one more packet, the    *)
(* same bytes, unless it is empty.                                         *)
THEOREM ReadAsWritten ==
  ASSUME NEW s \in Seq(Byte), Complete(s), NEW p \in Seq(Byte)
  PROVE  Frames[s \o Encode(p)] = Frames[s] \o Packet(p)
<1>1. Encode(p) \in Seq(Byte) /\ Frames[Encode(p)] = Packet(p)
  BY EncodeType
<1>2. Frames[s \o Encode(p)] = Frames[s] \o Frames[Encode(p)]
  BY <1>1, FramesConcat
<1> QED
  BY <1>1, <1>2, Zenon
=============================================================================
