------------------------ MODULE TextMessage_proofs ------------------------
(* What is padded is what is stripped, for every message and block size;   *)
(* how a text is split, for every text and limit; and that every pointer   *)
(* of a message that is sent resolves and its reader gets the text.        *)
(*                                                                         *)
(* What Bytes and Units compute is proved by induction.  An induction      *)
(* theorem that takes a predicate as its parameter cannot be cited here,   *)
(* so Induction speaks of a set of numbers, from the well-foundedness of   *)
(* the naturals; recursive functions are first shown to exist.             *)
EXTENDS TextMessage, SequenceTheorems, WellFoundedInduction, TLAPS

(* Division with remainder.                                                *)
LEMMA Division ==
  ASSUME NEW a \in Nat, NEW b \in Nat \ {0}
  PROVE  /\ a \div b \in Nat
         /\ b * (a \div b) <= a
         /\ a < b * (a \div b) + b
  BY SMT

(* The padded message holds the body and a terminator, adds no more than a *)
(* block, and is one byte short of whole blocks.                           *)
THEOREM PaddingFits ==
  ASSUME NEW n \in Nat
  PROVE  /\ PaddedLength(n) \in Nat
         /\ n < PaddedLength(n) /\ PaddedLength(n) <= n + BlockSize
         /\ \E k \in Nat : PaddedLength(n) + 1 = k * BlockSize
<1> DEFINE a == n + 1 + 1 + BlockSize - 1
           q == a \div BlockSize
<1>1. BlockSize \in Nat \ {0}
  BY BlockAssumption DEF BlockAssumption
<1>2. a \in Nat
  BY <1>1
<1>3. q \in Nat /\ BlockSize * q <= a /\ a < BlockSize * q + BlockSize
  BY <1>1, <1>2, Division
<1>4. PaddedLength(n) = q * BlockSize - 1
  BY DEF PaddedLength, WholeBlocks
<1>5. q * BlockSize \in Nat /\ q * BlockSize = BlockSize * q
  BY <1>1, <1>3
<1> HIDE DEF q
<1>6. n + 2 <= q * BlockSize /\ q * BlockSize <= n + 1 + BlockSize
  BY <1>1, <1>3, <1>5 DEF a
<1>7. PaddedLength(n) + 1 = q * BlockSize
  BY <1>4, <1>5
<1> QED
  BY <1>1, <1>3, <1>4, <1>5, <1>6, <1>7

LEMMA PadShape ==
  ASSUME NEW body \in Seq(Byte)
  PROVE  /\ Pad(body) \in Seq(Byte)
         /\ DOMAIN Pad(body) = 1 .. PaddedLength(Len(body))
         /\ Len(body) + 1 \in DOMAIN Pad(body)
         /\ Pad(body)[Len(body) + 1] = Terminator
         /\ \A i \in 1 .. Len(body) : Pad(body)[i] = body[i]
         /\ \A i \in DOMAIN Pad(body) : i > Len(body) + 1 => Pad(body)[i] = 0
<1>1. PaddedLength(Len(body)) \in Nat /\ Len(body) < PaddedLength(Len(body))
  BY PaddingFits
<1> DEFINE length == PaddedLength(Len(body))
<1> HIDE DEF length
<1>2. Pad(body) = [i \in 1 .. length |->
        IF i <= Len(body) THEN body[i]
        ELSE IF i = Len(body) + 1 THEN Terminator ELSE 0]
  BY DEF Pad, length
<1>3. length \in Nat /\ Len(body) < length
  BY <1>1 DEF length
<1>4. \A i \in 1 .. length : Pad(body)[i] \in Byte
  <2> SUFFICES ASSUME NEW i \in 1 .. length
               PROVE  Pad(body)[i] \in Byte
    OBVIOUS
  <2>1. CASE i <= Len(body)
    <3>1. i \in 1 .. Len(body)
      BY <1>3, <2>1
    <3>2. body[i] \in Byte
      BY <3>1
    <3> QED
      BY <1>2, <2>1, <3>2
  <2>2. CASE ~(i <= Len(body))
    BY <1>2, <2>2 DEF Byte, Terminator
  <2> QED
    BY <2>1, <2>2
<1>5. Pad(body) \in Seq(Byte)
  BY <1>2, <1>3, <1>4
<1>6. DOMAIN Pad(body) = 1 .. length
  BY <1>2
<1>7. Len(body) + 1 \in 1 .. length
  BY <1>3
<1> QED
  BY <1>2, <1>3, <1>5, <1>6, <1>7 DEF length

(* Stripping undoes padding, also for a body that is empty, ends in zeros  *)
(* or in the terminator, or fills a block.                                 *)
THEOREM StripUndoesPad ==
  ASSUME NEW body \in Seq(Byte)
  PROVE  Strip(Pad(body)) = body
<1> DEFINE padded == Pad(body)
           mark == Len(body) + 1
<1>1. /\ padded \in Seq(Byte)
      /\ mark \in DOMAIN padded
      /\ padded[mark] = Terminator
      /\ \A i \in 1 .. Len(body) : padded[i] = body[i]
      /\ \A i \in DOMAIN padded : i > mark => padded[i] = 0
  BY PadShape
<1> HIDE DEF padded
<1>2. Len(body) \in Nat /\ DOMAIN padded = 1 .. Len(padded) /\ Len(padded) \in Nat
  BY <1>1
<1>3. mark \in Marks(padded)
  BY <1>1 DEF Marks, Terminator
<1>4. \A j \in Marks(padded) : j <= mark
  BY <1>1, <1>2 DEF Marks
<1>5. LastMark(padded) = mark
  <2>1. \A i \in Marks(padded) :
          (\A j \in Marks(padded) : j <= i) => i = mark
    BY <1>2, <1>3, <1>4 DEF Marks
  <2> QED
    BY <1>3, <1>4, <2>1 DEF LastMark
<1>6. Strip(padded) = SubSeq(padded, 1, mark - 1)
  BY <1>1, <1>3, <1>5 DEF Strip
<1>7. SubSeq(padded, 1, mark - 1) = body
  BY <1>1, <1>2
<1> QED
  BY <1>6, <1>7 DEF padded

-----------------------------------------------------------------------------
(* Induction.                                                              *)

Less == {p \in Nat \X Nat : p[1] < p[2]}

LEMMA LessWellFounded == IsWellFoundedOn(Less, Nat)
  BY NatLessThanWellFounded, Zenon DEF OpToRel, Less

(* A set that has 0 and the successor of each of its numbers has them all. *)
LEMMA Induction ==
  ASSUME NEW S, 0 \in S, \A n \in S \cap Nat : n + 1 \in S
  PROVE  Nat \subseteq S
<1> DEFINE T == Nat \ S
<1> SUFFICES ASSUME T # {} PROVE FALSE
  OBVIOUS
<1>1. PICK n \in T : \A m \in T : <<m, n>> \notin Less
  BY WFMin, LessWellFounded
<1>2. n # 0 /\ n - 1 \in Nat
  BY <1>1
<1>3. n - 1 \in S
  <2>1. <<n - 1, n>> \in Less
    BY <1>1, <1>2 DEF Less
  <2> QED BY <1>1, <1>2, <2>1
<1> QED
  BY <1>1, <1>2, <1>3

-----------------------------------------------------------------------------
(* The bytes of a text.                                                    *)

Width == 1 .. 4

LEMMA MaxOfPrefix ==
  ASSUME NEW s, NEW n \in Nat, s \subseteq 1 .. n + 1, n + 1 \in s
  PROVE  Max(s) = n + 1
<1>1. \A x \in s : (\A y \in s : x >= y) => x = n + 1
  OBVIOUS
<1>2. \A y \in s : n + 1 >= y
  OBVIOUS
<1> QED BY <1>1, <1>2 DEF Max

(* The function that FoldLeft recurs over.                                 *)
Sums(t, n, f) ==
   f = [s \in SUBSET (1 .. n) |->
          IF s = {} THEN 0 ELSE f[s \ {Max(s)}] + t[Max(s)]]

LEMMA BytesIs ==
  ASSUME NEW t \in Seq(Width)
  PROVE  Bytes(t) = (CHOOSE f : Sums(t, Len(t), f))[1 .. Len(t)]
<1>1. DOMAIN t = 1 .. Len(t)
  OBVIOUS
<1> QED BY <1>1, Zenon DEF Bytes, FoldLeft, MapThenFoldSet, Sums

(* It exists, by induction on n: the sum of a set with the new largest     *)
(* number is the sum of the rest and one width more.                       *)
LEMMA SumsExist ==
  ASSUME NEW t \in Seq(Width), NEW n \in 0 .. Len(t)
  PROVE  \E f : Sums(t, n, f)
<1> DEFINE S == {k \in Nat : k <= Len(t) => \E f : Sums(t, k, f)}
<1>1. 0 \in S
  <2> DEFINE f == [s \in SUBSET (1 .. 0) |-> 0]
  <2>1. \A s \in SUBSET (1 .. 0) : s = {}
    OBVIOUS
  <2>2. Sums(t, 0, f)
    BY <2>1 DEF Sums
  <2> QED BY <2>2
<1>2. ASSUME NEW k \in S \cap Nat
      PROVE  k + 1 \in S
  <2> SUFFICES ASSUME k + 1 <= Len(t)
               PROVE  \E g : Sums(t, k + 1, g)
    OBVIOUS
  <2>1. PICK f : Sums(t, k, f)
    OBVIOUS
  <2> DEFINE g == [s \in SUBSET (1 .. k + 1) |->
                     IF k + 1 \in s THEN f[s \ {k + 1}] + t[k + 1] ELSE f[s]]
  <2>2. ASSUME NEW s \in SUBSET (1 .. k + 1)
        PROVE  g[s] = IF s = {} THEN 0 ELSE g[s \ {Max(s)}] + t[Max(s)]
    <3>1. CASE k + 1 \in s
      <4>1. Max(s) = k + 1
        BY <3>1, MaxOfPrefix
      <4>2. s \ {k + 1} \in SUBSET (1 .. k + 1) /\ k + 1 \notin s \ {k + 1}
        OBVIOUS
      <4>3. g[s \ {k + 1}] = f[s \ {k + 1}]
        BY <4>2
      <4>4. g[s] = f[s \ {k + 1}] + t[k + 1]
        BY <3>1
      <4> QED BY <3>1, <4>1, <4>3, <4>4
    <3>2. CASE k + 1 \notin s
      <4>1. s \in SUBSET (1 .. k)
        BY <3>2
      <4>2. g[s] = f[s]
        BY <3>2
      <4>3. f[s] = IF s = {} THEN 0 ELSE f[s \ {Max(s)}] + t[Max(s)]
        BY <2>1, <4>1 DEF Sums
      <4>4. g[s \ {Max(s)}] = f[s \ {Max(s)}]
        BY <3>2
      <4> QED BY <4>2, <4>3, <4>4
    <3> QED BY <3>1, <3>2
  <2>3. Sums(t, k + 1, g)
    <3> HIDE DEF g
    <3>1. g = [s \in SUBSET (1 .. k + 1) |-> g[s]]
      BY DEF g
    <3> QED BY <2>2, <3>1, Zenon DEF Sums
  <2> QED BY <2>3
<1>3. Nat \subseteq S
  <2> HIDE DEF S
  <2> QED BY <1>1, <1>2, Induction
<1> QED BY <1>3

LEMMA SumsValue ==
  ASSUME NEW t \in Seq(Width), NEW n \in 0 .. Len(t), NEW f, Sums(t, n, f)
  PROVE  /\ f[1 .. 0] = 0
         /\ \A k \in 0 .. n - 1 : f[1 .. k + 1] = f[1 .. k] + t[k + 1]
<1>1. f[1 .. 0] = 0
  <2>1. 1 .. 0 = {} /\ 1 .. 0 \in SUBSET (1 .. n)
    OBVIOUS
  <2> QED BY <2>1, Zenon DEF Sums
<1>2. ASSUME NEW k \in 0 .. n - 1
      PROVE  f[1 .. k + 1] = f[1 .. k] + t[k + 1]
  <2>1. 1 .. k + 1 \in SUBSET (1 .. n) /\ 1 .. k + 1 # {}
    OBVIOUS
  <2>2. Max(1 .. k + 1) = k + 1
    <3>1. k \in Nat /\ 1 .. k + 1 \subseteq 1 .. k + 1 /\ k + 1 \in 1 .. k + 1
      OBVIOUS
    <3> QED BY <3>1, MaxOfPrefix, Zenon
  <2>3. (1 .. k + 1) \ {k + 1} = 1 .. k
    OBVIOUS
  <2>4. f[1 .. k + 1] = f[(1 .. k + 1) \ {Max(1 .. k + 1)}] + t[Max(1 .. k + 1)]
    BY <2>1, Zenon DEF Sums
  <2> QED BY <2>2, <2>3, <2>4
<1> QED BY <1>1, <1>2

(* What Bytes counts.                                                      *)
LEMMA BytesSums ==
  ASSUME NEW t \in Seq(Width)
  PROVE  \E f : Sums(t, Len(t), f) /\ Bytes(t) = f[1 .. Len(t)]
<1>1. Len(t) \in 0 .. Len(t)
  OBVIOUS
<1> QED BY <1>1, BytesIs, SumsExist, Zenon

(* The first k elements.                                                   *)
Prefix(t, k) == SubSeq(t, 1, k)

LEMMA PrefixShape ==
  ASSUME NEW A, NEW t \in Seq(A), NEW k \in 0 .. Len(t)
  PROVE  /\ Prefix(t, k) \in Seq(A)
         /\ Len(Prefix(t, k)) = k
         /\ \A i \in 1 .. k : Prefix(t, k)[i] = t[i]
  BY DEF Prefix

LEMMA BytesEmpty ==
  ASSUME NEW t \in Seq(Width), Len(t) = 0
  PROVE  Bytes(t) = 0
<1>1. PICK f : Sums(t, Len(t), f) /\ Bytes(t) = f[1 .. Len(t)]
  BY BytesSums, Zenon
<1>2. Len(t) \in 0 .. Len(t)
  OBVIOUS
<1>3. f[1 .. 0] = 0
  BY <1>1, <1>2, SumsValue
<1> QED BY <1>1, <1>3, Zenon

(* A code point more adds its width.                                       *)
LEMMA BytesStep ==
  ASSUME NEW t \in Seq(Width), NEW k \in 0 .. Len(t) - 1
  PROVE  Bytes(Prefix(t, k + 1)) = Bytes(Prefix(t, k)) + t[k + 1]
<1> DEFINE p == Prefix(t, k)
           q == Prefix(t, k + 1)
<1>1. /\ p \in Seq(Width) /\ Len(p) = k /\ k \in 0 .. Len(t)
      /\ q \in Seq(Width) /\ Len(q) = k + 1 /\ k + 1 \in 0 .. Len(t)
      /\ \A i \in 1 .. k : p[i] = t[i]
      /\ \A i \in 1 .. k + 1 : q[i] = t[i]
  <2>1. k \in 0 .. Len(t) /\ k + 1 \in 0 .. Len(t)
    OBVIOUS
  <2> QED BY <2>1, PrefixShape, Zenon
<1> HIDE DEF p, q
<1>2. PICK f : Sums(p, k, f) /\ Bytes(p) = f[1 .. k]
  BY <1>1, BytesSums, Zenon
<1>3. PICK g : Sums(q, k + 1, g) /\ Bytes(q) = g[1 .. k + 1]
  BY <1>1, BytesSums, Zenon
<1>4. /\ f[1 .. 0] = 0
      /\ \A j \in 0 .. k - 1 : f[1 .. j + 1] = f[1 .. j] + p[j + 1]
  <2>1. p \in Seq(Width) /\ k \in 0 .. Len(p) /\ Sums(p, k, f)
    BY <1>1, <1>2
  <2> QED BY <2>1, SumsValue, ZenonT(60)
<1>5. /\ g[1 .. 0] = 0
      /\ \A j \in 0 .. k : g[1 .. j + 1] = g[1 .. j] + q[j + 1]
  <2>1. q \in Seq(Width) /\ k + 1 \in 0 .. Len(q) /\ Sums(q, k + 1, g)
    BY <1>1, <1>3
  <2>2. k + 1 - 1 = k
    OBVIOUS
  <2> QED BY <2>1, <2>2, SumsValue
<1> DEFINE S == {j \in Nat : j <= k => g[1 .. j] = f[1 .. j]}
<1>6. 0 \in S
  BY <1>4, <1>5
<1>7. ASSUME NEW j \in S \cap Nat
      PROVE  j + 1 \in S
  <2> SUFFICES ASSUME j + 1 <= k
               PROVE  g[1 .. j + 1] = f[1 .. j + 1]
    OBVIOUS
  <2>1. p[j + 1] = q[j + 1]
    BY <1>1
  <2>2. g[1 .. j] = f[1 .. j]
    BY <1>1
  <2>3. j \in 0 .. k - 1 /\ j \in 0 .. k
    BY <1>1
  <2>4. f[1 .. j + 1] = f[1 .. j] + p[j + 1] /\ g[1 .. j + 1] = g[1 .. j] + q[j + 1]
    BY <1>4, <1>5, <2>3
  <2> QED BY <2>1, <2>2, <2>4
<1>8. Nat \subseteq S
  <2> HIDE DEF S
  <2> QED BY <1>6, <1>7, Induction
<1>9. g[1 .. k] = f[1 .. k]
  BY <1>8
<1>10. g[1 .. k + 1] = g[1 .. k] + q[k + 1]
  BY <1>5
<1> QED BY <1>1, <1>2, <1>3, <1>9, <1>10 DEF p, q

LEMMA BytesNat ==
  ASSUME NEW t \in Seq(Width), NEW k \in 0 .. Len(t)
  PROVE  Bytes(Prefix(t, k)) \in Nat
<1> DEFINE S == {j \in Nat : j <= Len(t) => Bytes(Prefix(t, j)) \in Nat}
<1>1. 0 \in S
  <2>1. Prefix(t, 0) \in Seq(Width) /\ Len(Prefix(t, 0)) = 0
    BY PrefixShape
  <2> QED BY <2>1, BytesEmpty
<1>2. ASSUME NEW j \in S \cap Nat
      PROVE  j + 1 \in S
  <2> SUFFICES ASSUME j + 1 <= Len(t)
               PROVE  Bytes(Prefix(t, j + 1)) \in Nat
    OBVIOUS
  <2>1. Bytes(Prefix(t, j)) \in Nat /\ t[j + 1] \in Nat
    BY DEF Width
  <2> QED BY <2>1, BytesStep
<1>3. Nat \subseteq S
  <2> HIDE DEF S
  <2> QED BY <1>1, <1>2, Induction
<1> QED BY <1>3

LEMMA PrefixAll ==
  ASSUME NEW A, NEW t \in Seq(A)
  PROVE  Prefix(t, Len(t)) = t
  BY DEF Prefix

(* Fitting finds its number: the least one at which no more is taken.      *)
LEMMA FittingFits ==
  ASSUME NEW t \in Seq(Width), NEW limit \in Nat
  PROVE  /\ Fitting(t, limit) \in 0 .. Len(t)
         /\ Bytes(Prefix(t, Fitting(t, limit))) <= limit
         /\ Fitting(t, limit) < Len(t) =>
              Bytes(Prefix(t, Fitting(t, limit) + 1)) > limit
<1> DEFINE Stops(k) == k < Len(t) => Bytes(Prefix(t, k + 1)) > limit
           T == {k \in 0 .. Len(t) : Stops(k)}
<1>1. Len(t) \in T
  OBVIOUS
<1>2. PICK k \in T : \A j \in T : <<j, k>> \notin Less
  <2>1. T \subseteq Nat /\ T # {}
    BY <1>1
  <2> HIDE DEF T
  <2> QED BY <2>1, WFMin, LessWellFounded
<1>3. Bytes(Prefix(t, k)) <= limit
  <2>1. CASE k = 0
    <3>1. Prefix(t, 0) \in Seq(Width) /\ Len(Prefix(t, 0)) = 0
      BY SMTT(60), PrefixShape
    <3> QED BY <2>1, <3>1, BytesEmpty
  <2>2. CASE k # 0
    <3>1. k - 1 \in 0 .. Len(t) /\ k - 1 < Len(t) /\ k - 1 + 1 = k
      BY <2>2
    <3>2. <<k - 1, k>> \in Less
      BY <3>1 DEF Less
    <3>3. ~Stops(k - 1)
      BY <1>2, <3>1, <3>2
    <3>4. Bytes(Prefix(t, k)) \in Nat
      BY BytesNat
    <3> QED BY <3>1, <3>3, <3>4
  <2> QED BY <2>1, <2>2
<1>4. k \in 0 .. Len(t) /\ Bytes(SubSeq(t, 1, k)) <= limit
      /\ (k < Len(t) => Bytes(SubSeq(t, 1, k + 1)) > limit)
  BY <1>3 DEF Prefix
<1> QED BY <1>4, Zenon DEF Fitting, Prefix

(* A longer beginning has more bytes.                                      *)
LEMMA BytesGrow ==
  ASSUME NEW t \in Seq(Width), NEW k \in 0 .. Len(t), NEW m \in k .. Len(t)
  PROVE  Bytes(Prefix(t, k)) <= Bytes(Prefix(t, m))
<1> DEFINE S == {d \in Nat : k + d <= Len(t) =>
                   Bytes(Prefix(t, k)) <= Bytes(Prefix(t, k + d))}
<1>1. 0 \in S
  BY BytesNat
<1>2. ASSUME NEW d \in S \cap Nat
      PROVE  d + 1 \in S
  <2> SUFFICES ASSUME k + (d + 1) <= Len(t)
               PROVE  Bytes(Prefix(t, k)) <= Bytes(Prefix(t, k + (d + 1)))
    OBVIOUS
  <2>1. k + d \in 0 .. Len(t) - 1 /\ k + d \in 0 .. Len(t) /\ k + (d + 1) = k + d + 1
    OBVIOUS
  <2>2. Bytes(Prefix(t, k + d + 1)) = Bytes(Prefix(t, k + d)) + t[k + d + 1]
    BY <2>1, BytesStep
  <2>3. t[k + d + 1] \in Nat
    BY <2>1 DEF Width
  <2>4. Bytes(Prefix(t, k)) \in Nat /\ Bytes(Prefix(t, k + d)) \in Nat
    BY <2>1, BytesNat
  <2> QED BY <2>1, <2>2, <2>3, <2>4
<1>3. Nat \subseteq S
  <2> HIDE DEF S
  <2> QED BY <1>1, <1>2, Induction
<1>4. m - k \in S /\ k + (m - k) = m
  BY <1>3
<1> QED BY <1>4

-----------------------------------------------------------------------------
(* The UTF-16 units of a text.                                             *)

(* The function that FlattenSeq recurs over.                               *)
Runs(s, n, f) ==
  f = [i \in 1 .. n |-> IF i = 1 THEN s[i] ELSE f[i - 1] \o s[i]]

LEMMA FlattenIs ==
  ASSUME NEW s, Len(s) # 0
  PROVE  FlattenSeq(s) = (CHOOSE f : Runs(s, Len(s), f))[Len(s)]
  BY Zenon DEF FlattenSeq, Runs

LEMMA RunsExist ==
  ASSUME NEW A, NEW s \in Seq(Seq(A)), NEW n \in 0 .. Len(s)
  PROVE  \E f : Runs(s, n, f)
<1> DEFINE S == {k \in Nat : k <= Len(s) => \E f : Runs(s, k, f)}
<1>1. 0 \in S
  <2>1. Runs(s, 0, [i \in 1 .. 0 |-> <<>>])
    BY DEF Runs
  <2> QED BY <2>1
<1>2. ASSUME NEW k \in S \cap Nat
      PROVE  k + 1 \in S
  <2> SUFFICES ASSUME k + 1 <= Len(s)
               PROVE  \E g : Runs(s, k + 1, g)
    OBVIOUS
  <2>1. PICK f : Runs(s, k, f)
    OBVIOUS
  <2> DEFINE g == [i \in 1 .. k + 1 |->
                     IF i = k + 1 THEN IF i = 1 THEN s[i] ELSE f[k] \o s[i]
                     ELSE f[i]]
  <2>2. ASSUME NEW i \in 1 .. k + 1
        PROVE  g[i] = IF i = 1 THEN s[i] ELSE g[i - 1] \o s[i]
    <3>1. CASE i = 1
      <4>1. k = 0 \/ f[1] = s[1]
        BY <2>1 DEF Runs
      <4> QED BY <3>1, <4>1
    <3>2. CASE i # 1 /\ i = k + 1
      <4>1. i - 1 \in 1 .. k + 1 /\ i - 1 # k + 1 /\ i - 1 = k
        BY <3>2
      <4>2. g[i - 1] = f[k]
        BY <4>1
      <4> QED BY <3>2, <4>2
    <3>3. CASE i # 1 /\ i # k + 1
      <4>1. i \in 1 .. k /\ i - 1 \in 1 .. k + 1 /\ i - 1 # k + 1
        BY <3>3
      <4>2. g[i] = f[i] /\ g[i - 1] = f[i - 1]
        BY <4>1, <3>3
      <4>3. f[i] = f[i - 1] \o s[i]
        BY <2>1, <4>1, <3>3, Zenon DEF Runs
      <4> QED BY <3>3, <4>2, <4>3
    <3> QED BY <3>1, <3>2, <3>3
  <2>3. Runs(s, k + 1, g)
    <3>1. g = [i \in 1 .. k + 1 |-> g[i]]
      OBVIOUS
    <3> HIDE DEF g
    <3> QED BY <2>2, <3>1, Zenon DEF Runs
  <2> QED BY <2>3
<1>3. Nat \subseteq S
  <2> HIDE DEF S
  <2> QED BY <1>1, <1>2, Induction
<1> QED BY <1>3

LEMMA RunsValue ==
  ASSUME NEW A, NEW s \in Seq(Seq(A)), NEW n \in 0 .. Len(s),
         NEW f, Runs(s, n, f)
  PROVE  /\ n > 0 => f[1] = s[1]
         /\ \A k \in 1 .. n - 1 : f[k + 1] = f[k] \o s[k + 1]
<1>1. \A i \in 1 .. n : f[i] = IF i = 1 THEN s[i] ELSE f[i - 1] \o s[i]
  BY Zenon DEF Runs
<1>2. \A i \in 1 .. n : i # 1 => f[i] = f[i - 1] \o s[i]
  BY <1>1, Zenon
<1>3. n > 0 => 1 \in 1 .. n
  OBVIOUS
<1>4. n > 0 => f[1] = s[1]
  BY <1>1, <1>3, Zenon
<1>5. ASSUME NEW k \in 1 .. n - 1
      PROVE  f[k + 1] = f[k] \o s[k + 1]
  <2> DEFINE i == k + 1
  <2>1. i \in 1 .. n /\ i # 1 /\ i - 1 = k
    OBVIOUS
  <2> HIDE DEF i
  <2>2. f[i] = f[i - 1] \o s[i]
    BY <1>2, <2>1, Zenon
  <2> QED BY <2>1, <2>2, Zenon DEF i
<1> QED BY <1>4, <1>5

LEMMA RunsType ==
  ASSUME NEW A, NEW s \in Seq(Seq(A)), NEW n \in 0 .. Len(s),
         NEW f, Runs(s, n, f), NEW k \in 1 .. n
  PROVE  f[k] \in Seq(A)
<1> DEFINE S == {j \in Nat : j + 1 <= n => f[j + 1] \in Seq(A)}
<1>1. /\ f[1] = s[1]
      /\ \A j \in 1 .. n - 1 : f[j + 1] = f[j] \o s[j + 1]
  <2>1. n > 0
    OBVIOUS
  <2> QED BY ZenonT(60), <2>1, RunsValue
<1>2. 0 \in S
  BY <1>1
<1>3. ASSUME NEW j \in S \cap Nat
      PROVE  j + 1 \in S
  <2> SUFFICES ASSUME j + 1 + 1 <= n
               PROVE  f[j + 1 + 1] \in Seq(A)
    OBVIOUS
  <2>1. j + 1 \in 1 .. n - 1 /\ j + 1 + 1 \in 1 .. Len(s) /\ f[j + 1] \in Seq(A)
    OBVIOUS
  <2>2. f[j + 1 + 1] = f[j + 1] \o s[j + 1 + 1] /\ s[j + 1 + 1] \in Seq(A)
    <3>1. s[j + 1 + 1] \in Seq(A)
      BY <2>1
    <3>2. f[j + 1 + 1] = f[j + 1] \o s[j + 1 + 1]
      BY <1>1, <2>1
    <3> QED BY <3>1, <3>2
  <2> QED BY <2>1, <2>2
<1>4. Nat \subseteq S
  <2> HIDE DEF S
  <2> QED BY <1>2, <1>3, Induction
<1>5. k - 1 \in Nat /\ k - 1 + 1 = k
  OBVIOUS
<1>6. k - 1 \in S
  BY <1>4, <1>5
<1> QED BY <1>5, <1>6

(* Each run begins with those before it.                                   *)
LEMMA RunsGrow ==
  ASSUME NEW A, NEW s \in Seq(Seq(A)), NEW n \in 0 .. Len(s),
         NEW f, Runs(s, n, f), NEW k \in 1 .. n
  PROVE  Len(f[k]) <= Len(f[n]) /\ Prefix(f[n], Len(f[k])) = f[k]
<1> DEFINE S == {d \in Nat : k + d <= n =>
                   /\ Len(f[k]) <= Len(f[k + d])
                   /\ Prefix(f[k + d], Len(f[k])) = f[k]}
<1>1. \A j \in 1 .. n - 1 : f[j + 1] = f[j] \o s[j + 1]
  BY RunsValue
<1>2. \A j \in 1 .. n : f[j] \in Seq(A)
  BY RunsType
<1>3. 0 \in S
  BY <1>2, PrefixAll
<1>4. ASSUME NEW d \in S \cap Nat
      PROVE  d + 1 \in S
  <2> SUFFICES ASSUME k + (d + 1) <= n
               PROVE  /\ Len(f[k]) <= Len(f[k + (d + 1)])
                      /\ Prefix(f[k + (d + 1)], Len(f[k])) = f[k]
    OBVIOUS
  <2> DEFINE a == f[k]  b == f[k + d]  c == s[k + d + 1]
  <2>1. k + d \in 1 .. n - 1 /\ k + d \in 1 .. n /\ k + d + 1 = k + (d + 1)
        /\ k + d + 1 \in 1 .. Len(s)
    OBVIOUS
  <2>2. f[k + (d + 1)] = b \o c
    BY <1>1, <2>1
  <2>3. a \in Seq(A) /\ b \in Seq(A) /\ c \in Seq(A)
    BY <1>2, <2>1
  <2>4. Len(a) <= Len(b) /\ Prefix(b, Len(a)) = a
    BY <2>1
  <2> HIDE DEF a, b, c
  <2>5. Len(b \o c) = Len(b) + Len(c)
    BY <2>3
  <2>6. Prefix(b \o c, Len(a)) = Prefix(b, Len(a))
    BY <2>3, <2>4 DEF Prefix
  <2>7. Len(a) \in Nat /\ Len(b) \in Nat /\ Len(c) \in Nat
    BY <2>3
  <2>8. Len(a) <= Len(b \o c) /\ Prefix(b \o c, Len(a)) = a
    BY <2>4, <2>5, <2>6, <2>7
  <2> QED BY <2>2, <2>8 DEF a
<1>5. Nat \subseteq S
  <2> HIDE DEF S
  <2> QED BY <1>3, <1>4, Induction
<1>6. n - k \in Nat /\ k + (n - k) = n
  OBVIOUS
<1>7. n - k \in S
  BY <1>5, <1>6
<1> QED BY <1>6, <1>7

LEMMA FlattenRuns ==
  ASSUME NEW A, NEW s \in Seq(Seq(A)), Len(s) # 0
  PROVE  \E f : Runs(s, Len(s), f) /\ FlattenSeq(s) = f[Len(s)]
<1>1. Len(s) \in 0 .. Len(s)
  OBVIOUS
<1>2. \E f : Runs(s, Len(s), f)
  BY <1>1, RunsExist
<1> QED BY <1>2, FlattenIs, Zenon

(* What the first sequences flatten to begins what all of them flatten to. *)
LEMMA FlattenPrefix ==
  ASSUME NEW A, NEW s \in Seq(Seq(A)), NEW k \in 0 .. Len(s)
  PROVE  /\ Len(FlattenSeq(Prefix(s, k))) \in Nat
         /\ Prefix(FlattenSeq(s), Len(FlattenSeq(Prefix(s, k))))
              = FlattenSeq(Prefix(s, k))
<1> DEFINE p == Prefix(s, k)
           n == Len(s)
<1>1. p \in Seq(Seq(A)) /\ Len(p) = k /\ \A i \in 1 .. k : p[i] = s[i]
  BY PrefixShape
<1>2. CASE k = 0
  <2>1. FlattenSeq(p) = p /\ p = <<>>
    BY <1>1, <1>2 DEF FlattenSeq
  <2>2. Len(FlattenSeq(p)) = 0 /\ FlattenSeq(p) = <<>>
    BY <2>1
  <2>3. \A u : SubSeq(u, 1, 0) = <<>>
    OBVIOUS
  <2> HIDE DEF p
  <2> QED BY <2>2, <2>3, Zenon DEF Prefix, p
<1>3. CASE k # 0
  <2> HIDE DEF p
  <2>1. PICK f : Runs(s, n, f) /\ FlattenSeq(s) = f[n]
    BY <1>3, FlattenRuns
  <2>2. PICK g : Runs(p, k, g) /\ FlattenSeq(p) = g[k]
    BY <1>1, <1>3, FlattenRuns
  <2>3. n \in 0 .. Len(s) /\ k \in 0 .. Len(p) /\ k \in 1 .. n /\ k \in 1 .. k
    BY <1>1, <1>3
  <2>4. /\ f[1] = s[1]
        /\ \A j \in 1 .. n - 1 : f[j + 1] = f[j] \o s[j + 1]
    <3>1. n > 0
      BY <1>3
    <3> QED BY ZenonT(60), <2>1, <2>3, <3>1, RunsValue
  <2>5. /\ g[1] = p[1]
        /\ \A j \in 1 .. k - 1 : g[j + 1] = g[j] \o p[j + 1]
    <3>1. k > 0
      BY <1>3
    <3> QED BY <1>1, <2>2, <2>3, <3>1, RunsValue, ZenonT(60)
  <2> DEFINE S == {j \in Nat : j + 1 <= k => g[j + 1] = f[j + 1]}
  <2>6. 0 \in S
    BY <1>1, <2>3, <2>4, <2>5
  <2>7. ASSUME NEW j \in S \cap Nat
        PROVE  j + 1 \in S
    <3> SUFFICES ASSUME j + 1 + 1 <= k
                 PROVE  g[j + 1 + 1] = f[j + 1 + 1]
      OBVIOUS
    <3>1. j + 1 \in 1 .. k - 1 /\ j + 1 \in 1 .. n - 1 /\ j + 1 + 1 \in 1 .. k
      BY <2>3
    <3>2. g[j + 1] = f[j + 1] /\ p[j + 1 + 1] = s[j + 1 + 1]
      BY <1>1, <3>1
    <3> QED BY <2>4, <2>5, <3>1, <3>2, Zenon
  <2>8. Nat \subseteq S
    <3> HIDE DEF S
    <3> QED BY <2>6, <2>7, Induction
  <2>9. g[k] = f[k]
    <3>1. k - 1 \in Nat /\ k - 1 + 1 = k
      BY <1>3
    <3>2. k - 1 \in S
      BY <2>8, <3>1
    <3> QED BY <3>1, <3>2
  <2>10. f[k] \in Seq(A)
    BY <2>1, <2>3, RunsType
  <2>11. Prefix(f[n], Len(f[k])) = f[k]
    BY <2>1, <2>3, RunsGrow
  <2> QED BY <2>1, <2>2, <2>9, <2>10, <2>11 DEF p
<1> QED BY <1>2, <1>3

(* What Units flattens.                                                    *)
Unit == Nat \X {1, 2}
Halves(t) == [i \in DOMAIN t |->
    IF t[i] = 4 THEN <<<<i, 1>>, <<i, 2>>>> ELSE <<<<i, 1>>>>]

LEMMA HalvesPrefix ==
  ASSUME NEW t \in Seq(Width), NEW k \in 0 .. Len(t)
  PROVE  /\ Halves(t) \in Seq(Seq(Unit)) /\ Len(Halves(t)) = Len(t)
         /\ Prefix(Halves(t), k) = Halves(Prefix(t, k))
<1>1. ASSUME NEW u \in Seq(Width)
      PROVE  Halves(u) \in Seq(Seq(Unit)) /\ Len(Halves(u)) = Len(u)
  <2>1. ASSUME NEW i \in Nat
        PROVE  <<<<i, 1>>, <<i, 2>>>> \in Seq(Unit) /\ <<<<i, 1>>>> \in Seq(Unit)
    BY DEF Unit
  <2>2. DOMAIN u = 1 .. Len(u) /\ Len(u) \in Nat
    OBVIOUS
  <2>3. \A i \in DOMAIN u : Halves(u)[i] \in Seq(Unit)
    <3> SUFFICES ASSUME NEW i \in DOMAIN u PROVE Halves(u)[i] \in Seq(Unit)
      OBVIOUS
    <3>1. i \in Nat
      BY <2>2
    <3>2. Halves(u)[i] = IF u[i] = 4 THEN <<<<i, 1>>, <<i, 2>>>> ELSE <<<<i, 1>>>>
      BY DEF Halves
    <3> QED BY <2>1, <3>1, <3>2
  <2>4. Halves(u) = [i \in 1 .. Len(u) |-> Halves(u)[i]]
    BY <2>2 DEF Halves
  <2> HIDE DEF Halves
  <2> QED BY <2>2, <2>3, <2>4
<1>2. Prefix(t, k) \in Seq(Width) /\ Len(Prefix(t, k)) = k
      /\ \A i \in 1 .. k : Prefix(t, k)[i] = t[i]
  BY PrefixShape
<1>3. Halves(Prefix(t, k)) \in Seq(Seq(Unit)) /\ Len(Halves(Prefix(t, k))) = k
  BY <1>1, <1>2
<1>4. Prefix(Halves(t), k) \in Seq(Seq(Unit)) /\ Len(Prefix(Halves(t), k)) = k
      /\ \A i \in 1 .. k : Prefix(Halves(t), k)[i] = Halves(t)[i]
  BY <1>1, PrefixShape
<1>5. \A i \in 1 .. k : Halves(t)[i] = Halves(Prefix(t, k))[i]
  BY <1>2 DEF Halves
<1> QED BY <1>1, <1>3, <1>4, <1>5

(* The units of the first code points are the first units.                 *)
LEMMA UnitsPrefix ==
  ASSUME NEW t \in Seq(Width), NEW k \in 0 .. Len(t)
  PROVE  Prefix(Units(t), Len(Units(Prefix(t, k)))) = Units(Prefix(t, k))
<1>1. Halves(t) \in Seq(Seq(Unit)) /\ Len(Halves(t)) = Len(t)
      /\ Prefix(Halves(t), k) = Halves(Prefix(t, k))
  BY HalvesPrefix
<1>2. Units(t) = FlattenSeq(Halves(t))
      /\ Units(Prefix(t, k)) = FlattenSeq(Halves(Prefix(t, k)))
  BY DEF Units, Halves
<1> QED BY <1>1, <1>2, FlattenPrefix

-----------------------------------------------------------------------------
(* The invariant.                                                          *)

Resolves(p) == Located(p, cdn) /\ Opens(p, cdn[<<p.cdnNumber, p.cdnKey>>])

(* What the host has uploaded before stays where it is: its keys are not   *)
(* those of a call of sendMessage.                                         *)
GivenInv ==
  /\ text \in Texts /\ try \in 0 .. MaxTries
  /\ DOMAIN cdn = Places
  /\ given \in Seq(Range(given))
  /\ \A i \in DOMAIN given : Resolves(given[i]) /\ given[i].cdnKey = 0

(* The upload under way is of the whole text, for the current call.        *)
Forms == [cdnNumber : CdnNumbers, cdnKey : 0 .. NoKey]
LongUpload(padded, form) ==
  [Encrypted(text, Bytes(text), padded, try) EXCEPT !.form = form]

UploadInv ==
  step \in {"form", "init", "put", "post"} =>
    /\ try > 0
    /\ Bytes(text) > BodyLimit
    /\ \E padded \in PaddedSizes(Bytes(text)), form \in Forms :
         /\ upload = LongUpload(padded, form)
         /\ step # "form" => form.cdnKey = try

(* A pointer to the whole text.                                            *)
HoldsText(p) == Decrypted(p, p.digest) = [data |-> text, length |-> Bytes(text)]

(* The body of what is sent, and what goes before the other attachments.   *)
CutAt(k) ==
  /\ content.body = Units(SubSeq(text, 1, k))
  /\ Bytes(SubSeq(text, 1, k)) <= BodyLimit
  /\ k < Len(text) =>
       /\ Bytes(SubSeq(text, 1, k + 1)) > BodyLimit
       /\ Len(content.attachments) > 0
       /\ HoldsText(content.attachments[1])

ContentInv ==
  step \in {"encode", "sent"} =>
    /\ \E n \in Nat : /\ DOMAIN content.attachments = 1 .. n
                    /\ Len(content.attachments) = n
    /\ PointersResolve
    /\ \E k \in 0 .. Len(text) : CutAt(k)

ReaderInv ==
  /\ reader \in {"idle", "reading", "done"}
  /\ step = "sent" => encoded \in Encodings /\ wire = Pad(encoded)
  /\ reader # "idle" => step = "sent" /\ stripped = encoded
  /\ fetched \in Seq(Range(fetched))
  /\ reader = "idle" => fetched = <<>>
  /\ reader # "idle" => Len(fetched) <= Len(content.attachments)
  /\ \A i \in 1 .. Len(fetched) :
       fetched[i] = Decrypted(content.attachments[i], content.attachments[i].digest)
  /\ reader = "done" => Len(fetched) = Len(content.attachments)

TextInv == GivenInv /\ UploadInv /\ ContentInv /\ ReaderInv

(* The attachments of a long text: the text before the others.             *)
LEMMA Attached ==
  ASSUME given \in Seq(Range(given)), NEW p
  PROVE  LET s == <<p>> \o given IN
         /\ Len(given) \in Nat /\ DOMAIN given = 1 .. Len(given)
         /\ DOMAIN s = 1 .. Len(given) + 1 /\ Len(s) = Len(given) + 1
         /\ s[1] = p
         /\ \A i \in DOMAIN s : i = 1 \/ (i - 1 \in DOMAIN given /\ s[i] = given[i - 1])
<1> DEFINE A == Range(given) \cup {p}
<1>1. Len(given) \in Nat /\ DOMAIN given = 1 .. Len(given)
  OBVIOUS
<1>2. \A i \in DOMAIN given : given[i] \in A
  BY DEF Range
<1>3. given \in Seq(A) /\ <<p>> \in Seq(A) /\ Len(<<p>>) = 1 /\ <<p>>[1] = p
  BY <1>1, <1>2
<1> HIDE DEF A
<1> QED BY <1>1, <1>3, ConcatProperties

(* An upload that is over: its pointer resolves and holds the whole text,  *)
(* and what the host has uploaded before is still there.                   *)
LEMMA StoreResolves ==
  ASSUME Store, DOMAIN cdn = Places, try \in 0 .. MaxTries,
         NEW padded, NEW form \in Forms, upload = LongUpload(padded, form)
  PROVE  LET p == Complete(upload) IN
         Located(p, cdn') /\ Opens(p, cdn'[<<p.cdnNumber, p.cdnKey>>])
<1> DEFINE p == Complete(upload)
           place == Place(upload)
<1>1. /\ upload.object = [data |-> text, length |-> padded, key |-> try]
      /\ upload.pointer = [key |-> try, size |-> Bytes(text),
                           digest |-> upload.object, cdnNumber |-> 0, cdnKey |-> NoKey]
      /\ upload.form = form
  BY DEF LongUpload, Encrypted
<1>2. /\ p.key = try /\ p.digest = upload.object
      /\ p.cdnNumber = form.cdnNumber /\ p.cdnKey = form.cdnKey
  BY <1>1 DEF Complete
<1>3. place = <<form.cdnNumber, form.cdnKey>>
  BY <1>1 DEF Place
<1>4. cdn'[place] = upload.object
  <2>1. place \in Places
    BY <1>3 DEF Places, Forms
  <2> QED BY <2>1 DEF Store
<1> HIDE DEF p, place
<1>5. place = <<p.cdnNumber, p.cdnKey>> /\ p.digest = upload.object /\ p.key = try
      /\ upload.object.key = try /\ upload.object # NoObject
  BY <1>1, <1>2, <1>3, TextAssumption DEF TextAssumption, NoObject, NoKey
<1> QED BY <1>4, <1>5 DEF Located, Opens, p

LEMMA StoreKeeps ==
  ASSUME Store, upload.form.cdnKey # 0,
         NEW p, Resolves(p), p.cdnKey = 0
  PROVE  Resolves(p)'
<1> DEFINE place == <<p.cdnNumber, p.cdnKey>>
<1>1. place # Place(upload)
  BY DEF Place
<1>2. cdn'[place] = cdn[place]
  BY <1>1 DEF Store
<1> QED BY <1>2 DEF Resolves, Located, Opens

LEMMA LongHoldsText ==
  ASSUME Bytes(text) \in Nat,
         NEW padded \in PaddedSizes(Bytes(text)), NEW form,
         upload = LongUpload(padded, form)
  PROVE  HoldsText(Complete(upload))
  BY DEF LongUpload, Encrypted, Complete, HoldsText, Decrypted, PaddedSizes

LEMMA TextWidths == text \in Texts => text \in Seq(Width)
  BY TextAssumption DEF TextAssumption, Width

(* The split takes the longest beginning that the limit allows, whole code *)
(* points of it, and what fits is left as it is                            *)
(* (splitUtf8TextAtByteLimit, client.ts:526-548).                          *)
THEOREM SplitIsLongest ==
  ASSUME NEW t \in Seq(Width), NEW limit \in Nat
  PROVE  \E k \in 0 .. Len(t) :
           /\ Split(t, limit).prefix = Units(Prefix(t, k))
           /\ Split(t, limit).prefixBytes = Bytes(Prefix(t, k))
           /\ Bytes(Prefix(t, k)) <= limit
           /\ \A m \in k + 1 .. Len(t) : Bytes(Prefix(t, m)) > limit
           /\ Bytes(t) <= limit => k = Len(t)
<1>1. PICK k \in 0 .. Len(t) : k = Fitting(t, limit)
  BY FittingFits, Zenon
<1>2. Bytes(Prefix(t, k)) <= limit
      /\ (k < Len(t) => Bytes(Prefix(t, k + 1)) > limit)
  BY <1>1, FittingFits, Zenon
<1>3. ASSUME NEW m \in k + 1 .. Len(t)
      PROVE  Bytes(Prefix(t, m)) > limit
  <2>1. k < Len(t) /\ k + 1 \in 0 .. Len(t) /\ m \in 0 .. Len(t)
    OBVIOUS
  <2>2. Bytes(Prefix(t, k + 1)) <= Bytes(Prefix(t, m))
    BY <2>1, BytesGrow
  <2>3. Bytes(Prefix(t, k + 1)) \in Nat /\ Bytes(Prefix(t, m)) \in Nat
    BY <2>1, BytesNat
  <2> QED BY <1>2, <2>1, <2>2, <2>3
<1>4. ASSUME Bytes(t) <= limit
      PROVE  k = Len(t)
  <2>1. Prefix(t, Len(t)) = t /\ Len(t) \in 0 .. Len(t)
    BY PrefixAll
  <2>2. Bytes(t) \in Nat
    BY <2>1, BytesNat
  <2>3. ASSUME k # Len(t) PROVE FALSE
    <3>1. Len(t) \in k + 1 .. Len(t)
      BY <2>3
    <3>2. Bytes(Prefix(t, Len(t))) > limit
      BY <1>3, <3>1
    <3> QED BY <1>4, <2>1, <2>2, <3>2
  <2> QED BY <2>3
<1>5. Split(t, limit).prefix = Units(Prefix(t, k))
  BY <1>1, UnitsPrefix DEF Split, Prefix
<1>6. Split(t, limit).prefixBytes = Bytes(Prefix(t, k))
  BY <1>1 DEF Split, Prefix
<1> QED BY <1>2, <1>3, <1>4, <1>5, <1>6

LEMMA SplitCuts ==
  ASSUME NEW t \in Seq(Width), NEW limit \in Nat
  PROVE  Split(t, limit).prefix = Units(SubSeq(t, 1, Fitting(t, limit)))
<1>1. Fitting(t, limit) \in 0 .. Len(t)
  BY FittingFits
<1> QED BY <1>1, UnitsPrefix DEF Split, Prefix

-----------------------------------------------------------------------------
(* Every step keeps it.                                                    *)

LEMMA InitText == Init => TextInv
<1> SUFFICES ASSUME Init PROVE TextInv
  OBVIOUS
<1>1. PICK own \in BOOLEAN :
        LET up == [Encrypted(<<2>>, 2, 3, 0) EXCEPT !.form = [cdnNumber |-> 2, cdnKey |-> 0]]
        IN  /\ given = IF own THEN <<Complete(up)>> ELSE <<>>
            /\ cdn = [place \in Places |->
                        IF own /\ place = Place(up) THEN up.object ELSE NoObject]
  BY DEF Init
<1> DEFINE up == [Encrypted(<<2>>, 2, 3, 0) EXCEPT !.form = [cdnNumber |-> 2, cdnKey |-> 0]]
           p == Complete(up)
<1>2. /\ up.object = [data |-> <<2>>, length |-> 3, key |-> 0]
      /\ up.pointer = [key |-> 0, size |-> 2, digest |-> up.object,
                       cdnNumber |-> 0, cdnKey |-> NoKey]
      /\ up.form = [cdnNumber |-> 2, cdnKey |-> 0]
  BY DEF Encrypted
<1> HIDE DEF up
<1>3. p.key = 0 /\ p.digest = up.object /\ p.cdnNumber = 2 /\ p.cdnKey = 0
  BY <1>2 DEF Complete
<1>4. Place(up) = <<2, 0>> /\ <<2, 0>> \in Places
  BY <1>2, TextAssumption DEF TextAssumption, Place, Places, CdnNumbers, NoKey
<1>5. up.object.key = 0 /\ up.object # NoObject
  BY <1>2, TextAssumption DEF TextAssumption, NoObject, NoKey
<1>6. /\ given = IF own THEN <<p>> ELSE <<>>
      /\ cdn = [place \in Places |->
                  IF own /\ place = Place(up) THEN up.object ELSE NoObject]
  BY <1>1 DEF up
<1> HIDE DEF p
<1>7. GivenInv
  <2>1. text \in Texts /\ try \in 0 .. MaxTries /\ DOMAIN cdn = Places
    BY <1>6, TextAssumption DEF Init, TextAssumption
  <2>2. given \in Seq(Range(given))
    <3>1. given = <<p>> \/ given = <<>>
      BY <1>6
    <3>2. Range(<<p>>) = {p} /\ <<p>> \in Seq({p})
      BY DEF Range
    <3>3. <<>> \in Seq(Range(<<>>))
      OBVIOUS
    <3> QED BY <3>1, <3>2, <3>3
  <2>3. ASSUME NEW i \in DOMAIN given
        PROVE  Resolves(given[i]) /\ given[i].cdnKey = 0
    <3>1. own /\ given[i] = p
      BY <1>6
    <3>2. cdn[<<2, 0>>] = up.object
      BY <1>4, <1>6, <3>1
    <3>3. cdn[<<p.cdnNumber, p.cdnKey>>] = up.object
      BY <1>3, <3>2
    <3> QED BY <1>3, <1>5, <3>1, <3>3 DEF Resolves, Located, Opens
  <2> QED BY <2>1, <2>2, <2>3 DEF GivenInv
<1>8. UploadInv /\ ContentInv
  BY DEF Init, UploadInv, ContentInv
<1>9. ReaderInv
  BY DEF Init, ReaderInv, Range
<1> QED BY <1>7, <1>8, <1>9 DEF TextInv

LEMMA TextIsTyped ==
  ASSUME GivenInv
  PROVE  /\ text \in Seq(Width) /\ Len(text) \in Nat /\ Bytes(text) \in Nat
         /\ SubSeq(text, 1, Len(text)) = text
<1>1. text \in Seq(Width)
  BY TextWidths DEF GivenInv
<1>2. Len(text) \in 0 .. Len(text) /\ Prefix(text, Len(text)) = text
  BY <1>1, PrefixAll
<1>3. Bytes(text) \in Nat
  BY <1>1, <1>2, BytesNat
<1> QED BY <1>1, <1>2, <1>3 DEF Prefix

LEMMA SendMessageKeeps == TextInv /\ SendMessage => TextInv'
<1> SUFFICES ASSUME TextInv, SendMessage PROVE TextInv'
  OBVIOUS
<1> USE DEF TextInv
<1>1. /\ text \in Seq(Width) /\ Len(text) \in Nat /\ Bytes(text) \in Nat
      /\ SubSeq(text, 1, Len(text)) = text
  BY TextIsTyped
<1>2. GivenInv'
  <2>1. try' \in 0 .. MaxTries
    BY TextAssumption DEF SendMessage, GivenInv, TextAssumption
  <2> QED BY <2>1 DEF SendMessage, GivenInv, Resolves
<1>3. ReaderInv'
  BY DEF SendMessage, ReaderInv, readVars
<1>4. CASE Bytes(text) <= BodyLimit /\ content' = TextContent(Units(text), given)
           /\ step' = "encode" /\ UNCHANGED upload
  <2>1. UploadInv'
    BY <1>4 DEF UploadInv
  <2>2. content'.body = Units(text) /\ content'.attachments = given
    BY <1>4 DEF TextContent
  <2>3. Len(given) \in Nat /\ DOMAIN given = 1 .. Len(given)
    BY DEF GivenInv
  <2>4. PointersResolve'
    BY <1>2, <2>2 DEF PointersResolve, GivenInv, Resolves, SendMessage
  <2>5. PICK k \in 0 .. Len(text) : k = Len(text)
    <3>1. Len(text) \in 0 .. Len(text)
      BY <1>1
    <3> QED BY <3>1, Zenon
  <2>6. CutAt(k)'
    <3>1. text' = text /\ SubSeq(text, 1, k) = text
      BY <1>1, <2>5 DEF SendMessage
    <3>2. ~(k < Len(text'))
      BY <1>1, <2>5, <3>1
    <3> QED BY <1>4, <2>2, <3>1, <3>2 DEF CutAt
  <2>7. ContentInv'
    BY <2>2, <2>3, <2>4, <2>5, <2>6 DEF ContentInv, SendMessage
  <2> QED BY <1>2, <1>3, <2>1, <2>7
<1>5. CASE /\ Bytes(text) > BodyLimit
           /\ \E padded \in PaddedSizes(Bytes(text)) :
                upload' = Encrypted(text, Bytes(text), padded, try')
           /\ step' = "form"
           /\ UNCHANGED content
  <2>1. PICK padded \in PaddedSizes(Bytes(text)) :
          upload' = Encrypted(text, Bytes(text), padded, try')
    BY <1>5
  <2>2. upload' = LongUpload(padded, NoForm)' /\ NoForm \in Forms
    BY <2>1, TextAssumption
       DEF TextAssumption, LongUpload, Encrypted, SendMessage, NoForm, Forms,
           CdnNumbers, NoKey
  <2>3. try' > 0
    BY DEF SendMessage, GivenInv
  <2>4. UploadInv'
    <3>1. text' = text
      BY DEF SendMessage
    <3> QED BY <1>5, <2>2, <2>3, <3>1 DEF UploadInv
  <2>5. ContentInv'
    BY <1>5 DEF ContentInv
  <2> QED BY <1>2, <1>3, <2>4, <2>5
<1> QED BY <1>4, <1>5 DEF SendMessage

LEMMA FormArrivesKeeps == TextInv /\ FormArrives => TextInv'
<1> SUFFICES ASSUME TextInv, FormArrives PROVE TextInv'
  OBVIOUS
<1> USE DEF TextInv
<1>1. GivenInv' /\ ReaderInv'
  BY DEF FormArrives, GivenInv, ReaderInv, Resolves, readVars
<1>2. PICK number \in CdnNumbers :
        /\ upload' = [upload EXCEPT !.form = [cdnNumber |-> number, cdnKey |-> try]]
        /\ step' = CASE number = 3 -> "post"
                     [] number = 2 -> "init"
                     [] OTHER -> "failed"
  BY DEF FormArrives
<1>3. step' \in {"post", "init", "failed"}
  BY <1>2
<1>4. PICK padded \in PaddedSizes(Bytes(text)), form \in Forms :
        upload = LongUpload(padded, form)
  BY DEF FormArrives, UploadInv
<1> DEFINE new == [cdnNumber |-> number, cdnKey |-> try]
<1>5. upload' = LongUpload(padded, new)'
  BY <1>2, <1>4 DEF LongUpload, Encrypted, FormArrives
<1>6. new \in Forms
  BY TextAssumption DEF TextAssumption, GivenInv, NoKey, Forms
<1>7. UploadInv'
  <2>1. try > 0 /\ Bytes(text) > BodyLimit /\ text' = text /\ try' = try
    BY DEF FormArrives, UploadInv
  <2> QED BY <1>4, <1>5, <1>6, <2>1 DEF UploadInv
<1>8. ContentInv'
  BY <1>3 DEF ContentInv
<1> QED BY <1>1, <1>7, <1>8

LEMMA InitAnsweredKeeps == TextInv /\ InitAnswered => TextInv'
<1> SUFFICES ASSUME TextInv, InitAnswered PROVE TextInv'
  OBVIOUS
<1> USE DEF TextInv
<1>1. GivenInv' /\ ReaderInv'
  BY DEF InitAnswered, GivenInv, ReaderInv, Resolves, readVars
<1>2. UploadInv'
  BY DEF InitAnswered, UploadInv, LongUpload
<1>3. ContentInv'
  BY DEF InitAnswered, ContentInv
<1> QED BY <1>1, <1>2, <1>3

(* What is up stays up.                                                    *)
LEMMA StoreKeepsGiven ==
  ASSUME TextInv, step \in {"put", "post"}, Store,
         UNCHANGED <<text, given, try>>
  PROVE  GivenInv'
<1>1. PICK padded \in PaddedSizes(Bytes(text)), form \in Forms :
        upload = LongUpload(padded, form) /\ form.cdnKey = try
  BY DEF TextInv, UploadInv
<1>2. upload.form.cdnKey # 0
  BY <1>1 DEF LongUpload, Encrypted, TextInv, UploadInv
<1>3. \A i \in DOMAIN given : Resolves(given[i])' /\ given[i].cdnKey = 0
  BY <1>2, StoreKeeps DEF TextInv, GivenInv
<1>4. DOMAIN cdn' = DOMAIN cdn
  BY DEF Store
<1> QED BY <1>3, <1>4 DEF TextInv, GivenInv, Resolves

LEMMA UploadedKeeps == TextInv /\ Uploaded => TextInv'
<1> SUFFICES ASSUME TextInv, Uploaded PROVE TextInv'
  OBVIOUS
<1>1. GivenInv'
  BY StoreKeepsGiven DEF Uploaded
<1> USE DEF TextInv
<1>2. UploadInv' /\ ReaderInv'
  BY DEF Uploaded, UploadInv, ReaderInv, readVars
<1>3. /\ text \in Seq(Width) /\ Len(text) \in Nat /\ Bytes(text) \in Nat
  BY TextIsTyped
<1>4. PICK padded \in PaddedSizes(Bytes(text)), form \in Forms :
        upload = LongUpload(padded, form)
  BY DEF Uploaded, UploadInv
<1> DEFINE p == Complete(upload)
<1>5. Located(p, cdn') /\ Opens(p, cdn'[<<p.cdnNumber, p.cdnKey>>])
  BY <1>4, StoreResolves DEF Uploaded, GivenInv
<1>6. HoldsText(p)
  BY <1>3, <1>4, LongHoldsText
<1> HIDE DEF p
<1>7. /\ content'.body = Split(text, BodyLimit).prefix
      /\ content'.attachments = <<p>> \o given
  BY DEF Uploaded, LongTextContent, TextContent, p
<1>8. /\ Len(given) \in Nat /\ DOMAIN given = 1 .. Len(given)
      /\ DOMAIN content'.attachments = 1 .. Len(given) + 1
      /\ Len(content'.attachments) = Len(given) + 1
      /\ content'.attachments[1] = p
      /\ \A i \in DOMAIN content'.attachments :
           i = 1 \/ (i - 1 \in DOMAIN given
                     /\ content'.attachments[i] = given[i - 1])
  BY <1>7, Attached DEF GivenInv
<1>9. PointersResolve'
  <2> SUFFICES ASSUME NEW i \in DOMAIN content'.attachments
               PROVE  LET q == content'.attachments[i] IN
                      Located(q, cdn') /\ Opens(q, cdn'[<<q.cdnNumber, q.cdnKey>>])
    BY DEF PointersResolve
  <2>1. CASE i = 1
    BY <1>5, <1>8, <2>1
  <2>2. CASE i # 1
    <3>1. i - 1 \in DOMAIN given /\ content'.attachments[i] = given[i - 1]
      BY <1>8, <2>2
    <3>2. Resolves(given[i - 1])'
      BY <1>1, <3>1 DEF GivenInv, Uploaded
    <3>3. given' = given
      BY DEF Uploaded
    <3> QED BY <3>1, <3>2, <3>3 DEF Resolves
  <2> QED BY <2>1, <2>2
<1>10. PICK k \in 0 .. Len(text) :
       /\ k = Fitting(text, BodyLimit)
       /\ Bytes(SubSeq(text, 1, k)) <= BodyLimit
       /\ k < Len(text) => Bytes(SubSeq(text, 1, k + 1)) > BodyLimit
  BY <1>3, FittingFits, TextAssumption DEF TextAssumption, Prefix
<1>11. content'.body = Units(SubSeq(text, 1, k))
  BY <1>3, <1>7, <1>10, SplitCuts, TextAssumption DEF TextAssumption
<1>12. CutAt(k)'
  BY <1>6, <1>8, <1>10, <1>11 DEF CutAt, HoldsText, Uploaded
<1>13. ContentInv'
  BY <1>8, <1>9, <1>10, <1>12 DEF ContentInv, Uploaded
<1> QED BY <1>1, <1>2, <1>13

LEMMA RequestFailsKeeps == TextInv /\ RequestFails => TextInv'
<1> SUFFICES ASSUME TextInv, RequestFails PROVE TextInv'
  OBVIOUS
<1>1. GivenInv'
  <2>1. CASE UNCHANGED cdn
    BY <2>1 DEF RequestFails, TextInv, GivenInv, Resolves
  <2>2. CASE step \in {"put", "post"} /\ Store
    BY <2>2, StoreKeepsGiven DEF RequestFails
  <2> QED BY <2>1, <2>2 DEF RequestFails
<1>2. UploadInv' /\ ContentInv' /\ ReaderInv'
  BY DEF RequestFails, TextInv, UploadInv, ContentInv, ReaderInv, readVars
<1> QED BY <1>1, <1>2 DEF TextInv

LEMMA SendContentKeeps == TextInv /\ SendContent => TextInv'
<1> SUFFICES ASSUME TextInv, SendContent PROVE TextInv'
  OBVIOUS
<1>1. GivenInv' /\ UploadInv'
  BY DEF SendContent, TextInv, GivenInv, UploadInv, Resolves
<1>2. ContentInv'
  BY DEF SendContent, TextInv, ContentInv, PointersResolve, CutAt, HoldsText
<1>3. ReaderInv'
  BY DEF SendContent, TextInv, ReaderInv, readVars
<1> QED BY <1>1, <1>2, <1>3 DEF TextInv

(* The steps of the receiver leave the sender alone.                       *)
LEMMA SenderUnchanged ==
  ASSUME TextInv, UNCHANGED <<sendVars, cdn>>
  PROVE  GivenInv' /\ UploadInv' /\ ContentInv'
<1>1. GivenInv'
  BY DEF TextInv, sendVars, GivenInv, Resolves
<1>2. UploadInv'
  BY DEF TextInv, sendVars, UploadInv, LongUpload
<1>3. ContentInv'
  BY DEF TextInv, sendVars, ContentInv, PointersResolve, CutAt, HoldsText
<1> QED BY <1>1, <1>2, <1>3

LEMMA ReceiveKeeps == TextInv /\ Receive => TextInv'
<1> SUFFICES ASSUME TextInv, Receive PROVE TextInv'
  OBVIOUS
<1>1. GivenInv' /\ UploadInv' /\ ContentInv'
  BY SenderUnchanged DEF Receive
<1>2. stripped' = encoded
  <2>1. encoded \in Seq(Byte) /\ wire = Pad(encoded)
    BY TextAssumption DEF Receive, TextInv, ReaderInv, TextAssumption
  <2> QED BY <2>1, StripUndoesPad DEF Receive
<1>3. Len(content.attachments) \in Nat /\ fetched = <<>>
  BY DEF Receive, TextInv, ContentInv, ReaderInv
<1>4. ReaderInv'
  BY <1>2, <1>3 DEF Receive, TextInv, ReaderInv, sendVars
<1> QED BY <1>1, <1>4 DEF TextInv

LEMMA DownloadKeeps == TextInv /\ Download => TextInv'
<1> SUFFICES ASSUME TextInv, Download PROVE TextInv'
  OBVIOUS
<1>1. GivenInv' /\ UploadInv' /\ ContentInv'
  BY SenderUnchanged DEF Download
<1> DEFINE n == Len(fetched)
           p == content.attachments[n + 1]
           d == Decrypted(p, p.digest)
<1>2. fetched' = Append(fetched, d)
  BY DEF Download, Opens
<1> HIDE DEF d
<1>3. /\ fetched \in Seq(Range(fetched)) /\ n \in Nat
      /\ \A i \in 1 .. n :
           fetched[i] = Decrypted(content.attachments[i], content.attachments[i].digest)
  BY DEF TextInv, ReaderInv
<1>4. /\ Len(fetched') = n + 1 /\ DOMAIN fetched' = 1 .. n + 1
      /\ \A i \in 1 .. n : fetched'[i] = fetched[i]
      /\ fetched'[n + 1] = d
  <2> DEFINE A == Range(fetched) \cup {d}
  <2>1. fetched \in Seq(A) /\ d \in A
    BY <1>3 DEF Range
  <2> HIDE DEF A
  <2> QED BY <1>2, <2>1
<1>5. fetched' \in Seq(Range(fetched'))
  <2> DEFINE A == Range(fetched) \cup {d}
  <2>1. fetched \in Seq(A) /\ d \in A
    BY <1>3 DEF Range
  <2>2. fetched' \in Seq(A)
    BY <1>2, <2>1
  <2>3. \A i \in DOMAIN fetched' : fetched'[i] \in Range(fetched')
    BY DEF Range
  <2> HIDE DEF A
  <2> QED BY <1>4, <2>2, <2>3
<1>6. \A i \in 1 .. n + 1 :
        fetched'[i] = Decrypted(content.attachments[i], content.attachments[i].digest)
  BY <1>3, <1>4 DEF d
<1>7. /\ UNCHANGED <<step, content, encoded, wire, reader, stripped>>
      /\ step = "sent" /\ reader = "reading" /\ n < Len(content.attachments)
  BY DEF Download, sendVars, TextInv, ReaderInv
<1>8. Len(content.attachments) \in Nat
  BY <1>7 DEF TextInv, ContentInv
<1>9. Len(fetched') <= Len(content.attachments)
  BY <1>3, <1>4, <1>7, <1>8
<1>10. ReaderInv'
  BY <1>4, <1>5, <1>6, <1>7, <1>9 DEF TextInv, ReaderInv
<1> QED BY <1>1, <1>10 DEF TextInv

LEMMA ReadAllKeeps == TextInv /\ ReadAll => TextInv'
<1> SUFFICES ASSUME TextInv, ReadAll PROVE TextInv'
  OBVIOUS
<1>1. GivenInv' /\ UploadInv' /\ ContentInv'
  BY SenderUnchanged DEF ReadAll
<1>2. ReaderInv'
  BY DEF ReadAll, TextInv, ReaderInv, sendVars
<1> QED BY <1>1, <1>2 DEF TextInv

LEMMA NextKeeps == TextInv /\ [Next]_vars => TextInv'
<1>1. TextInv /\ UNCHANGED vars => TextInv'
  <2> SUFFICES ASSUME TextInv, UNCHANGED vars PROVE TextInv'
    OBVIOUS
  <2>1. UNCHANGED <<sendVars, cdn>> /\ UNCHANGED readVars
    BY DEF vars
  <2>2. ReaderInv'
    BY <2>1 DEF TextInv, ReaderInv, readVars, sendVars
  <2> QED BY <2>1, <2>2, SenderUnchanged DEF TextInv
<1> QED
  BY <1>1, SendMessageKeeps, FormArrivesKeeps, InitAnsweredKeeps, UploadedKeeps,
     RequestFailsKeeps, SendContentKeeps, ReceiveKeeps, DownloadKeeps, ReadAllKeeps
     DEF Next

(* The invariant of a text on its way, for every text, limit, encoding and *)
(* number of tries (createTextContent, uploadSignalAttachment).            *)
THEOREM TextInvariant == Spec => []TextInv
  BY InitText, NextKeeps, PTL DEF Spec

(* No message is sent with a pointer to an upload that is not over, also   *)
(* after failed and abandoned uploads (uploadSignalAttachment).            *)
THEOREM PointersAlwaysResolve == Spec => []PointersResolve
<1>1. TextInv => PointersResolve
  BY DEF TextInv, ContentInv, PointersResolve
<1> QED BY <1>1, TextInvariant, PTL

(* The reader has the text: in the body, or its longest beginning there    *)
(* and the whole in the first attachment (splitUtf8TextAtByteLimit,        *)
(* padSignalMessageBody, decryptSignalAttachment).                         *)
THEOREM ReaderAlwaysGetsText == Spec => []ReaderGetsText
<1>1. TextInv => ReaderGetsText
  <2> SUFFICES ASSUME TextInv PROVE ReaderGetsText
    OBVIOUS
  <2>1. reader # "idle" => stripped = encoded
    BY DEF TextInv, ReaderInv
  <2>2. ASSUME reader = "done"
        PROVE  \E k \in 0 .. Len(text) :
                 /\ content.body = Units(SubSeq(text, 1, k))
                 /\ Bytes(SubSeq(text, 1, k)) <= BodyLimit
                 /\ k < Len(text) =>
                      /\ Bytes(SubSeq(text, 1, k + 1)) > BodyLimit
                      /\ fetched[1] = [data |-> text, length |-> Bytes(text)]
    <3>1. step = "sent" /\ Len(fetched) = Len(content.attachments)
      BY <2>2 DEF TextInv, ReaderInv
    <3>2. PICK k \in 0 .. Len(text) : CutAt(k)
      BY <3>1 DEF TextInv, ContentInv
    <3>3. PICK n \in Nat : Len(content.attachments) = n
      BY <3>1 DEF TextInv, ContentInv
    <3>4. k < Len(text) => fetched[1] = [data |-> text, length |-> Bytes(text)]
      BY <3>1, <3>2, <3>3 DEF TextInv, ReaderInv, CutAt, HoldsText
    <3> QED BY <3>2, <3>4 DEF CutAt
  <2> QED BY <2>1, <2>2 DEF ReaderGetsText
<1> QED BY <1>1, TextInvariant, PTL

=============================================================================
