---------------------------- MODULE PayloadProofs ----------------------------
(***************************************************************************)
(* The bytes of a torrent are safe in every layout: for any number and      *)
(* lengths of files, any piece and block length, and any blocks that peers   *)
(* send.  The walk of piece_spans covers a piece exactly, by induction over  *)
(* the files; the rest follows bytes to their places and back.               *)
(***************************************************************************)
EXTENDS Payload, PieceProgressProofs, WellFoundedInduction, SequenceTheorems

(* Mathematical induction, for a set of numbers.                             *)
LEMMA Induction ==
  ASSUME NEW T \in SUBSET Nat, 0 \in T, \A n \in T : n + 1 \in T
  PROVE  T = Nat
<1> SUFFICES ASSUME Nat \ T # {} PROVE FALSE
  OBVIOUS
<1> DEFINE R == OpToRel(<, Nat)
<1>1. IsWellFoundedOn(R, Nat)
  BY NatLessThanWellFounded
<1> HIDE DEF R
<1>2. PICK n \in Nat \ T : \A m \in Nat \ T : ~ (<<m, n>> \in R)
  BY <1>1, WFMin, Zenon
<1>3. \A m \in Nat \ T : ~ (m < n)
  BY <1>2 DEF R, OpToRel
<1>4. n # 0 /\ n - 1 \in Nat
  OBVIOUS
<1>5. n - 1 \in T
  BY <1>3, <1>4
<1>6. n - 1 + 1 \in T
  BY <1>5
<1> QED  BY <1>6

(* A definition by recursion over 0 .. m defines a function.                 *)
Recurs(g, base, step, m) ==
  g = [n \in 0 .. m |-> IF n = 0 THEN base ELSE step[n][g[n - 1]]]

LEMMA Recursion ==
  ASSUME NEW S, NEW base \in S, NEW m \in Nat, NEW step \in [1 .. m -> [S -> S]]
  PROVE  \E g \in [0 .. m -> S] : Recurs(g, base, step, m)
<1> DEFINE P(k, g) == /\ g \in [0 .. k -> S] /\ g[0] = base
                      /\ \A n \in 1 .. k : g[n] = step[n][g[n - 1]]
           T == {k \in Nat : k <= m => \E g : P(k, g)}
<1>1. 0 \in T
  <2> DEFINE h == [n \in 0 .. 0 |-> base]
  <2>1. h \in [0 .. 0 -> S] /\ h[0] = base
    OBVIOUS
  <2>2. \A n \in 1 .. 0 : FALSE
    OBVIOUS
  <2> HIDE DEF h
  <2>3. P(0, h)
    BY <2>1, <2>2
  <2> HIDE DEF P
  <2> QED  BY <2>3
<1>2. ASSUME NEW k \in T  PROVE k + 1 \in T
  <2> HIDE DEF P
  <2> SUFFICES ASSUME k + 1 <= m  PROVE \E g : P(k + 1, g)
    BY <1>2
  <2>1. PICK h : P(k, h)
    BY <1>2
  <2> USE DEF P
  <2> DEFINE g == [n \in 0 .. k + 1 |-> IF n <= k THEN h[n] ELSE step[n][h[k]]]
  <2>2. k + 1 \in 1 .. m /\ h[k] \in S
    BY <2>1
  <2>3. step[k + 1][h[k]] \in S
    BY <2>2
  <2>4. P(k + 1, g)
    <3>1. g \in [0 .. k + 1 -> S]
      <4>1. \A n \in 0 .. k + 1 : n <= k \/ n = k + 1
        OBVIOUS
      <4> QED  BY <2>1, <2>3, <4>1
    <3>2. g[0] = base
      BY <2>1
    <3>3. ASSUME NEW n \in 1 .. k + 1  PROVE g[n] = step[n][g[n - 1]]
      <4>1. g[n - 1] = h[n - 1]
        OBVIOUS
      <4>2. CASE n = k + 1
        BY <4>1, <4>2
      <4>3. CASE n \in 1 .. k
        BY <4>1, <4>3, <2>1
      <4> QED  BY <4>2, <4>3
    <3> QED  BY <3>1, <3>2, <3>3
  <2> HIDE DEF P
  <2> QED  BY <2>4
<1> HIDE DEF P, T
<1>3. T = Nat
  <2>1. T \subseteq Nat
    BY DEF T
  <2> QED  BY <1>1, <1>2, <2>1, Induction
<1>4. PICK g : P(m, g)
  <2>1. m \in T
    BY <1>3
  <2> QED  BY <2>1 DEF T
<1>5. g = [n \in 0 .. m |-> g[n]]
  BY <1>4 DEF P
<1>6. \A n \in 0 .. m : g[n] = IF n = 0 THEN base ELSE step[n][g[n - 1]]
  BY <1>4 DEF P
<1>7. g = [n \in 0 .. m |-> IF n = 0 THEN base ELSE step[n][g[n - 1]]]
  BY <1>5, <1>6
<1> QED  BY <1>4, <1>7 DEF P, Recurs

LEMMA Division ==
  \A t \in Nat, d \in Nat \ {0} :
    /\ t \div d \in Nat /\ t % d \in 0 .. d - 1
    /\ t = (d * (t \div d)) + (t % d)
OBVIOUS

-----------------------------------------------------------------------------
(* The layout.                                                               *)

(* The offsets of the files add up their lengths.                            *)
LEMMA Offsets ==
  ASSUME lengths \in Seq(Nat)
  PROVE  /\ Offset \in [0 .. Len(lengths) -> Nat] /\ Offset[0] = 0
         /\ \A f \in 1 .. Len(lengths) : Offset[f] = Offset[f - 1] + lengths[f]
<1> DEFINE L == Len(lengths)
           step == [n \in 1 .. L |-> [v \in Nat |-> v + lengths[n]]]
           Sums(g) == g = [f \in 0 .. L |-> IF f = 0 THEN 0 ELSE g[f - 1] + lengths[f]]
           T == {n \in Nat : n <= L => Offset[n] \in Nat}
<1>1. L \in Nat /\ \A f \in 1 .. L : lengths[f] \in Nat
  OBVIOUS
<1>2. \E g : Sums(g)
  <2>1. step \in [1 .. L -> [Nat -> Nat]]
    BY <1>1
  <2> HIDE DEF L, step
  <2>2. PICK g \in [0 .. L -> Nat] : Recurs(g, 0, step, L)
    <3>1. 0 \in Nat
      OBVIOUS
    <3> QED  BY <1>1, <2>1, <3>1, Recursion
  <2>3. \A n \in 1 .. L : step[n][g[n - 1]] = g[n - 1] + lengths[n]
    <3> SUFFICES ASSUME NEW n \in 1 .. L  PROVE step[n][g[n - 1]] = g[n - 1] + lengths[n]
      OBVIOUS
    <3>1. g[n - 1] \in Nat
      BY <1>1
    <3>2. step[n] = [v \in Nat |-> v + lengths[n]]
      BY DEF step
    <3> QED  BY <3>1, <3>2
  <2>4. \A n \in 0 .. L : (IF n = 0 THEN 0 ELSE step[n][g[n - 1]])
                              = IF n = 0 THEN 0 ELSE g[n - 1] + lengths[n]
    BY <1>1, <2>3 DEF L
  <2>5. [n \in 0 .. L |-> IF n = 0 THEN 0 ELSE step[n][g[n - 1]]]
          = [n \in 0 .. L |-> IF n = 0 THEN 0 ELSE g[n - 1] + lengths[n]]
    BY <2>4, Zenon
  <2>6. Sums(g)
    BY <2>2, <2>5, Zenon DEF Recurs
  <2> HIDE DEF Sums
  <2> QED  BY <2>6
<1>3. Sums(Offset)
  <2>1. Offset = CHOOSE g : Sums(g)
    BY Zenon DEF Offset
  <2> HIDE DEF Sums, L
  <2> QED  BY <1>2, <2>1, Zenon
<1>4. Offset[0] = 0 /\ \A f \in 1 .. L : Offset[f] = Offset[f - 1] + lengths[f]
  BY <1>1, <1>3
<1>5. T = Nat
  <2>1. 0 \in T
    BY <1>4
  <2>2. ASSUME NEW n \in T  PROVE n + 1 \in T
    BY <1>1, <1>4, <2>2
  <2>3. T \in SUBSET Nat
    OBVIOUS
  <2> HIDE DEF T
  <2> QED  BY <2>1, <2>2, <2>3, Induction
<1>6. \A f \in 0 .. L : Offset[f] \in Nat
  BY <1>1, <1>5
<1>7. Offset = [f \in 0 .. L |-> Offset[f]]
  BY <1>3
<1> QED  BY <1>4, <1>6, <1>7

LEMMA OffsetsGrow ==
  ASSUME lengths \in Seq(Nat)
  PROVE  \A i, j \in 0 .. Len(lengths) : i <= j => Offset[i] <= Offset[j]
<1> DEFINE L == Len(lengths)
           T == {j \in Nat : j <= L => \A i \in 0 .. j : Offset[i] <= Offset[j]}
<1>1. L \in Nat /\ \A f \in 1 .. L : lengths[f] \in Nat
  OBVIOUS
<1>2. /\ \A f \in 0 .. L : Offset[f] \in Nat
      /\ \A f \in 1 .. L : Offset[f] = Offset[f - 1] + lengths[f]
  BY Offsets
<1>3. 0 \in T
  BY <1>1, <1>2
<1>4. ASSUME NEW j \in T  PROVE j + 1 \in T
  <2> SUFFICES ASSUME j + 1 <= L, NEW i \in 0 .. j + 1
               PROVE  Offset[i] <= Offset[j + 1]
    OBVIOUS
  <2>1. /\ Offset[j + 1] = Offset[j] + lengths[j + 1] /\ lengths[j + 1] \in Nat
        /\ Offset[j] \in Nat
    BY <1>1, <1>2
  <2>2. CASE i = j + 1
    BY <2>1, <2>2
  <2>3. CASE i \in 0 .. j
    <3>1. Offset[i] <= Offset[j] /\ Offset[i] \in Nat
      BY <1>1, <1>2, <2>3
    <3> QED  BY <2>1, <3>1
  <2> QED  BY <2>2, <2>3
<1>5. T \in SUBSET Nat
  OBVIOUS
<1> HIDE DEF T
<1>6. T = Nat
  BY <1>3, <1>4, <1>5, Induction
<1>7. ASSUME NEW i \in 0 .. L, NEW j \in 0 .. L, i <= j
      PROVE  Offset[i] <= Offset[j]
  <2>1. j \in T
    BY <1>1, <1>6
  <2> QED  BY <1>1, <1>7, <2>1 DEF T
<1> QED  BY <1>7

(* Position n of the torrent lies in file f.                                 *)
In(n, f) == Before(f) <= n /\ n < Before(f) + lengths[f]

LEMMA Files ==
  ASSUME lengths \in Seq(Nat)
  PROVE  /\ File = 1 .. Len(lengths) /\ Len(lengths) \in Nat /\ TotalLength \in Nat
         /\ \A f \in File : /\ f \in Nat \ {0} /\ lengths[f] \in Nat /\ Before(f) \in Nat
                            /\ Before(f) + lengths[f] = Offset[f] /\ Offset[f] \in Nat
                            /\ Before(f) + lengths[f] <= TotalLength
<1>1. File = 1 .. Len(lengths) /\ Len(lengths) \in Nat
  BY DEF File
<1>2. /\ \A f \in 0 .. Len(lengths) : Offset[f] \in Nat
      /\ \A f \in 1 .. Len(lengths) : Offset[f] = Offset[f - 1] + lengths[f]
  BY Offsets
<1>3. \A f \in 0 .. Len(lengths) : Offset[f] <= Offset[Len(lengths)]
  BY <1>1, OffsetsGrow
<1> QED  BY <1>1, <1>2, <1>3 DEF Before, TotalLength

LEMMA OneFile ==
  ASSUME lengths \in Seq(Nat), NEW n \in Nat, NEW f \in File, NEW g \in File,
         In(n, f), In(n, g)
  PROVE  f = g
<1>1. ASSUME NEW i \in File, NEW j \in File, i < j  PROVE ~ (In(n, i) /\ In(n, j))
  <2>1. i \in 0 .. Len(lengths) /\ j - 1 \in 0 .. Len(lengths) /\ i <= j - 1
    <3>1. File = 1 .. Len(lengths) /\ Len(lengths) \in Nat
      BY Files
    <3> QED  BY <1>1, <3>1
  <2>2. Offset[i] <= Offset[j - 1]
    BY <2>1, OffsetsGrow
  <2>3. Before(j) = Offset[j - 1]
    BY DEF Before
  <2>4. Before(i) + lengths[i] = Offset[i] /\ Before(j) \in Nat /\ Offset[i] \in Nat
    BY Files
  <2> QED  BY <2>2, <2>3, <2>4 DEF In
<1>2. f \in Nat /\ g \in Nat
  BY Files
<1> QED  BY <1>1, <1>2

(* A stretch of T cut in lengths of L: how many, and where each one ends.     *)
LEMMA Cuts ==
  ASSUME NEW T \in Nat, NEW L \in Nat \ {0}
  PROVE  CeilDiv(T, L) = IF T % L = 0 THEN T \div L ELSE (T \div L) + 1
<1> DEFINE q == T \div L  r == T % L  s == T + L - 1
<1>1. q \in Nat /\ r \in 0 .. L - 1 /\ T = (L * q) + r
  BY Division
<1>2. CeilDiv(T, L) = s \div L /\ s \in Nat
  BY DEF CeilDiv
<1>3. s \div L \in Nat /\ s % L \in 0 .. L - 1 /\ s = (L * (s \div L)) + (s % L)
  BY <1>2, Division
<1>4. \A a, b \in Nat : \A c, d \in 0 .. L - 1 : (L * a) + c = (L * b) + d => a = b
  OBVIOUS
<1>5. CASE r = 0
  <2>1. s = (L * q) + (L - 1) /\ L - 1 \in 0 .. L - 1
    <3>1. s = T + L - 1 /\ L * q \in Nat
      BY <1>1
    <3> HIDE DEF s, q, r
    <3> QED  BY <3>1, <1>1, <1>5
  <2> HIDE DEF s, q, r
  <2>2. s \div L = q
    BY <1>1, <1>3, <1>4, <2>1
  <2> QED  BY <1>2, <1>5, <2>2 DEF q, r
<1>6. CASE r # 0
  <2>1. s = (L * (q + 1)) + (r - 1) /\ r - 1 \in 0 .. L - 1 /\ q + 1 \in Nat
    BY <1>1, <1>6
  <2> HIDE DEF s, q, r
  <2>2. s \div L = q + 1
    BY <1>3, <1>4, <2>1
  <2> QED  BY <1>2, <1>6, <2>2 DEF q, r
<1> QED  BY <1>5, <1>6

LEMMA Cut ==
  ASSUME NEW T \in Nat, NEW L \in Nat \ {0}, NEW p \in 0 .. CeilDiv(T, L) - 1
  PROVE  /\ p \in Nat /\ p * L \in Nat /\ p * L < T
         /\ (IF p = CeilDiv(T, L) - 1 /\ T % L # 0 THEN T % L ELSE L)
              = Least(p * L + L, T) - p * L
<1> DEFINE q == T \div L  r == T % L  N == CeilDiv(T, L)  s == p * L
<1>1. q \in Nat /\ r \in 0 .. L - 1 /\ T = (L * q) + r
  BY Division
<1>2. N = IF r = 0 THEN q ELSE q + 1
  BY Cuts
<1> HIDE DEF q, r, N
<1>3. p \in 0 .. N - 1
  BY DEF N
<1>4. p \in Nat /\ p <= N - 1
  BY <1>1, <1>2, <1>3
<1>5. s \in Nat
  BY <1>4
<1>6. Least(s + L, T) = IF s + L <= T THEN s + L ELSE T
  BY DEF Least
<1>7. CASE p < q
  <2>1. s + L <= T
    <3>1. (q - p - 1) * L >= 0
      BY <1>1, <1>4, <1>7
    <3>2. q * L = L * q
      BY <1>1
    <3>3. p * L + L <= q * L
      BY <3>1, <1>1, <1>4
    <3>4. q * L \in Nat /\ r \in Nat /\ T = q * L + r
      BY <3>2, <1>1
    <3> QED  BY <3>3, <3>4, <1>5
  <2>2. ~ (p = N - 1 /\ r # 0)
    BY <1>1, <1>2, <1>4, <1>7
  <2>3. Least(s + L, T) - s = L /\ s < T
    <3> HIDE DEF s
    <3> QED  BY <2>1, <1>5, <1>6
  <2> QED  BY <2>2, <2>3, <1>4, <1>5 DEF N, r
<1>8. CASE p = q /\ r # 0
  <2>1. T = s + r /\ r < L /\ 0 < r
    <3>1. p * L = L * q
      BY <1>1, <1>4, <1>8
    <3> QED  BY <3>1, <1>1, <1>8
  <2>2. p = N - 1
    BY <1>1, <1>2, <1>8
  <2>3. Least(s + L, T) - s = r /\ s < T
    <3> HIDE DEF s
    <3> QED  BY <2>1, <1>1, <1>5, <1>6
  <2> QED  BY <2>2, <2>3, <1>4, <1>5, <1>8 DEF N, r
<1> QED  BY <1>1, <1>2, <1>4, <1>7, <1>8

(* A piece is a stretch of the torrent that is not empty; the picker and the *)
(* resume code compute its length alike.                                     *)
LEMMA Pieces ==
  ASSUME lengths \in Seq(Nat), NEW p \in Piece
  PROVE  /\ p \in Nat /\ PieceStart(p) \in Nat /\ PieceEnd(p) \in Nat
         /\ PieceStart(p) < PieceEnd(p) /\ PieceEnd(p) <= TotalLength
         /\ ActualPieceLength(p) = PieceEnd(p) - PieceStart(p)
         /\ ActualPieceLength(p) \in Nat \ {0}
         /\ PieceLen(p) = ActualPieceLength(p)
<1>1. TotalLength \in Nat /\ PieceLength \in Nat \ {0}
  BY Files, PayloadAssumption
<1>2. p \in 0 .. CeilDiv(TotalLength, PieceLength) - 1
  BY DEF Piece, NumPieces
<1>3. /\ p \in Nat /\ p * PieceLength \in Nat /\ p * PieceLength < TotalLength
      /\ ActualPieceLength(p)
           = Least(p * PieceLength + PieceLength, TotalLength) - p * PieceLength
  BY <1>1, <1>2, Cut DEF ActualPieceLength, NumPieces
<1>4. PieceLen(p) = ActualPieceLength(p)
  <2>1. CeilDiv(TotalLength, PieceLength) \in Nat
    <3> DEFINE q == TotalLength \div PieceLength
    <3>1. q \in Nat
      BY <1>1, Division
    <3>2. CeilDiv(TotalLength, PieceLength) \in {q, q + 1}
      BY <1>1, Cuts
    <3> HIDE DEF q
    <3> QED  BY <3>1, <3>2
  <2>2. p + 1 = NumPieces <=> p = NumPieces - 1
    BY <1>3, <2>1 DEF NumPieces
  <2> QED  BY <2>2 DEF PieceLen, ActualPieceLength
<1>5. PieceStart(p) = p * PieceLength
  BY DEF PieceStart
<1>6. PieceEnd(p) = Least(PieceStart(p) + PieceLength, TotalLength)
  BY DEF PieceEnd
<1>7. /\ PieceStart(p) \in Nat /\ PieceStart(p) < TotalLength
      /\ ActualPieceLength(p) = PieceEnd(p) - PieceStart(p)
  BY <1>3, <1>5, <1>6
<1>8. PieceEnd(p) \in Nat /\ PieceStart(p) < PieceEnd(p) /\ PieceEnd(p) <= TotalLength
  BY <1>1, <1>6, <1>7 DEF Least
<1> QED  BY <1>3, <1>4, <1>7, <1>8

-----------------------------------------------------------------------------
(* The walk over the files.                                                  *)

Span == [file : File, offset : Nat, length : Nat, at : Nat]
Walker == [offset : Nat, remaining : Nat, at : Nat, spans : Seq(Span)]
Setout(p) ==
  [offset |-> PieceStart(p), remaining |-> PieceEnd(p) - PieceStart(p), at |-> 0,
   spans |-> <<>>]

LEMMA SpannedType ==
  ASSUME lengths \in Seq(Nat), NEW w \in Walker, NEW f \in File
  PROVE  Spanned(w, f) \in Walker
<1> DEFINE taken == Least(w.remaining, lengths[f] - (w.offset - Before(f)))
           s == [file |-> f, offset |-> w.offset - Before(f), length |-> taken, at |-> w.at]
<1>1. /\ w.offset \in Nat /\ w.remaining \in Nat /\ w.at \in Nat /\ w.spans \in Seq(Span)
      /\ lengths[f] \in Nat /\ Before(f) \in Nat
  BY Files DEF Walker
<1>2. CASE \/ w.remaining = 0 \/ w.offset >= Before(f) + lengths[f] \/ w.offset < Before(f)
  BY <1>2 DEF Spanned
<1>3. CASE ~ (\/ w.remaining = 0 \/ w.offset >= Before(f) + lengths[f]
              \/ w.offset < Before(f))
  <2>1. taken \in Nat /\ w.offset - Before(f) \in Nat /\ w.remaining - taken \in Nat
    <3> DEFINE d == lengths[f] - (w.offset - Before(f))
    <3>1. d \in Nat
      BY <1>1, <1>3
    <3>2. taken = IF w.remaining <= d THEN w.remaining ELSE d
      BY DEF Least
    <3> HIDE DEF taken, d
    <3> QED  BY <3>1, <3>2, <1>1, <1>3
  <2> HIDE DEF taken
  <2>2. s \in Span
    BY <1>1, <2>1 DEF Span
  <2> HIDE DEF s
  <2>3. Append(w.spans, s) \in Seq(Span)
    BY <1>1, <2>2
  <2>4. Spanned(w, f) = [offset |-> w.offset + taken, remaining |-> w.remaining - taken,
                         at |-> w.at + taken, spans |-> Append(w.spans, s)]
    BY <1>3 DEF Spanned, taken, s
  <2>5. w.offset + taken \in Nat /\ w.at + taken \in Nat
    <3>1. w.offset \in Nat /\ w.at \in Nat /\ taken \in Nat
      BY <1>1, <2>1
    <3> QED  BY ONLY <3>1
  <2>6. \A o, r, a \in Nat : \A ss \in Seq(Span) :
          [offset |-> o, remaining |-> r, at |-> a, spans |-> ss] \in Walker
    BY DEF Walker
  <2> DEFINE ss == Append(w.spans, s)  o == w.offset + taken  a == w.at + taken
             r == w.remaining - taken
  <2>7. /\ o \in Nat /\ r \in Nat /\ a \in Nat /\ ss \in Seq(Span)
        /\ Spanned(w, f) = [offset |-> o, remaining |-> r, at |-> a, spans |-> ss]
    BY <2>1, <2>3, <2>4, <2>5
  <2> HIDE DEF ss, o, a, r
  <2> QED  BY <2>6, <2>7
<1> QED  BY <1>2, <1>3

LEMMA Walks ==
  ASSUME lengths \in Seq(Nat), NEW p \in Piece
  PROVE  /\ Walk(p)[0] = Setout(p)
         /\ \A f \in 1 .. Len(lengths) : Walk(p)[f] = Spanned(Walk(p)[f - 1], f)
<1> DEFINE L == Len(lengths)
           step == [f \in 1 .. L |-> [w \in Walker |-> Spanned(w, f)]]
           Takes(g) == g = [f \in 0 .. L |-> IF f = 0 THEN Setout(p) ELSE Spanned(g[f - 1], f)]
<1>1. L \in Nat /\ File = 1 .. L
  BY Files
<1>2. Setout(p) \in Walker
  <2>1. <<>> \in Seq(Span)
    OBVIOUS
  <2>2. PieceEnd(p) - PieceStart(p) \in Nat
    BY Pieces
  <2> QED  BY <2>1, <2>2, Pieces DEF Setout, Walker
<1>3. \E g : Takes(g)
  <2>1. step \in [1 .. L -> [Walker -> Walker]]
    BY <1>1, SpannedType
  <2> HIDE DEF L, step
  <2>2. PICK g \in [0 .. L -> Walker] : Recurs(g, Setout(p), step, L)
    BY <1>1, <1>2, <2>1, Recursion
  <2>3. \A f \in 1 .. L : step[f][g[f - 1]] = Spanned(g[f - 1], f)
    <3> SUFFICES ASSUME NEW f \in 1 .. L  PROVE step[f][g[f - 1]] = Spanned(g[f - 1], f)
      OBVIOUS
    <3>1. g[f - 1] \in Walker
      BY <1>1
    <3>2. step[f] = [w \in Walker |-> Spanned(w, f)]
      BY DEF step
    <3> QED  BY <3>1, <3>2
  <2>4. \A f \in 0 .. L : (IF f = 0 THEN Setout(p) ELSE step[f][g[f - 1]])
                              = IF f = 0 THEN Setout(p) ELSE Spanned(g[f - 1], f)
    BY <1>1, <2>3
  <2>5. [f \in 0 .. L |-> IF f = 0 THEN Setout(p) ELSE step[f][g[f - 1]]]
          = [f \in 0 .. L |-> IF f = 0 THEN Setout(p) ELSE Spanned(g[f - 1], f)]
    BY <2>4, Zenon
  <2>6. Takes(g)
    BY <2>2, <2>5, Zenon DEF Recurs
  <2> HIDE DEF Takes
  <2> QED  BY <2>6
<1>4. Takes(Walk(p))
  <2>1. Walk(p) = CHOOSE g : Takes(g)
    BY Zenon DEF Walk, Setout
  <2> HIDE DEF Takes, L
  <2> QED  BY <1>3, <2>1, Zenon
<1> HIDE DEF L
<1>5. \A f \in 0 .. L : Walk(p)[f] = IF f = 0 THEN Setout(p) ELSE Spanned(Walk(p)[f - 1], f)
  BY <1>4, Zenon
<1> QED  BY <1>1, <1>5 DEF L

(* What a span says of the torrent: it names bytes of its file, and those    *)
(* are the bytes of the piece from `at` on.                                  *)
Placed(p, s) ==
  /\ s \in Span
  /\ Before(s.file) + s.offset = PieceStart(p) + s.at
  /\ 0 < s.length /\ s.offset + s.length <= lengths[s.file]
  /\ s.at + s.length <= ActualPieceLength(p)
Covers(s, i) == s.at <= i /\ i < s.at + s.length

(* After f files the walk has covered the piece up to `at`, and if there is  *)
(* more of it, it lies in later files.                                       *)
Covered(p, f, w) ==
  /\ w \in Walker
  /\ w.offset = PieceStart(p) + w.at /\ w.offset + w.remaining = PieceEnd(p)
  /\ w.remaining = 0 \/ Offset[f] <= w.offset
  /\ \A k \in 1 .. Len(w.spans) : Placed(p, w.spans[k])
  /\ \A i \in 0 .. w.at - 1 : \E k \in 1 .. Len(w.spans) : Covers(w.spans[k], i)

LEMMA SpannedCovers ==
  ASSUME lengths \in Seq(Nat), NEW p \in Piece, NEW f \in File, NEW w,
         Covered(p, f - 1, w)
  PROVE  Covered(p, f, Spanned(w, f))
<1> DEFINE d == lengths[f] - (w.offset - Before(f))
           taken == Least(w.remaining, d)
           s == [file |-> f, offset |-> w.offset - Before(f), length |-> taken, at |-> w.at]
           v == Spanned(w, f)
<1>1. /\ f \in Nat \ {0} /\ lengths[f] \in Nat /\ Before(f) \in Nat
      /\ Before(f) = Offset[f - 1] /\ Before(f) + lengths[f] = Offset[f]
  BY Files DEF Before
<1>2. /\ w.offset \in Nat /\ w.remaining \in Nat /\ w.at \in Nat /\ w.spans \in Seq(Span)
      /\ w.offset = PieceStart(p) + w.at /\ w.offset + w.remaining = PieceEnd(p)
      /\ w.remaining = 0 \/ Before(f) <= w.offset
  BY <1>1 DEF Covered, Walker
<1>3. v \in Walker
  BY SpannedType DEF Covered
<1>4. CASE w.remaining = 0
  <2>1. v = w
    BY <1>4 DEF Spanned
  <2> QED  BY <1>4, <2>1 DEF Covered
<1>5. CASE w.remaining # 0 /\ w.offset >= Before(f) + lengths[f]
  <2>1. v = w
    BY <1>5 DEF Spanned
  <2>2. Offset[f] <= w.offset
    BY <1>1, <1>2, <1>5
  <2> QED  BY <2>1, <2>2 DEF Covered
<1>6. CASE w.remaining # 0 /\ ~ (w.offset >= Before(f) + lengths[f])
  <2>1. /\ d \in Nat \ {0} /\ taken \in Nat \ {0} /\ taken <= d /\ taken <= w.remaining
        /\ taken = d \/ taken = w.remaining
        /\ Before(f) <= w.offset /\ d = Offset[f] - w.offset
    <3>1. d \in Nat \ {0} /\ Before(f) <= w.offset /\ d = Offset[f] - w.offset
      <4>1. /\ w.offset \in Nat /\ w.remaining \in Nat
            /\ Before(f) <= w.offset /\ ~ (w.offset >= Before(f) + lengths[f])
        BY <1>2, <1>6
      <4>2. Before(f) \in Nat /\ lengths[f] \in Nat /\ Before(f) + lengths[f] = Offset[f]
        BY <1>1
      <4> QED  BY ONLY <4>1, <4>2
    <3>2. taken = IF w.remaining <= d THEN w.remaining ELSE d
      BY DEF Least
    <3>3. w.remaining \in Nat \ {0}
      BY <1>2, <1>6
    <3> HIDE DEF taken, d
    <3> QED  BY ONLY <3>1, <3>2, <3>3
  <2>2. v = [offset |-> w.offset + taken, remaining |-> w.remaining - taken,
             at |-> w.at + taken, spans |-> Append(w.spans, s)]
    <3>1. ~ (w.offset < Before(f))
      BY <1>1, <1>2, <1>6
    <3> QED  BY <1>6, <3>1 DEF Spanned
  <2> HIDE DEF taken, v, d
  <2>a. /\ v.offset = w.offset + taken /\ v.remaining = w.remaining - taken
        /\ v.at = w.at + taken
    BY <2>2
  <2>b. PieceStart(p) \in Nat /\ PieceEnd(p) \in Nat /\ Offset[f] \in Nat
    <3>1. PieceStart(p) \in Nat /\ PieceEnd(p) \in Nat
      BY Pieces
    <3> QED  BY <1>1, <3>1
  <2>c. /\ taken \in Nat /\ taken <= w.remaining /\ taken <= d
        /\ taken = d \/ taken = w.remaining
    BY <2>1
  <2>d. w.offset \in Nat /\ w.at \in Nat /\ w.remaining \in Nat
    BY <1>2
  <2>e. w.offset = PieceStart(p) + w.at /\ w.offset + w.remaining = PieceEnd(p)
    BY <1>2
  <2>3. v.offset = PieceStart(p) + v.at /\ v.offset + v.remaining = PieceEnd(p)
    BY ONLY <2>a, <2>b, <2>c, <2>d, <2>e
  <2>f. d = Offset[f] - w.offset /\ Before(f) <= w.offset
    BY <2>1
  <2>g. Before(f) \in Nat /\ lengths[f] \in Nat /\ Before(f) + lengths[f] = Offset[f]
    BY <1>1
  <2>4. v.remaining = 0 \/ Offset[f] <= v.offset
    BY ONLY <2>a, <2>b, <2>c, <2>d, <2>f
  <2>5. Placed(p, s)
    <3>1. s \in Span
      <4>1. w.offset - Before(f) \in Nat
        BY ONLY <2>d, <2>f, <2>g
      <4> QED  BY <4>1, <2>c, <2>d DEF Span
    <3>2. /\ Before(f) + (w.offset - Before(f)) = PieceStart(p) + w.at
          /\ (w.offset - Before(f)) + taken <= lengths[f]
      BY ONLY <2>b, <2>c, <2>d, <2>e, <2>f, <2>g
    <3>3. w.at + taken <= ActualPieceLength(p)
      <4>1. ActualPieceLength(p) = PieceEnd(p) - PieceStart(p)
        BY Pieces
      <4> QED  BY ONLY <4>1, <2>b, <2>c, <2>d, <2>e
    <3> QED  BY <3>1, <3>2, <3>3, <2>1 DEF Placed
  <2> HIDE DEF s
  <2>6. /\ v.spans = Append(w.spans, s) /\ Len(v.spans) = Len(w.spans) + 1
        /\ Len(w.spans) \in Nat
        /\ v.spans[Len(w.spans) + 1] = s
        /\ \A k \in 1 .. Len(w.spans) : v.spans[k] = w.spans[k]
    <3>1. s \in Span
      BY <2>5 DEF Placed
    <3> QED  BY <2>2, <3>1, <1>2
  <2>7. \A k \in 1 .. Len(v.spans) : Placed(p, v.spans[k])
    BY <2>5, <2>6 DEF Covered
  <2>8. ASSUME NEW i \in 0 .. v.at - 1
        PROVE  \E k \in 1 .. Len(v.spans) : Covers(v.spans[k], i)
    <3>1. CASE i < w.at
      <4>1. i \in 0 .. w.at - 1
        BY <1>2, <2>1, <2>2, <3>1
      <4>2. PICK k \in 1 .. Len(w.spans) : Covers(w.spans[k], i)
        BY <4>1 DEF Covered
      <4>3. k \in 1 .. Len(v.spans) /\ v.spans[k] = w.spans[k]
        BY <2>6
      <4> QED  BY <4>2, <4>3
    <3>2. CASE ~ (i < w.at)
      <4>1. Covers(s, i)
        BY <1>2, <2>1, <2>a, <3>2 DEF s, Covers
      <4>2. Len(w.spans) + 1 \in 1 .. Len(v.spans)
        BY <2>6
      <4> QED  BY <4>1, <4>2, <2>6
    <3> QED  BY <3>1, <3>2
  <2> QED  BY <1>3, <2>3, <2>4, <2>7, <2>8 DEF Covered, v
<1> QED  BY <1>4, <1>5, <1>6

(* The spans of a piece are its bytes, all of them.                          *)
LEMMA Spans ==
  ASSUME lengths \in Seq(Nat), NEW p \in Piece
  PROVE  /\ PieceSpans(p) \in Seq(Span) /\ PieceSpans(p) # <<>>
         /\ \A k \in 1 .. Len(PieceSpans(p)) : Placed(p, PieceSpans(p)[k])
         /\ \A i \in 0 .. ActualPieceLength(p) - 1 :
              \E k \in 1 .. Len(PieceSpans(p)) : Covers(PieceSpans(p)[k], i)
<1> DEFINE L == Len(lengths)  w == Walk(p)[L]
           T == {f \in Nat : f <= L => Covered(p, f, Walk(p)[f])}
<1>1. L \in Nat /\ File = 1 .. L
  BY Files
<1>2. 0 \in T
  <2>1. Setout(p) \in Walker
    <3>1. <<>> \in Seq(Span)
      OBVIOUS
    <3>2. PieceEnd(p) - PieceStart(p) \in Nat
      BY Pieces
    <3> QED  BY <3>1, <3>2, Pieces DEF Setout, Walker
  <2>2. Covered(p, 0, Setout(p))
    <3>1. Offset[0] = 0 /\ Len(<<>>) = 0
      BY Offsets
    <3>2. /\ Setout(p).offset = PieceStart(p) /\ Setout(p).at = 0
          /\ Setout(p).remaining = PieceEnd(p) - PieceStart(p) /\ Setout(p).spans = <<>>
      BY DEF Setout
    <3> HIDE DEF Setout
    <3> QED  BY <2>1, <3>1, <3>2, Pieces DEF Covered
  <2> QED  BY <2>2, Walks
<1>3. ASSUME NEW f \in T  PROVE f + 1 \in T
  <2> SUFFICES ASSUME f + 1 <= L  PROVE Covered(p, f + 1, Walk(p)[f + 1])
    OBVIOUS
  <2>1. f + 1 \in File /\ f + 1 - 1 = f /\ Covered(p, f, Walk(p)[f])
    BY <1>1
  <2>2. Walk(p)[f + 1] = Spanned(Walk(p)[f], f + 1)
    BY <1>1, <2>1, Walks
  <2> QED  BY <2>1, <2>2, SpannedCovers
<1>4. T \in SUBSET Nat
  OBVIOUS
<1> HIDE DEF T
<1>5. T = Nat
  BY <1>2, <1>3, <1>4, Induction
<1>6. Covered(p, L, w)
  <2>1. L \in T
    BY <1>1, <1>5
  <2> QED  BY <1>1, <2>1 DEF T
<1> HIDE DEF w
<1>7. w.at = ActualPieceLength(p)
  <2>1. /\ w.offset \in Nat /\ w.remaining \in Nat /\ w.at \in Nat
        /\ w.offset = PieceStart(p) + w.at /\ w.offset + w.remaining = PieceEnd(p)
        /\ w.remaining = 0 \/ TotalLength <= w.offset
    BY <1>6 DEF Covered, Walker, TotalLength
  <2>2. TotalLength \in Nat
    BY Files
  <2>3. /\ PieceEnd(p) <= TotalLength /\ PieceEnd(p) \in Nat /\ PieceStart(p) \in Nat
        /\ ActualPieceLength(p) = PieceEnd(p) - PieceStart(p)
    BY Pieces
  <2> QED  BY ONLY <2>1, <2>2, <2>3
<1>8. PieceSpans(p) = w.spans
  BY DEF PieceSpans, w
<1>9. w.spans # <<>>
  <2>1. 0 \in 0 .. w.at - 1
    BY <1>7, Pieces
  <2>2. PICK k \in 1 .. Len(w.spans) : TRUE
    BY <2>1, <1>6 DEF Covered
  <2> QED  BY <2>2
<1> QED  BY <1>6, <1>7, <1>8, <1>9 DEF Covered, Walker

-----------------------------------------------------------------------------
(* The disk.                                                                 *)

Bytes(disk) ==
  /\ disk = [f \in File |-> disk[f]]
  /\ \A f \in File : \E c \in Nat : disk[f] \in [0 .. c - 1 -> Int]

(* The byte at position n of the torrent is in its place.                    *)
Here(n, there, disk) ==
  \E f \in there : /\ n - Before(f) \in DOMAIN disk[f] /\ n - Before(f) < lengths[f]
                   /\ disk[f][n - Before(f)] = Before(f) + (n - Before(f))
Whole(p, there, disk) ==
  \A n \in PieceStart(p) .. PieceEnd(p) - 1 : Here(n, there, disk)

(* The layout of a torrent does not change, nor what is told from it.         *)
LEMMA LayoutStays ==
  ASSUME lengths' = lengths
  PROVE  /\ Offset' = Offset /\ File' = File /\ Piece' = Piece
         /\ TotalLength' = TotalLength
         /\ \A f : Before(f)' = Before(f)
         /\ \A p : /\ PieceEnd(p)' = PieceEnd(p) /\ Truth(p)' = Truth(p)
                   /\ ActualPieceLength(p)' = ActualPieceLength(p)
         /\ \A p, s : Placed(p, s)' = Placed(p, s)
         /\ Span' = Span
         /\ \A disk : Bytes(disk)' = Bytes(disk)
         /\ \A n, there, disk : Here(n, there, disk)' = Here(n, there, disk)
         /\ \A p, there, disk : Whole(p, there, disk)' = Whole(p, there, disk)
<1>1. Offset' = Offset
  BY Zenon DEF Offset
<1>2. TotalLength' = TotalLength /\ File' = File /\ \A f : Before(f)' = Before(f)
  BY <1>1 DEF TotalLength, File, Before
<1>3. NumPieces' = NumPieces /\ Piece' = Piece
  BY <1>2 DEF NumPieces, Piece
<1>4. \A p : PieceEnd(p)' = PieceEnd(p) /\ ActualPieceLength(p)' = ActualPieceLength(p)
  BY <1>2, <1>3 DEF PieceEnd, ActualPieceLength
<1>5. \A p : Truth(p)' = Truth(p)
  BY <1>4, Zenon DEF Truth
<1>6. Span' = Span /\ \A p, s : Placed(p, s)' = Placed(p, s)
  BY <1>2, <1>4, Zenon DEF Placed, Span
<1>7. \A disk : Bytes(disk)' = Bytes(disk)
  BY <1>2, Zenon DEF Bytes
<1>8. \A n, there, disk : Here(n, there, disk)' = Here(n, there, disk)
  BY <1>2, Zenon DEF Here
<1>9. \A p, there, disk : Whole(p, there, disk)' = Whole(p, there, disk)
  BY <1>4, <1>8, Zenon DEF Whole
<1> QED  BY <1>1, <1>2, <1>3, <1>4, <1>5, <1>6, <1>7, <1>8, <1>9

LEMMA Size ==
  ASSUME NEW b, NEW c \in Nat, b \in [0 .. c - 1 -> Int]
  PROVE  DOMAIN b = 0 .. c - 1 /\ Cardinality(DOMAIN b) = c
BY FS_Interval

LEMMA Truths ==
  ASSUME lengths \in Seq(Nat), NEW p \in Piece
  PROVE  /\ Truth(p) \in [0 .. ActualPieceLength(p) - 1 -> Int]
         /\ \A i \in 0 .. ActualPieceLength(p) - 1 : Truth(p)[i] = PieceStart(p) + i
BY Pieces DEF Truth

(* Where byte i of a piece lies, seen from the span that covers it.           *)
LEMMA Arithmetic ==
  \A b, o, s, a, i, l, len, m \in Nat :
    (b + o = s + a /\ a <= i /\ i < a + l /\ o + l <= len /\ a + l <= m) =>
      /\ (s + i) - b = o + i - a /\ s + i \in Nat
      /\ o + i - a \in o .. o + l - 1 /\ o + i - a < len
      /\ b <= s + i /\ s + i < b + len /\ s + i = b + ((s + i) - b)
      /\ i \in 0 .. m - 1 /\ s + i \in s .. (s + m) - 1
OBVIOUS

LEMMA Position ==
  ASSUME lengths \in Seq(Nat), NEW p \in Piece, NEW g, Placed(p, g),
         NEW i \in Nat, Covers(g, i), NEW n, n = PieceStart(p) + i
  PROVE  /\ n \in Nat /\ n \in PieceStart(p) .. PieceEnd(p) - 1
         /\ In(n, g.file) /\ g.file \in File
         /\ i \in 0 .. ActualPieceLength(p) - 1
         /\ n - Before(g.file) = g.offset + i - g.at
         /\ n - Before(g.file) \in g.offset .. g.offset + g.length - 1
         /\ n - Before(g.file) < lengths[g.file]
         /\ n = Before(g.file) + (n - Before(g.file))
<1>1. /\ g.file \in File /\ g.offset \in Nat /\ g.length \in Nat /\ g.at \in Nat
      /\ Before(g.file) + g.offset = PieceStart(p) + g.at
      /\ g.offset + g.length <= lengths[g.file] /\ g.at <= i /\ i < g.at + g.length
      /\ g.at + g.length <= ActualPieceLength(p)
  BY DEF Placed, Span, Covers
<1>2. Before(g.file) \in Nat /\ lengths[g.file] \in Nat
  BY <1>1, Files
<1>3. /\ PieceStart(p) \in Nat /\ ActualPieceLength(p) \in Nat
      /\ PieceStart(p) + ActualPieceLength(p) = PieceEnd(p)
  BY Pieces
<1>4. /\ n - Before(g.file) = g.offset + i - g.at /\ n \in Nat
      /\ g.offset + i - g.at \in g.offset .. g.offset + g.length - 1
      /\ g.offset + i - g.at < lengths[g.file]
      /\ Before(g.file) <= n /\ n < Before(g.file) + lengths[g.file]
      /\ n = Before(g.file) + (n - Before(g.file))
      /\ i \in 0 .. ActualPieceLength(p) - 1
      /\ n \in PieceStart(p) .. (PieceStart(p) + ActualPieceLength(p)) - 1
  BY ONLY <1>1, <1>2, <1>3, Arithmetic, i \in Nat, n = PieceStart(p) + i
<1> QED  BY <1>1, <1>3, <1>4 DEF In

(* A piece passes the check on disk exactly if all its bytes are in place.   *)
LEMMA ReadBack ==
  ASSUME lengths \in Seq(Nat), NEW p \in Piece, NEW there \in SUBSET File, NEW disk,
         Bytes(disk)
  PROVE  (Readable(p, there, disk) /\ Verify(p, ReadPiece(p, PieceLen(p), disk)))
           <=> Whole(p, there, disk)
<1> DEFINE spans == PieceSpans(p)
           len == ActualPieceLength(p)
           hit(i) == CHOOSE k \in DOMAIN spans : i \in spans[k].at .. spans[k].at + spans[k].length - 1
           s(i) == spans[hit(i)]
           read == ReadPiece(p, PieceLen(p), disk)
<1>1. /\ PieceStart(p) \in Nat /\ PieceEnd(p) \in Nat /\ len \in Nat
      /\ len = PieceEnd(p) - PieceStart(p) /\ PieceLen(p) = len
  BY Pieces
<1>2. /\ DOMAIN spans = 1 .. Len(spans)
      /\ \A k \in DOMAIN spans : Placed(p, spans[k])
  BY Spans
<1>3. ASSUME NEW i \in 0 .. len - 1
      PROVE  /\ hit(i) \in DOMAIN spans /\ Placed(p, s(i)) /\ Covers(s(i), i)
             /\ read[i] = disk[s(i).file][s(i).offset + i - s(i).at]
  <2>1. PICK k \in DOMAIN spans : Covers(spans[k], i)
    BY <1>2, Spans
  <2>2. i \in spans[k].at .. spans[k].at + spans[k].length - 1
    BY <1>1, <1>2, <2>1 DEF Covers, Placed, Span
  <2>3. /\ hit(i) \in DOMAIN spans
        /\ i \in s(i).at .. s(i).at + s(i).length - 1
    BY <2>2
  <2>4. Placed(p, s(i))
    BY <1>2, <2>3
  <2>5. Covers(s(i), i)
    <3>1. s(i).at \in Nat /\ s(i).length \in Nat
      BY <2>4 DEF Placed, Span
    <3> HIDE DEF s
    <3> QED  BY <2>3, <3>1 DEF Covers
  <2>6. read[i] = disk[s(i).file][s(i).offset + i - s(i).at]
    <3>1. \A j \in 0 .. PieceLen(p) - 1 :
            read[j] = IF \E h \in DOMAIN spans :
                           j \in spans[h].at .. spans[h].at + spans[h].length - 1
                      THEN disk[s(j).file][s(j).offset + j - s(j).at] ELSE Zero
      BY Zenon DEF ReadPiece
    <3> HIDE DEF read, s, hit, spans, len
    <3> QED  BY <1>1, <2>2, <3>1
  <2> QED  BY <2>3, <2>4, <2>5, <2>6
<1>4. DOMAIN read = 0 .. len - 1
  BY <1>1 DEF ReadPiece
<1> HIDE DEF read, s, hit, spans, len
<1>5. \A f \in File : \E c \in Nat : /\ DOMAIN disk[f] = 0 .. c - 1
                                      /\ Cardinality(DOMAIN disk[f]) = c
  BY Size DEF Bytes
<1>6. ASSUME Readable(p, there, disk), Verify(p, read)  PROVE Whole(p, there, disk)
  <2> SUFFICES ASSUME NEW n \in PieceStart(p) .. PieceEnd(p) - 1
               PROVE  Here(n, there, disk)
    BY DEF Whole
  <2> DEFINE i == n - PieceStart(p)
  <2>1. i \in 0 .. len - 1 /\ n = PieceStart(p) + i /\ i \in Int /\ n \in Nat
    BY <1>1
  <2> HIDE DEF i
  <2>2. /\ hit(i) \in DOMAIN spans /\ Placed(p, s(i)) /\ Covers(s(i), i)
        /\ read[i] = disk[s(i).file][s(i).offset + i - s(i).at]
    BY <1>3, <2>1
  <2> DEFINE g == s(i)  x == g.offset + i - g.at
  <2>3. /\ g.file \in File /\ n - Before(g.file) = x
        /\ x \in g.offset .. g.offset + g.length - 1 /\ x < lengths[g.file]
        /\ n = Before(g.file) + (n - Before(g.file))
    <3>1. Placed(p, g) /\ Covers(g, i) /\ i \in Nat
      BY <2>1, <2>2, <1>1
    <3> HIDE DEF g, x
    <3>2. /\ g.file \in File /\ n - Before(g.file) = g.offset + i - g.at
          /\ n - Before(g.file) \in g.offset .. g.offset + g.length - 1
          /\ n - Before(g.file) < lengths[g.file]
          /\ n = Before(g.file) + (n - Before(g.file))
      BY <2>1, <3>1, Position
    <3>3. g.offset + i - g.at = x
      BY DEF x
    <3> QED  BY <3>2, <3>3
  <2>5. g.file \in there /\ g.offset + g.length <= Cardinality(DOMAIN disk[g.file])
    BY <1>6, <2>2 DEF Readable, spans, s
  <2>6. PICK c \in Nat : DOMAIN disk[g.file] = 0 .. c - 1 /\ Cardinality(DOMAIN disk[g.file]) = c
    BY <1>5, <2>3
  <2>7. read[i] = n
    BY <1>6, <2>1, Truths DEF Verify, len
  <2>8. x \in DOMAIN disk[g.file]
    <3>1. g.offset \in Nat /\ g.length \in Nat
      BY <2>2 DEF Placed, Span
    <3> HIDE DEF g, x
    <3> QED  BY <2>3, <2>5, <2>6, <3>1
  <2>9. disk[g.file][x] = n
    BY <2>2, <2>7 DEF g
  <2> HIDE DEF x, g
  <2> QED  BY <2>3, <2>5, <2>8, <2>9 DEF Here
<1>7. ASSUME Whole(p, there, disk)  PROVE Readable(p, there, disk) /\ Verify(p, read)
  <2>1. ASSUME NEW n \in Nat, Here(n, there, disk), NEW f \in File, In(n, f)
        PROVE  /\ f \in there /\ n - Before(f) \in DOMAIN disk[f]
               /\ disk[f][n - Before(f)] = n
    <3>1. PICK h \in there : /\ n - Before(h) \in DOMAIN disk[h]
                             /\ n - Before(h) < lengths[h]
                             /\ disk[h][n - Before(h)] = Before(h) + (n - Before(h))
      BY <2>1 DEF Here
    <3>2. PICK c \in Nat : DOMAIN disk[h] = 0 .. c - 1
      BY <1>5
    <3>3. Before(h) \in Nat /\ lengths[h] \in Nat
      BY Files
    <3>4. In(n, h) /\ n = Before(h) + (n - Before(h))
      BY <3>1, <3>2, <3>3 DEF In
    <3>5. h = f
      BY <2>1, <3>4, OneFile
    <3> QED  BY <3>1, <3>4, <3>5
  <2>2. ASSUME NEW g, Placed(p, g), NEW i \in Nat, Covers(g, i)
        PROVE  LET n == PieceStart(p) + i
               IN  /\ n \in Nat /\ Here(n, there, disk) /\ In(n, g.file)
                   /\ i \in 0 .. len - 1 /\ n - Before(g.file) = g.offset + i - g.at
                   /\ g.file \in File
    <3> DEFINE n == PieceStart(p) + i
    <3>1. n = PieceStart(p) + i
      OBVIOUS
    <3> HIDE DEF n
    <3>2. /\ n \in Nat /\ n \in PieceStart(p) .. PieceEnd(p) - 1 /\ In(n, g.file)
          /\ g.file \in File /\ i \in 0 .. len - 1
          /\ n - Before(g.file) = g.offset + i - g.at
      BY <2>2, <3>1, Position DEF len
    <3> QED  BY <1>7, <3>2 DEF Whole, n
  <2>3. Readable(p, there, disk)
    <3> SUFFICES ASSUME NEW k \in DOMAIN spans
                 PROVE  LET g == spans[k]
                        IN  g.file \in there /\ g.offset + g.length <= Cardinality(DOMAIN disk[g.file])
      BY DEF Readable, spans
    <3> DEFINE g == spans[k]  i == g.at + g.length - 1
    <3>1. Placed(p, g)
      BY <1>2
    <3> HIDE DEF g
    <3>2. g.offset \in Nat /\ g.at \in Nat /\ g.length \in Nat \ {0} /\ g.file \in File
      BY <3>1 DEF Placed, Span
    <3>3. i \in Nat /\ Covers(g, i) /\ g.offset + i - g.at = g.offset + g.length - 1
      BY <3>2 DEF Covers
    <3> HIDE DEF i
    <3>4. g.file \in there /\ g.offset + g.length - 1 \in DOMAIN disk[g.file]
      BY <2>1, <2>2, <3>1, <3>3
    <3>5. PICK c \in Nat : DOMAIN disk[g.file] = 0 .. c - 1 /\ Cardinality(DOMAIN disk[g.file]) = c
      BY <1>5, <3>2
    <3>6. g.offset + g.length <= c
      BY <3>2, <3>4, <3>5
    <3> QED  BY <3>4, <3>5, <3>6 DEF g
  <2>4. \A i \in 0 .. len - 1 : read[i] = Truth(p)[i]
    <3> SUFFICES ASSUME NEW i \in 0 .. len - 1  PROVE read[i] = Truth(p)[i]
      OBVIOUS
    <3>1. /\ Placed(p, s(i)) /\ Covers(s(i), i)
          /\ read[i] = disk[s(i).file][s(i).offset + i - s(i).at]
      BY <1>3
    <3>2. disk[s(i).file][s(i).offset + i - s(i).at] = PieceStart(p) + i
      BY <2>1, <2>2, <3>1
    <3>3. Truth(p)[i] = PieceStart(p) + i
      BY Truths DEF len
    <3> QED  BY <3>1, <3>2, <3>3
  <2>5. read = Truth(p)
    <3>1. read = [i \in 0 .. len - 1 |-> read[i]]
      BY <1>1 DEF read, ReadPiece
    <3>2. Truth(p) = [i \in 0 .. len - 1 |-> Truth(p)[i]]
      BY Truths DEF len
    <3> QED  BY <2>4, <3>1, <3>2
  <2> QED  BY <2>3, <2>5 DEF Verify
<1> QED  BY <1>6, <1>7 DEF read

-----------------------------------------------------------------------------
(* The inductive invariant.                                                  *)

LayoutFits ==
  lengths \in Seq(Nat) /\ piece \in Piece /\ BlocksOf(piece) = NumBlocks

(* The buffer of the followed piece holds true bytes wherever a block has     *)
(* been received, unless a wrong one was.                                    *)
Stretch(b) == b * BLOCK_SIZE .. b * BLOCK_SIZE + BlockLength(b) - 1
FetchFits ==
  /\ following \in BOOLEAN /\ sound \in BOOLEAN
  /\ following =>
       /\ received_count < NumBlocks
       /\ data \in [0 .. ActualPieceLength(piece) - 1 -> Int]
       /\ sound => \A b \in Block : blocks_received[b] =>
                     \A i \in Stretch(b) : data[i] = Truth(piece)[i]

DiskFits ==
  /\ have \subseteq Piece
  /\ present \subseteq File
  /\ Bytes(files)
  /\ \A f \in File \ present : DOMAIN files[f] = {}
  /\ ~ up => have = {} /\ queue = {} /\ writing = Idle

(* A write under way is of true bytes, and has put in place every byte that   *)
(* the spans it still has to write do not cover.                              *)
WriteFits(w, there, disk) ==
  /\ w.piece \in Piece
  /\ w = [piece |-> w.piece, bytes |-> Truth(w.piece), rest |-> w.rest]
  /\ w.rest \in Seq(Span) /\ w.rest # <<>>
  /\ \A k \in 1 .. Len(w.rest) : Placed(w.piece, w.rest[k])
  /\ \A i \in 0 .. ActualPieceLength(w.piece) - 1 :
       \/ \E k \in 1 .. Len(w.rest) : Covers(w.rest[k], i)
       \/ Here(PieceStart(w.piece) + i, there, disk)

WritesFit ==
  /\ \A w \in queue : w.piece \in Piece /\ w.bytes = Truth(w.piece)
  /\ writing # Idle => WriteFits(writing, present, files)

PayloadInv ==
  /\ IInv /\ LayoutFits /\ FetchFits /\ DiskFits /\ WritesFit /\ DoneIsOnDisk

-----------------------------------------------------------------------------
(* The blocks of the followed piece.                                         *)

(* A block lies in its piece, and every byte of the piece in a block.         *)
LEMMA Blocks ==
  ASSUME LayoutFits, NEW b \in Block
  PROVE  /\ b * BLOCK_SIZE \in Nat /\ BlockLength(b) \in Nat
         /\ b * BLOCK_SIZE < ActualPieceLength(piece)
         /\ b * BLOCK_SIZE + BlockLength(b)
              = Least(b * BLOCK_SIZE + BLOCK_SIZE, ActualPieceLength(piece))
         /\ b * BLOCK_SIZE + BlockLength(b) <= ActualPieceLength(piece)
<1> DEFINE T == ActualPieceLength(piece)  s == b * BLOCK_SIZE  l == BlockLength(b)
<1>1. T \in Nat /\ BLOCK_SIZE \in Nat \ {0}
  BY Pieces, PayloadAssumption DEF LayoutFits
<1>2. NumBlocks = CeilDiv(T, BLOCK_SIZE)
  BY DEF LayoutFits, BlocksOf
<1>3. b \in 0 .. CeilDiv(T, BLOCK_SIZE) - 1
  BY <1>2 DEF Block
<1>4. /\ s \in Nat /\ s < T
      /\ l = Least(s + BLOCK_SIZE, T) - s
  <2>1. l = IF b = CeilDiv(T, BLOCK_SIZE) - 1 /\ T % BLOCK_SIZE # 0
            THEN T % BLOCK_SIZE ELSE BLOCK_SIZE
    BY <1>2, Zenon DEF BlockLength
  <2> HIDE DEF l, T
  <2> QED  BY <1>1, <1>3, <2>1, Cut
<1>5. Least(s + BLOCK_SIZE, T) = IF s + BLOCK_SIZE <= T THEN s + BLOCK_SIZE ELSE T
  BY DEF Least
<1> HIDE DEF s, l, T
<1>6. l \in Nat /\ s + l = Least(s + BLOCK_SIZE, T) /\ s + l <= T
  BY <1>1, <1>4, <1>5
<1> QED  BY <1>4, <1>6 DEF s, l, T

LEMMA BlocksTile ==
  ASSUME LayoutFits, NEW i \in 0 .. ActualPieceLength(piece) - 1
  PROVE  \E b \in Block : i \in Stretch(b)
<1> DEFINE T == ActualPieceLength(piece)  L == BLOCK_SIZE  b == i \div L
           q == T \div L  r == T % L
<1>1. T \in Nat /\ L \in Nat \ {0}
  BY Pieces, PayloadAssumption DEF LayoutFits
<1>2. b \in Nat /\ i % L \in 0 .. L - 1 /\ i = (L * b) + (i % L)
  <2>1. i \in Nat
    BY <1>1
  <2> QED  BY <1>1, <2>1, Division
<1>3. q \in Nat /\ r \in 0 .. L - 1 /\ T = (L * q) + r
  BY <1>1, Division
<1>4. NumBlocks = IF r = 0 THEN q ELSE q + 1
  BY <1>1, Cuts DEF LayoutFits, BlocksOf
<1>5. i < T /\ i \in Nat
  BY <1>1
<1>6. b \in Block
  <2> DEFINE e == i % L
  <2> HIDE DEF b, q, r, T, L, e
  <2>1. e \in Nat /\ (L * b) + e = i /\ i < (L * q) + r /\ r < L /\ r \in Nat
    BY <1>2, <1>3, <1>5, <1>1 DEF e
  <2>2. L * b < (L * q) + r
    BY <2>1, <1>1, <1>2, <1>3
  <2>3. CASE b <= q - 1
    BY <2>3, <1>1, <1>2, <1>3, <1>4 DEF Block
  <2>4. CASE b >= q
    <3>1. L * (b - q) >= 0 /\ L * (b - q) = (L * b) - (L * q)
      BY <2>4, <1>1, <1>2, <1>3
    <3>2. L * (b - q) < r
      BY <3>1, <2>2, <1>1, <1>2, <1>3
    <3>3. b = q
      <4> SUFFICES ASSUME b - q >= 1  PROVE FALSE
        BY <2>4, <1>2, <1>3
      <4>1. L * (b - q) >= L
        BY <1>1, <1>2, <1>3
      <4> QED  BY <4>1, <3>2, <2>1, <1>1, <1>2, <1>3
    <3>4. r # 0
      BY <3>1, <3>2, <3>3, <1>1, <1>2, <1>3
    <3> QED  BY <3>3, <3>4, <1>2, <1>4 DEF Block
  <2> QED  BY <2>3, <2>4, <1>2, <1>3
<1>7. /\ b * L \in Nat /\ BlockLength(b) \in Nat
      /\ b * L + BlockLength(b) = Least(b * L + L, T)
  BY <1>6, Blocks
<1>8. i \in Stretch(b)
  <2> DEFINE e == i % L  s == b * L  l == BlockLength(b)
  <2>1. e \in Nat /\ e < L /\ i = s + e
    BY <1>1, <1>2
  <2>2. s + l = IF s + L <= T THEN s + L ELSE T
    BY <1>7 DEF Least
  <2>3. s \in Nat /\ l \in Nat
    BY <1>7
  <2> HIDE DEF e, s, l, T, L, b
  <2>4. s <= i /\ i <= s + l - 1
    BY <2>1, <2>2, <2>3, <1>1, <1>5
  <2> QED  BY <2>3, <2>4, <1>5 DEF Stretch, s, l, L
<1> QED  BY <1>6, <1>8

(* What the right blocks are.                                                *)
LEMMA WhatArrives ==
  ASSUME LayoutFits, NEW block \in GoodBlocks \cup WrongBlocks
  PROVE  /\ block.offset \div BLOCK_SIZE \in Index /\ block.right \in BOOLEAN
         /\ block.right =>
              /\ block.offset \div BLOCK_SIZE \in Block
              /\ block.offset .. (block.offset + block.length) - 1
                   = Stretch(block.offset \div BLOCK_SIZE)
              /\ block.offset + block.length <= ActualPieceLength(piece)
<1>1. CASE block \in GoodBlocks
  <2>1. PICK b \in Block : block = [offset |-> b * BLOCK_SIZE,
                                    length |-> BlockLength(b), right |-> TRUE]
    BY <1>1 DEF GoodBlocks
  <2>2. b \in Nat /\ BLOCK_SIZE \in Nat \ {0}
    BY NumBlocksAssumption, PayloadAssumption DEF Block
  <2>3. (b * BLOCK_SIZE) \div BLOCK_SIZE = b
    <3> DEFINE s == b * BLOCK_SIZE  q == s \div BLOCK_SIZE  r == s % BLOCK_SIZE
    <3>1. s \in Nat
      BY <2>2
    <3>2. q \in Nat /\ r \in 0 .. BLOCK_SIZE - 1 /\ s = (BLOCK_SIZE * q) + r
      BY <2>2, <3>1, Division
    <3>3. s = (BLOCK_SIZE * b) + 0 /\ 0 \in 0 .. BLOCK_SIZE - 1
      BY <2>2
    <3>4. \A a, c \in Nat : \A d, e \in 0 .. BLOCK_SIZE - 1 :
            (BLOCK_SIZE * a) + d = (BLOCK_SIZE * c) + e => a = c
      BY <2>2
    <3> HIDE DEF s, q, r
    <3>5. q = b
      BY <2>2, <3>2, <3>3, <3>4
    <3> QED  BY <3>5 DEF q, s
  <2>4. block.offset = b * BLOCK_SIZE /\ block.length = BlockLength(b) /\ block.right = TRUE
    BY <2>1
  <2>5. block.offset \div BLOCK_SIZE = b
    BY <2>3, <2>4
  <2>6. block.offset .. (block.offset + block.length) - 1 = Stretch(b)
    <3> DEFINE s == b * BLOCK_SIZE  l == BlockLength(b)
    <3>1. s \in Nat /\ l \in Nat
      BY Blocks
    <3>2. block.offset = s /\ block.length = l
      BY <2>4
    <3> HIDE DEF s, l
    <3>3. (block.offset + block.length) - 1 = s + l - 1
      BY <3>1, <3>2
    <3> QED  BY <3>2, <3>3 DEF Stretch, s, l
  <2>7. block.offset + block.length <= ActualPieceLength(piece)
    BY <2>4, Blocks
  <2> QED  BY <2>4, <2>5, <2>6, <2>7, PayloadAssumption
<1>2. CASE block \in WrongBlocks
  <2>1. PICK b \in BadBlocks : block = [offset |-> b[1], length |-> b[2], right |-> FALSE]
    BY <1>2 DEF WrongBlocks
  <2> QED  BY <2>1, PayloadAssumption
<1> QED  BY <1>1, <1>2

(* What copying a block into the buffer does to it.                          *)
LEMMA CopiedFits ==
  ASSUME LayoutFits, NEW block \in GoodBlocks \cup WrongBlocks, NEW fresh \in BOOLEAN,
         data \in [0 .. ActualPieceLength(piece) - 1 -> Int]
  PROVE  /\ Copied(block, fresh) \in [0 .. ActualPieceLength(piece) - 1 -> Int]
         /\ ~ fresh => Copied(block, fresh) = data
         /\ fresh /\ block.right =>
              \A i \in 0 .. ActualPieceLength(piece) - 1 :
                Copied(block, fresh)[i] = IF i \in Stretch(block.offset \div BLOCK_SIZE)
                                          THEN Truth(piece)[i] ELSE data[i]
<1> DEFINE T == ActualPieceLength(piece)
           end == block.offset + block.length
           turned == [i \in DOMAIN data |->
                        IF i \notin block.offset .. end - 1 THEN data[i]
                        ELSE IF block.right THEN Truth(piece)[i] ELSE Junk]
<1>1. T \in Nat /\ DOMAIN data = 0 .. T - 1 /\ Cardinality(DOMAIN data) = T
  BY Pieces, Size DEF LayoutFits
<1>2. \A i \in 0 .. T - 1 : Truth(piece)[i] \in Int
  BY Truths DEF LayoutFits
<1>3. Copied(block, fresh) = IF fresh /\ end <= T THEN turned ELSE data
  BY <1>1, Zenon DEF Copied
<1>4. turned \in [0 .. T - 1 -> Int]
  BY <1>1, <1>2 DEF Junk
<1>5. ASSUME fresh, block.right
      PROVE  /\ Copied(block, fresh) = turned
             /\ \A i \in 0 .. T - 1 :
                  turned[i] = IF i \in Stretch(block.offset \div BLOCK_SIZE)
                              THEN Truth(piece)[i] ELSE data[i]
  <2>1. /\ end <= T
        /\ block.offset .. end - 1 = Stretch(block.offset \div BLOCK_SIZE)
    <3>1. block.right = TRUE
      BY <1>5, WhatArrives
    <3>2. block.offset + block.length <= ActualPieceLength(piece)
      BY <3>1, WhatArrives
    <3>3. block.offset .. (block.offset + block.length) - 1
            = Stretch(block.offset \div BLOCK_SIZE)
      BY <3>1, WhatArrives
    <3> QED  BY <3>2, <3>3
  <2>2. Copied(block, fresh) = turned
    BY <1>3, <1>5, <2>1
  <2>3. \A i \in 0 .. T - 1 :
          turned[i] = IF i \notin block.offset .. end - 1 THEN data[i]
                      ELSE IF block.right THEN Truth(piece)[i] ELSE Junk
    BY <1>1
  <2> HIDE DEF turned, end
  <2> QED  BY <1>5, <2>1, <2>2, <2>3, Zenon
<1> HIDE DEF turned
<1>6. Copied(block, fresh) \in [0 .. T - 1 -> Int]
  BY <1>3, <1>4
<1>7. ~ fresh => Copied(block, fresh) = data
  BY <1>3
<1> QED  BY <1>5, <1>6, <1>7

-----------------------------------------------------------------------------
(* What a write and an allocation do to the disk.                            *)

BytesStay ==
  \A f \in present : \A i \in DOMAIN files[f] :
    (i < lengths[f] /\ InPlace(f, i)) =>
      /\ f \in present'
      /\ i \in DOMAIN files'[f]
      /\ files'[f][i] = files[f][i]

LEMMA HereStays ==
  ASSUME BytesStay, NEW n, Here(n, present, files)
  PROVE  Here(n, present', files')
<1>1. PICK f \in present : /\ n - Before(f) \in DOMAIN files[f]
                           /\ n - Before(f) < lengths[f]
                           /\ files[f][n - Before(f)] = Before(f) + (n - Before(f))
  BY DEF Here
<1>2. InPlace(f, n - Before(f))
  BY <1>1 DEF InPlace
<1>3. /\ f \in present' /\ n - Before(f) \in DOMAIN files'[f]
      /\ files'[f][n - Before(f)] = files[f][n - Before(f)]
  BY <1>1, <1>2 DEF BytesStay
<1> QED  BY <1>1, <1>3 DEF Here

LEMMA IntactIsWhole == \A p : Intact(p) <=> Whole(p, present, files)
BY Zenon DEF Intact, Whole, Here, InPlace

Overlaid(w, c, old, o, n, new) ==
  \A i \in 0 .. Most(c, o + n) - 1 :
    w[i] = IF i \in o .. (o + n) - 1 THEN new[i - o]
           ELSE IF i \in 0 .. c - 1 THEN old[i] ELSE Zero

LEMMA WrittenFits ==
  ASSUME NEW c \in Nat, NEW old \in [0 .. c - 1 -> Int], NEW o \in Nat, NEW n \in Nat,
         NEW new \in [0 .. n - 1 -> Int]
  PROVE  /\ Most(c, o + n) \in Nat
         /\ Written(old, o, new) \in [0 .. Most(c, o + n) - 1 -> Int]
         /\ Overlaid(Written(old, o, new), c, old, o, n, new)
<1> DEFINE m == Most(c, o + n)
           w == [i \in 0 .. m - 1 |-> IF i \in o .. (o + n) - 1 THEN new[i - o]
                                      ELSE IF i \in 0 .. c - 1 THEN old[i] ELSE Zero]
<1>1. m \in Nat
  BY DEF Most
<1> HIDE DEF m
<1>2. Written(old, o, new) = w
  <2>1. Cardinality(DOMAIN new) = n
    BY Size
  <2>2. Cardinality(DOMAIN old) = c /\ DOMAIN old = 0 .. c - 1
    BY Size
  <2> QED  BY <2>1, <2>2, Zenon DEF Written, m
<1>3. ASSUME NEW i \in 0 .. m - 1
      PROVE  (IF i \in o .. (o + n) - 1 THEN new[i - o]
              ELSE IF i \in 0 .. c - 1 THEN old[i] ELSE Zero) \in Int
  <2>1. i \in o .. (o + n) - 1 => i - o \in 0 .. n - 1
    BY <1>1
  <2>2. i \in o .. (o + n) - 1 => new[i - o] \in Int
    BY <2>1
  <2> QED  BY <2>2 DEF Zero
<1>4. w \in [0 .. m - 1 -> Int]
  BY <1>3
<1>5. Overlaid(w, c, old, o, n, new)
  BY Zenon DEF Overlaid, m
<1> HIDE DEF w
<1> QED  BY <1>1, <1>2, <1>4, <1>5 DEF m

LEMMA ResizedFits ==
  ASSUME NEW c \in Nat, NEW old \in [0 .. c - 1 -> Int], NEW l \in Nat
  PROVE  Resized(old, l) \in [0 .. l - 1 -> Int]
BY DEF Resized, Zero

(* The bytes of a span go to their places, and touch no other that is right.  *)
LEMMA Putting ==
  ASSUME lengths \in Seq(Nat), Bytes(files), present \subseteq File,
         \A f \in File \ present : DOMAIN files[f] = {},
         NEW q \in Piece, NEW span, Placed(q, span), NEW n \in 0 .. span.length,
         writing.bytes = Truth(q), Puts(span, n)
  PROVE  /\ present' \subseteq File /\ Bytes(files')
         /\ \A f \in File \ present' : DOMAIN files'[f] = {}
         /\ BytesStay
         /\ n = span.length =>
              \A i \in Nat : Covers(span, i) => Here(PieceStart(q) + i, present', files')
<1> DEFINE g == span.file  o == span.offset  a == span.at
           new == [i \in 0 .. n - 1 |-> writing.bytes[a + i]]
<1>1. /\ g \in File /\ o \in Nat /\ a \in Nat /\ span.length \in Nat /\ n \in Nat
      /\ n <= span.length /\ Before(g) + o = PieceStart(q) + a
      /\ o + span.length <= lengths[g] /\ a + span.length <= ActualPieceLength(q)
  BY DEF Placed, Span
<1>2. /\ present' = present \cup {g}
      /\ files' = [files EXCEPT ![g] = Written(@, o, new)]
  BY Zenon DEF Puts
<1>3. /\ Before(g) \in Nat /\ lengths[g] \in Nat /\ PieceStart(q) \in Nat
      /\ ActualPieceLength(q) \in Nat
  BY <1>1, Files, Pieces
<1>4. new \in [0 .. n - 1 -> Int] /\ \A i \in 0 .. n - 1 : new[i] = Before(g) + (o + i)
  <2>1. ASSUME NEW i \in 0 .. n - 1  PROVE new[i] \in Int /\ new[i] = Before(g) + (o + i)
    <3> HIDE DEF g, o, a
    <3>1. /\ a + i \in 0 .. ActualPieceLength(q) - 1
          /\ PieceStart(q) + (a + i) = Before(g) + (o + i) /\ Before(g) + (o + i) \in Int
      <4>1. span.length \in Nat /\ n <= span.length /\ a + span.length <= ActualPieceLength(q)
        BY <1>1 DEF a
      <4>2. a \in Nat /\ n \in Nat /\ o \in Nat /\ Before(g) + o = PieceStart(q) + a
        BY <1>1 DEF a, o, g
      <4>3. i \in Nat /\ i < n
        BY <4>2
      <4> QED  BY ONLY <4>1, <4>2, <4>3, <1>3
    <3>2. new[i] = writing.bytes[a + i]
      OBVIOUS
    <3>3. Truth(q)[a + i] = PieceStart(q) + (a + i)
      BY <3>1, Truths
    <3> QED  BY <3>1, <3>2, <3>3
  <2> QED  BY <2>1
<1> HIDE DEF new
<1>5. PICK c \in Nat : files[g] \in [0 .. c - 1 -> Int]
  BY <1>1 DEF Bytes
<1> DEFINE w == Written(files[g], o, new)  m == Most(c, o + n)
<1>6. /\ m \in Nat /\ w \in [0 .. m - 1 -> Int] /\ c <= m /\ o + n <= m
      /\ \A i \in 0 .. m - 1 : w[i] = IF i \in o .. (o + n) - 1 THEN new[i - o]
                                      ELSE IF i \in 0 .. c - 1 THEN files[g][i] ELSE Zero
  <2>1. o \in Nat /\ n \in Nat
    BY <1>1
  <2> HIDE DEF g, o, a
  <2>2. c <= m /\ o + n <= m
    BY <2>1 DEF Most
  <2>3. /\ m \in Nat /\ w \in [0 .. m - 1 -> Int]
        /\ \A i \in 0 .. m - 1 : w[i] = IF i \in o .. (o + n) - 1 THEN new[i - o]
                                        ELSE IF i \in 0 .. c - 1 THEN files[g][i] ELSE Zero
    <3>1. m \in Nat /\ w \in [0 .. m - 1 -> Int] /\ Overlaid(w, c, files[g], o, n, new)
      BY <2>1, <1>4, <1>5, WrittenFits
    <3> QED  BY <3>1, Zenon DEF Overlaid
  <2> QED  BY <2>2, <2>3
<1>7. files' = [f \in File |-> IF f = g THEN w ELSE files[f]]
  BY <1>1, <1>2 DEF Bytes
<1> HIDE DEF w, m
<1>8. present' \subseteq File
  BY <1>1, <1>2
<1>9. Bytes(files')
  <2>1. files' = [f \in File |-> files'[f]]
    BY <1>7
  <2>2. ASSUME NEW f \in File  PROVE \E d \in Nat : files'[f] \in [0 .. d - 1 -> Int]
    BY <1>6, <1>7 DEF Bytes
  <2> QED  BY <2>1, <2>2 DEF Bytes
<1>10. \A f \in File \ present' : DOMAIN files'[f] = {}
  BY <1>2, <1>7
<1>11. BytesStay
  <2> SUFFICES ASSUME NEW f \in present, NEW i \in DOMAIN files[f],
                      i < lengths[f], InPlace(f, i)
               PROVE  /\ f \in present' /\ i \in DOMAIN files'[f]
                      /\ files'[f][i] = files[f][i]
    BY DEF BytesStay
  <2>1. CASE f # g
    BY <1>2, <1>7, <2>1
  <2>2. CASE f = g
    <3>1. i \in 0 .. c - 1 /\ files[g][i] = Before(g) + i
      BY <1>5, <2>2 DEF InPlace
    <3>2. i \in 0 .. m - 1
      BY <1>6, <3>1
    <3>3. w[i] = Before(g) + i
      <4>1. CASE i \in o .. (o + n) - 1
        <5>1. i - o \in 0 .. n - 1 /\ o + (i - o) = i
          <6>1. o \in Nat /\ n \in Nat
            BY <1>1
          <6> HIDE DEF o
          <6> QED  BY ONLY <4>1, <6>1
        <5>2. new[i - o] = Before(g) + i
          BY <1>4, <5>1
        <5> QED  BY <1>6, <3>2, <4>1, <5>2
      <4>2. CASE i \notin o .. (o + n) - 1
        BY <1>6, <3>1, <3>2, <4>2
      <4> QED  BY <4>1, <4>2
    <3> QED  BY <1>2, <1>6, <1>7, <2>2, <3>1, <3>2, <3>3
  <2> QED  BY <2>1, <2>2
<1>12. ASSUME n = span.length, NEW i \in Nat, Covers(span, i)
       PROVE  Here(PieceStart(q) + i, present', files')
  <2> DEFINE k == PieceStart(q) + i  x == k - Before(g)
  <2>1. x \in o .. (o + n) - 1 /\ x < lengths[g] /\ x \in Int
    <3> HIDE DEF k
    <3>1. k = PieceStart(q) + i
      BY DEF k
    <3>2. x \in o .. o + span.length - 1 /\ x < lengths[g]
      BY <1>12, <3>1, Position
    <3> HIDE DEF x, o
    <3>3. o \in Nat /\ span.length \in Nat
      BY <1>1 DEF o
    <3> QED  BY <3>2, <3>3, <1>12
  <2> HIDE DEF x
  <2>2. x \in 0 .. m - 1 /\ x - o \in 0 .. n - 1 /\ o + (x - o) = x
    <3>1. o \in Nat /\ n \in Nat /\ m \in Nat /\ o + n <= m
      BY <1>1, <1>6
    <3> HIDE DEF o
    <3> QED  BY ONLY <2>1, <3>1
  <2>3. w[x] = Before(g) + x
    <3>1. new[x - o] = Before(g) + x
      BY <1>4, <2>2
    <3> QED  BY <1>6, <2>1, <2>2, <3>1
  <2>4. g \in present' /\ files'[g] = w /\ DOMAIN w = 0 .. m - 1
    BY <1>1, <1>2, <1>6, <1>7
  <2> QED  BY <2>1, <2>2, <2>3, <2>4 DEF Here, x
<1> QED  BY <1>8, <1>9, <1>10, <1>11, <1>12

(* Creating files and giving them their size, of which one may fail.          *)
LEMMA Allocating ==
  ASSUME lengths \in Seq(Nat), Bytes(files), present \subseteq File,
         \A f \in File \ present : DOMAIN files[f] = {},
         NEW failing \in SUBSET File, NEW created \in {File, File \ failing},
         present' = present \cup created,
         files' = [f \in File |-> IF f \in failing THEN files[f]
                                  ELSE Resized(files[f], lengths[f])]
  PROVE  /\ present' \subseteq File /\ Bytes(files')
         /\ \A f \in File \ present' : DOMAIN files'[f] = {}
         /\ BytesStay
         /\ present = {} => \A n \in Nat : ~ Here(n, present', files')
<1>1. \A f \in File : /\ lengths[f] \in Nat /\ Before(f) \in Nat
                      /\ \E c \in Nat : files[f] \in [0 .. c - 1 -> Int]
  BY Files DEF Bytes
<1>2. ASSUME NEW f \in File, f \notin failing
      PROVE  /\ files'[f] \in [0 .. lengths[f] - 1 -> Int]
             /\ \A i \in 0 .. lengths[f] - 1 :
                  files'[f][i] = IF i \in DOMAIN files[f] THEN files[f][i] ELSE Zero
  <2>1. PICK c \in Nat : files[f] \in [0 .. c - 1 -> Int]
    BY <1>1
  <2>2. files'[f] = Resized(files[f], lengths[f]) /\ DOMAIN files[f] = 0 .. c - 1
    BY <1>2, <2>1
  <2>3. files'[f] \in [0 .. lengths[f] - 1 -> Int]
    <3> DEFINE l == lengths[f]  old == files[f]
    <3>1. l \in Nat /\ old \in [0 .. c - 1 -> Int] /\ files'[f] = Resized(old, l)
      BY <1>1, <2>1, <2>2
    <3> HIDE DEF l, old
    <3>2. Resized(old, l) \in [0 .. l - 1 -> Int]
      BY <3>1, ResizedFits
    <3> QED  BY <3>1, <3>2 DEF l
  <2> QED  BY <2>2, <2>3, Zenon DEF Resized
<1>3. present' \subseteq File
  OBVIOUS
<1>4. Bytes(files')
  <2>1. files' = [f \in File |-> files'[f]]
    OBVIOUS
  <2>2. ASSUME NEW f \in File  PROVE \E c \in Nat : files'[f] \in [0 .. c - 1 -> Int]
    <3>1. CASE f \in failing
      BY <1>1, <3>1
    <3>2. CASE f \notin failing
      BY <1>1, <1>2, <3>2
    <3> QED  BY <3>1, <3>2
  <2> QED  BY <2>1, <2>2 DEF Bytes
<1>5. \A f \in File \ present' : DOMAIN files'[f] = {}
  OBVIOUS
<1>6. BytesStay
  <2> SUFFICES ASSUME NEW f \in present, NEW i \in DOMAIN files[f], i < lengths[f]
               PROVE  /\ f \in present' /\ i \in DOMAIN files'[f]
                      /\ files'[f][i] = files[f][i]
    BY DEF BytesStay
  <2>1. CASE f \in failing
    BY <2>1
  <2>2. CASE f \notin failing
    <3>1. i \in 0 .. lengths[f] - 1
      BY <1>1
    <3> QED  BY <1>2, <2>2, <3>1
  <2> QED  BY <2>1, <2>2
<1>7. ASSUME present = {}, NEW n \in Nat, Here(n, present', files')  PROVE FALSE
  <2>1. PICK f \in present' : /\ n - Before(f) \in DOMAIN files'[f]
                              /\ files'[f][n - Before(f)] = Before(f) + (n - Before(f))
    BY <1>7 DEF Here
  <2>2. f \in File /\ DOMAIN files[f] = {}
    BY <1>3, <1>7
  <2>3. f \notin failing
    BY <2>1, <2>2
  <2>4. files'[f][n - Before(f)] = Zero
    BY <1>2, <2>1, <2>2, <2>3
  <2>5. Before(f) + (n - Before(f)) = n
    BY <1>1, <2>2
  <2> QED  BY <2>1, <2>4, <2>5 DEF Zero
<1> QED  BY <1>3, <1>4, <1>5, <1>6, <1>7

LEMMA Adoption ==
  ASSUME lengths \in Seq(Nat), NEW there \in SUBSET File, NEW disk, Bytes(disk)
  PROVE  VerifyOnDisk(there, disk) = {p \in Piece : Whole(p, there, disk)}
BY ReadBack, Zenon DEF VerifyOnDisk

-----------------------------------------------------------------------------
(* The invariant holds at first and is kept by every step.                    *)

LEMMA PayloadInitInv == PayloadInit => PayloadInv
<1> SUFFICES ASSUME PayloadInit  PROVE PayloadInv
  OBVIOUS
<1>1. IInv
  BY InitIInv DEF PayloadInit
<1>2. LayoutFits
  BY PayloadAssumption DEF PayloadInit, LayoutFits
<1>3. FetchFits
  <2>1. /\ following = TRUE /\ sound = TRUE /\ received_count = 0
        /\ data = [i \in 0 .. ActualPieceLength(piece) - 1 |-> Zero]
        /\ blocks_received = [b \in Block |-> FALSE]
    BY DEF PayloadInit, Init
  <2>2. data \in [0 .. ActualPieceLength(piece) - 1 -> Int]
    BY <2>1 DEF Zero
  <2>3. \A b \in Block : ~ blocks_received[b]
    BY <2>1
  <2>4. received_count < NumBlocks
    BY <2>1, NumBlocksAssumption
  <2> QED  BY <2>1, <2>2, <2>3, <2>4 DEF FetchFits
<1>4. /\ have = {} /\ queue = {} /\ writing = Idle /\ present = {}
      /\ files = [f \in File |-> NoBytes]
  BY DEF PayloadInit
<1>5. DiskFits
  <2>1. NoBytes \in [0 .. 0 - 1 -> Int] /\ DOMAIN NoBytes = {}
    BY DEF NoBytes, Zero
  <2>2. Bytes(files)
    <3>1. files = [f \in File |-> files[f]]
      BY <1>4
    <3>2. \A f \in File : \E c \in Nat : files[f] \in [0 .. c - 1 -> Int]
      BY <1>4, <2>1
    <3> QED  BY <3>1, <3>2 DEF Bytes
  <2>3. \A f \in File \ present : DOMAIN files[f] = {}
    BY <1>4, <2>1
  <2> QED  BY <1>4, <2>2, <2>3 DEF DiskFits
<1>6. WritesFit /\ DoneIsOnDisk
  BY <1>4 DEF WritesFit, DoneIsOnDisk
<1> QED  BY <1>1, <1>2, <1>3, <1>5, <1>6 DEF PayloadInv

(* To the followed piece's progress, a step of the engine is a call or none.   *)
LEMMA TracksPiece ==
  ASSUME LayoutFits, FetchFits, [PayloadNext]_payloadVars
  PROVE  [Next]_vars
<1>1. ASSUME NEW block \in GoodBlocks \cup WrongBlocks, BlockReceived(block)
      PROVE  Next
  BY <1>1, WhatArrives DEF BlockReceived, Next
<1>2. ASSUME BlockAsked  PROVE Next
  <2>1. ~ IsComplete(received_count)
    <3>1. following
      BY <1>2 DEF BlockAsked
    <3>2. received_count < NumBlocks
      BY <3>1 DEF FetchFits
    <3> QED  BY <3>2, NumBlocksAssumption DEF IsComplete
  <2> QED  BY <1>2, <2>1 DEF BlockAsked, Next
<1>3. CASE UNCHANGED payloadVars
  BY <1>3 DEF payloadVars
<1>4. CASE Start
  BY <1>4 DEF Start
<1>5. CASE Crash
  BY <1>5 DEF Crash
<1>6. CASE \E f \in File : Tamper(f)
  BY <1>6 DEF Tamper
<1>7. CASE \E p \in Piece : OtherPieceVerified(p)
  BY <1>7 DEF OtherPieceVerified
<1>8. CASE \E w \in queue : BeginWrite(w)
  BY <1>8 DEF BeginWrite
<1>9. CASE WriteSpan
  BY <1>9 DEF WriteSpan
<1>10. CASE WriteFails
  BY <1>10 DEF WriteFails
<1> QED
  BY <1>1, <1>2, <1>3, <1>4, <1>5, <1>6, <1>7, <1>8, <1>9, <1>10 DEF PayloadNext

LEMMA LayoutKept ==
  ASSUME [PayloadNext]_payloadVars
  PROVE  lengths' = lengths /\ piece' = piece
BY DEF PayloadNext, payloadVars, fetchVars, Start, Crash, Tamper, BlockReceived,
       BlockAsked, OtherPieceVerified, BeginWrite, WriteSpan, WriteFails

(* The steps other than a block's arrival leave the followed piece alone.      *)
LEMMA FetchKept ==
  ASSUME [PayloadNext]_payloadVars,
         ~ \E block \in GoodBlocks \cup WrongBlocks : BlockReceived(block)
  PROVE  /\ sound' = sound
         /\ \/ following' = following /\ data' = data
            \/ following' = FALSE /\ Crash
         /\ blocks_received' = blocks_received /\ received_count' = received_count
<1>1. CASE BlockAsked
  BY <1>1 DEF BlockAsked, AssignNextBlock, MarkUnassigned, fetchVars
<1>2. CASE Start
  BY <1>2 DEF Start, vars, fetchVars
<1>3. CASE Crash
  BY <1>3 DEF Crash, vars
<1>4. CASE \E f \in File : Tamper(f)
  BY <1>4 DEF Tamper, vars, fetchVars
<1>5. CASE \E p \in Piece : OtherPieceVerified(p)
  BY <1>5 DEF OtherPieceVerified, vars, fetchVars
<1>6. CASE \E w \in queue : BeginWrite(w)
  BY <1>6 DEF BeginWrite, vars, fetchVars
<1>7. CASE WriteSpan
  BY <1>7 DEF WriteSpan, vars, fetchVars
<1>8. CASE WriteFails
  BY <1>8 DEF WriteFails, vars, fetchVars
<1>9. CASE UNCHANGED payloadVars
  BY <1>9 DEF payloadVars, vars, fetchVars
<1> QED
  BY <1>1, <1>2, <1>3, <1>4, <1>5, <1>6, <1>7, <1>8, <1>9 DEF PayloadNext

(* What the arrival of a block does to the buffer.                            *)
LEMMA Arrival ==
  ASSUME IInv, IInv', LayoutFits, FetchFits,
         NEW block \in GoodBlocks \cup WrongBlocks, BlockReceived(block)
  PROVE  LET copied == Copied(block, answer'.fresh)
         IN  /\ copied \in [0 .. ActualPieceLength(piece) - 1 -> Int]
             /\ answer'.complete \in BOOLEAN /\ answer'.fresh \in BOOLEAN
             /\ sound' \in BOOLEAN
             /\ answer'.complete <=> received_count' = NumBlocks
             /\ sound' => \A b \in Block : blocks_received'[b] =>
                            \A i \in Stretch(b) : copied[i] = Truth(piece)[i]
<1> DEFINE c == block.offset \div BLOCK_SIZE  copied == Copied(block, answer'.fresh)
           T == ActualPieceLength(piece)
<1>1. c \in Index /\ block.right \in BOOLEAN
  BY WhatArrives
<1>2. /\ following /\ MarkReceived(c) /\ received_count # NumBlocks
      /\ sound' = (sound /\ (answer'.fresh => block.right))
  BY DEF BlockReceived, IsComplete
<1>3. /\ received_count < NumBlocks /\ sound \in BOOLEAN
      /\ data \in [0 .. T - 1 -> Int]
      /\ sound => \A b \in Block : blocks_received[b] =>
                     \A i \in Stretch(b) : data[i] = Truth(piece)[i]
  BY <1>2 DEF FetchFits
<1>4. answer'.complete \in BOOLEAN /\ answer'.fresh \in BOOLEAN
  BY DEF IInv, TypeOK
<1>5. copied \in [0 .. T - 1 -> Int]
  BY <1>3, <1>4, CopiedFits
<1>6. sound' \in BOOLEAN
  BY <1>1, <1>2, <1>3, <1>4
<1>7. \A b \in Block : \A i \in Stretch(b) : i \in 0 .. T - 1
  <2> SUFFICES ASSUME NEW b \in Block, NEW i \in Stretch(b)  PROVE i \in 0 .. T - 1
    OBVIOUS
  <2> DEFINE s == b * BLOCK_SIZE  l == BlockLength(b)
  <2>1. s \in Nat /\ l \in Nat /\ s + l <= T
    BY Blocks
  <2>2. i \in s .. s + l - 1
    BY DEF Stretch
  <2>3. T \in Nat
    BY Pieces DEF LayoutFits
  <2> HIDE DEF s, l, T
  <2> QED  BY ONLY <2>1, <2>2, <2>3
<1>8. CASE c \in Block => blocks_received[c]
  <2>1. answer' = Verdict(FALSE, FALSE) /\ UNCHANGED <<blocks_received, received_count>>
    BY <1>2, <1>8 DEF MarkReceived
  <2>2. answer'.fresh = FALSE /\ answer'.complete = FALSE
    BY <2>1 DEF Verdict
  <2>3. copied = data
    BY <1>3, <2>2, CopiedFits
  <2>4. sound' = sound
    BY <1>2, <1>3, <2>2
  <2> HIDE DEF copied
  <2> QED  BY <1>2, <1>3, <1>4, <1>5, <1>6, <2>1, <2>2, <2>3, <2>4 DEF copied
<1>9. CASE c \in Block /\ ~ blocks_received[c]
  <2>1. /\ answer' = Verdict(TRUE, IsComplete(received_count + 1))
        /\ received_count' = received_count + 1
        /\ blocks_received' = [blocks_received EXCEPT ![c] = TRUE]
    BY <1>2, <1>9 DEF MarkReceived
  <2>2. answer'.fresh = TRUE /\ (answer'.complete <=> received_count' = NumBlocks)
    BY <2>1 DEF Verdict, IsComplete
  <2>3. ASSUME sound', NEW b \in Block, blocks_received'[b], NEW i \in Stretch(b)
        PROVE  copied[i] = Truth(piece)[i]
    <3>1. sound /\ block.right
      BY <1>1, <1>2, <1>3, <2>2, <2>3
    <3>2. i \in 0 .. T - 1
      BY <1>7
    <3>3. copied[i] = IF i \in Stretch(c) THEN Truth(piece)[i] ELSE data[i]
      BY <1>3, <2>2, <3>1, <3>2, CopiedFits
    <3>4. b # c => blocks_received[b]
      BY <2>1, <2>3 DEF IInv, TypeOK
    <3>5. b # c => data[i] = Truth(piece)[i]
      BY <1>3, <3>1, <3>4
    <3> QED  BY <3>3, <3>5
  <2> HIDE DEF copied, c
  <2> QED  BY <1>4, <1>5, <1>6, <2>2, <2>3 DEF copied
<1> QED  BY <1>8, <1>9

LEMMA FetchStep ==
  ASSUME IInv, IInv', LayoutFits, FetchFits, [PayloadNext]_payloadVars
  PROVE  FetchFits'
<1>1. lengths' = lengths /\ piece' = piece
  BY LayoutKept
<1>2. /\ ActualPieceLength(piece)' = ActualPieceLength(piece)
      /\ Truth(piece)' = Truth(piece)
      /\ \A b : Stretch(b)' = Stretch(b)
  <2>1. /\ ActualPieceLength(piece)' = ActualPieceLength(piece)
        /\ Truth(piece)' = Truth(piece)
    BY <1>1, LayoutStays
  <2>2. \A b : BlockLength(b)' = BlockLength(b)
    BY <2>1 DEF BlockLength
  <2> QED  BY <2>1, <2>2 DEF Stretch
<1>3. ASSUME NEW block \in GoodBlocks \cup WrongBlocks, BlockReceived(block)
      PROVE  FetchFits'
  <2> DEFINE copied == Copied(block, answer'.fresh)
  <2>1. /\ following' = ~ answer'.complete
        /\ data' = IF answer'.complete THEN NoBytes ELSE copied
    BY <1>3 DEF BlockReceived
  <2>2. /\ copied \in [0 .. ActualPieceLength(piece) - 1 -> Int]
        /\ answer'.complete \in BOOLEAN /\ sound' \in BOOLEAN
        /\ answer'.complete <=> received_count' = NumBlocks
        /\ sound' => \A b \in Block : blocks_received'[b] =>
                       \A i \in Stretch(b) : copied[i] = Truth(piece)[i]
    BY <1>3, Arrival
  <2>3. received_count' \in 0 .. NumBlocks
    BY DEF IInv, TypeOK
  <2>4. following' => received_count' < NumBlocks
    <3>1. following' => received_count' # NumBlocks
      BY <2>1, <2>2
    <3> QED  BY <2>3, <3>1, NumBlocksAssumption
  <2> HIDE DEF copied
  <2>5. following' \in BOOLEAN /\ (following' => data' = copied)
    BY <2>1, <2>2
  <2> QED  BY <1>1, <1>2, <2>2, <2>4, <2>5 DEF FetchFits
<1>4. CASE ~ \E block \in GoodBlocks \cup WrongBlocks : BlockReceived(block)
  <2>1. /\ sound' = sound
        /\ \/ following' = following /\ data' = data
           \/ following' = FALSE
        /\ blocks_received' = blocks_received /\ received_count' = received_count
    BY <1>4, FetchKept
  <2>2. CASE following' = following /\ data' = data
    <3>1. following' \in BOOLEAN /\ sound' \in BOOLEAN
      BY <2>1, <2>2 DEF FetchFits
    <3>2. ASSUME following'
          PROVE  /\ received_count' < NumBlocks
                 /\ data' \in [0 .. ActualPieceLength(piece) - 1 -> Int]
                 /\ sound' => \A b \in Block : blocks_received'[b] =>
                                \A i \in Stretch(b) : data'[i] = Truth(piece)[i]
      BY <2>1, <2>2, <3>2 DEF FetchFits
    <3> QED  BY <1>1, <1>2, <3>1, <3>2 DEF FetchFits
  <2>3. CASE following' = FALSE
    BY <2>1, <2>3 DEF FetchFits
  <2> QED  BY <2>1, <2>2, <2>3
<1> QED  BY <1>3, <1>4

(* Only allocation, tampering and writing change the disk.                    *)
LEMMA DiskKept ==
  ASSUME [PayloadNext]_payloadVars, ~ Start, ~ (\E f \in File : Tamper(f)),
         ~ WriteSpan, ~ WriteFails
  PROVE  present' = present /\ files' = files
<1>1. CASE BlockAsked
  BY <1>1 DEF BlockAsked, diskVars
<1>2. CASE Crash
  BY <1>2 DEF Crash
<1>3. CASE \E block \in GoodBlocks \cup WrongBlocks : BlockReceived(block)
  BY <1>3 DEF BlockReceived
<1>4. CASE \E p \in Piece : OtherPieceVerified(p)
  BY <1>4 DEF OtherPieceVerified
<1>5. CASE \E w \in queue : BeginWrite(w)
  BY <1>5 DEF BeginWrite
<1>6. CASE UNCHANGED payloadVars
  BY <1>6 DEF payloadVars, diskVars
<1> QED  BY <1>1, <1>2, <1>3, <1>4, <1>5, <1>6 DEF PayloadNext

(* The next span to write is one of the piece's.                              *)
LEMMA NextSpan ==
  ASSUME WritesFit, writing # Idle
  PROVE  /\ writing.piece \in Piece /\ writing.bytes = Truth(writing.piece)
         /\ Len(writing.rest) \in Nat \ {0} /\ Head(writing.rest) = writing.rest[1]
         /\ Placed(writing.piece, Head(writing.rest))
<1>1. /\ writing.piece \in Piece
      /\ writing = [piece |-> writing.piece, bytes |-> Truth(writing.piece),
                    rest |-> writing.rest]
      /\ writing.rest \in Seq(Span) /\ writing.rest # <<>>
      /\ \A k \in 1 .. Len(writing.rest) : Placed(writing.piece, writing.rest[k])
  BY DEF WritesFit, WriteFits
<1>2. writing.bytes = Truth(writing.piece)
  BY <1>1
<1>3. Len(writing.rest) \in Nat \ {0} /\ Head(writing.rest) = writing.rest[1]
  BY <1>1
<1> QED  BY <1>1, <1>2, <1>3

LEMMA PartlyPut ==
  ASSUME LayoutFits, DiskFits, WritesFit, writing # Idle,
         NEW n \in 0 .. Head(writing.rest).length, Puts(Head(writing.rest), n)
  PROVE  /\ present' \subseteq File /\ Bytes(files')
         /\ \A f \in File \ present' : DOMAIN files'[f] = {}
         /\ BytesStay
         /\ n = Head(writing.rest).length =>
              \A i \in Nat : Covers(Head(writing.rest), i) =>
                Here(PieceStart(writing.piece) + i, present', files')
<1> DEFINE span == Head(writing.rest)  q == writing.piece
<1>1. q \in Piece /\ writing.bytes = Truth(q) /\ Placed(q, span)
  BY NextSpan
<1>2. /\ lengths \in Seq(Nat) /\ Bytes(files) /\ present \subseteq File
      /\ \A f \in File \ present : DOMAIN files[f] = {}
  BY DEF LayoutFits, DiskFits
<1>3. n \in 0 .. span.length /\ Puts(span, n)
  OBVIOUS
<1> HIDE DEF span, q
<1>4. /\ present' \subseteq File /\ Bytes(files')
      /\ \A f \in File \ present' : DOMAIN files'[f] = {}
      /\ BytesStay
      /\ n = span.length =>
           \A i \in Nat : Covers(span, i) => Here(PieceStart(q) + i, present', files')
  BY <1>1, <1>2, <1>3, Putting
<1> QED  BY <1>4 DEF span, q

LEMMA TamperFits ==
  ASSUME LayoutFits, DiskFits, NEW f \in File, Tamper(f)
  PROVE  /\ present' \subseteq File /\ Bytes(files')
         /\ \A g \in File \ present' : DOMAIN files'[g] = {}
<1>1. /\ \A g \in File : \E c \in Nat : files[g] \in [0 .. c - 1 -> Int]
      /\ files = [g \in File |-> files[g]]
      /\ present \subseteq File /\ \A g \in File \ present : DOMAIN files[g] = {}
  BY DEF DiskFits, Bytes
<1>2. lengths[f] \in Nat
  BY Files DEF LayoutFits
<1>3. PICK bytes : /\ files' = [files EXCEPT ![f] = bytes]
                   /\ \/ present' = present \ {f} /\ bytes = NoBytes
                      \/ /\ present' = present /\ f \in present
                         /\ bytes \in {[i \in 0 .. lengths[f] \div 2 - 1 |-> Junk],
                                       Resized(files[f], lengths[f] + 1)}
  BY Zenon DEF Tamper
<1>4. \E d \in Nat : bytes \in [0 .. d - 1 -> Int]
  <2>1. CASE bytes = NoBytes
    <3>1. NoBytes \in [0 .. 0 - 1 -> Int]
      BY DEF NoBytes, Zero
    <3> QED  BY <2>1, <3>1
  <2>2. CASE bytes = [i \in 0 .. lengths[f] \div 2 - 1 |-> Junk]
    <3> DEFINE d == lengths[f] \div 2
    <3>1. d \in Nat
      BY <1>2
    <3>2. bytes = [i \in 0 .. d - 1 |-> Junk]
      BY <2>2
    <3> HIDE DEF d
    <3>3. bytes \in [0 .. d - 1 -> Int]
      BY <3>2 DEF Junk
    <3> QED  BY <3>1, <3>3
  <2>3. CASE bytes = Resized(files[f], lengths[f] + 1)
    <3>1. PICK c \in Nat : files[f] \in [0 .. c - 1 -> Int]
      BY <1>1
    <3> DEFINE d == lengths[f] + 1
    <3>2. d \in Nat
      BY <1>2
    <3> HIDE DEF d
    <3>3. Resized(files[f], d) \in [0 .. d - 1 -> Int]
      BY <3>1, <3>2, ResizedFits
    <3> QED  BY <2>3, <3>2, <3>3 DEF d
  <2> QED  BY <1>3, <2>1, <2>2, <2>3
<1>5. /\ files' = [g \in File |-> files'[g]] /\ files'[f] = bytes
      /\ \A g \in File \ {f} : files'[g] = files[g]
  BY <1>1, <1>3
<1>6. Bytes(files')
  BY <1>1, <1>4, <1>5 DEF Bytes
<1>7. present' \subseteq File
  BY <1>1, <1>3
<1>8. ASSUME NEW g \in File \ present'  PROVE DOMAIN files'[g] = {}
  <2>1. CASE g = f
    <3>1. files'[f] = NoBytes
      BY <1>3, <1>5, <1>8, <2>1
    <3>2. DOMAIN NoBytes = {}
      BY DEF NoBytes
    <3> QED  BY <2>1, <3>1, <3>2
  <2>2. CASE g # f
    BY <1>1, <1>3, <1>5, <1>8, <2>2
  <2> QED  BY <2>1, <2>2
<1> QED  BY <1>6, <1>7, <1>8

(* No step but tampering, which needs the engine down, spoils a true byte.    *)
LEMMA DiskSteps ==
  ASSUME LayoutFits, DiskFits, WritesFit, [PayloadNext]_payloadVars
  PROVE  /\ present' \subseteq File /\ Bytes(files')
         /\ \A f \in File \ present' : DOMAIN files'[f] = {}
         /\ BytesStay \/ \E f \in File : Tamper(f)
<1>1. /\ lengths \in Seq(Nat) /\ Bytes(files) /\ present \subseteq File
      /\ \A f \in File \ present : DOMAIN files[f] = {}
  BY DEF LayoutFits, DiskFits
<1>2. ASSUME present' = present, files' = files
      PROVE  /\ present' \subseteq File /\ Bytes(files')
             /\ \A f \in File \ present' : DOMAIN files'[f] = {}
             /\ BytesStay
  <2>1. BytesStay
    BY <1>2 DEF BytesStay
  <2> QED  BY <1>1, <1>2, <2>1
<1>3. CASE Start
  BY <1>1, <1>3, Allocating DEF Start
<1>4. CASE \E f \in File : Tamper(f)
  BY <1>4, TamperFits
<1>5. CASE WriteSpan
  <2>1. /\ writing # Idle
        /\ Puts(Head(writing.rest), Head(writing.rest).length)
    BY <1>5 DEF WriteSpan
  <2>2. Head(writing.rest).length \in 0 .. Head(writing.rest).length
    BY <2>1, NextSpan DEF Placed, Span
  <2> QED  BY <2>1, <2>2, PartlyPut
<1>6. CASE WriteFails
  <2>1. CASE UNCHANGED <<present, files>>
    BY <1>2, <2>1
  <2>2. CASE ~ UNCHANGED <<present, files>>
    <3>1. writing # Idle
      BY <1>6 DEF WriteFails
    <3>2. PICK n \in 0 .. Head(writing.rest).length - 1 : Puts(Head(writing.rest), n)
      BY <1>6, <2>2 DEF WriteFails
    <3>3. n \in 0 .. Head(writing.rest).length
      BY <3>1, NextSpan DEF Placed, Span
    <3> QED  BY <3>1, <3>2, <3>3, PartlyPut
  <2> QED  BY <2>1, <2>2
<1> QED
  BY <1>2, <1>3, <1>4, <1>5, <1>6, DiskKept

(* What a start adopts.                                                       *)
LEMMA Adopts ==
  ASSUME LayoutFits, DiskFits, Start
  PROVE  have' = {p \in Piece : Whole(p, present', files')}
<1>1. /\ lengths \in Seq(Nat) /\ Bytes(files) /\ present \subseteq File
      /\ \A f \in File \ present : DOMAIN files[f] = {}
  BY DEF LayoutFits, DiskFits
<1>2. /\ present' \subseteq File /\ Bytes(files')
      /\ present = {} => \A n \in Nat : ~ Here(n, present', files')
  BY <1>1, Allocating DEF Start
<1>3. CASE present # {}
  BY <1>1, <1>2, <1>3, Adoption DEF Start
<1>4. CASE present = {}
  <2>1. ASSUME NEW p \in Piece  PROVE ~ Whole(p, present', files')
    <3>1. PieceStart(p) \in Nat /\ PieceStart(p) \in PieceStart(p) .. PieceEnd(p) - 1
      BY <1>1, Pieces
    <3> QED  BY <1>2, <1>4, <3>1 DEF Whole
  <2>2. have' = {}
    BY <1>4 DEF Start
  <2> QED  BY <2>1, <2>2
<1> QED  BY <1>3, <1>4

LEMMA DiskStep ==
  ASSUME LayoutFits, DiskFits, WritesFit, [PayloadNext]_payloadVars
  PROVE  DiskFits'
<1>1. /\ present' \subseteq File /\ Bytes(files')
      /\ \A f \in File \ present' : DOMAIN files'[f] = {}
  BY DiskSteps
<1>2. File' = File /\ Piece' = Piece /\ Bytes(files)' = Bytes(files')
  BY LayoutKept, LayoutStays
<1>3. have' \subseteq Piece
  <2>1. CASE Start
    BY <2>1, Adopts
  <2>2. CASE ~ Start
    BY <2>2 DEF PayloadNext, payloadVars, fetchVars, diskVars, DiskFits, LayoutFits,
                Crash, Tamper, BlockReceived, BlockAsked, OtherPieceVerified,
                BeginWrite, WriteSpan, WriteFails
  <2> QED  BY <2>1, <2>2
<1>4. ~ up' => have' = {} /\ queue' = {} /\ writing' = Idle
  BY DEF PayloadNext, payloadVars, fetchVars, diskVars, DiskFits,
         Start, Crash, Tamper, BlockReceived, BlockAsked, OtherPieceVerified,
         BeginWrite, WriteSpan, WriteFails
<1> QED  BY <1>1, <1>2, <1>3, <1>4 DEF DiskFits

(* The queue only grows by true pieces.                                       *)
LEMMA QueueStep ==
  ASSUME LayoutFits, WritesFit, [PayloadNext]_payloadVars
  PROVE  \A w \in queue' : w.piece \in Piece /\ w.bytes = Truth(w.piece)
<1>1. \A w \in queue : w.piece \in Piece /\ w.bytes = Truth(w.piece)
  BY DEF WritesFit
<1>2. ASSUME NEW block \in GoodBlocks \cup WrongBlocks, BlockReceived(block)
      PROVE  \A w \in queue' : w.piece \in Piece /\ w.bytes = Truth(w.piece)
  <2> DEFINE copied == Copied(block, answer'.fresh)
  <2>1. \/ queue' = queue
        \/ /\ queue' = queue \cup {[piece |-> piece, bytes |-> copied]}
           /\ Verify(piece, copied)
    BY <1>2 DEF BlockReceived
  <2> HIDE DEF copied
  <2> QED  BY <1>1, <2>1 DEF Verify, LayoutFits
<1>3. ASSUME NEW p \in Piece, OtherPieceVerified(p)
      PROVE  \A w \in queue' : w.piece \in Piece /\ w.bytes = Truth(w.piece)
  <2>1. queue' = queue \cup {[piece |-> p, bytes |-> Truth(p)]}
    BY <1>3 DEF OtherPieceVerified
  <2> QED  BY <1>1, <2>1
<1>4. CASE ~ (\E block \in GoodBlocks \cup WrongBlocks : BlockReceived(block))
           /\ ~ (\E p \in Piece : OtherPieceVerified(p))
  <2>1. queue' \subseteq queue
    BY <1>4 DEF PayloadNext, payloadVars, diskVars, Start, Crash, Tamper, BlockAsked,
                BeginWrite, WriteSpan, WriteFails
  <2> QED  BY <1>1, <2>1
<1> QED  BY <1>2, <1>3, <1>4

LEMMA WriteBegun ==
  ASSUME LayoutFits, WritesFit, NEW w \in queue, BeginWrite(w)
  PROVE  WriteFits(writing', present', files') /\ writing'.piece = w.piece
<1>1. w.piece \in Piece /\ w.bytes = Truth(w.piece)
  BY DEF WritesFit
<1>2. writing' = [piece |-> w.piece, bytes |-> w.bytes, rest |-> PieceSpans(w.piece)]
  BY DEF BeginWrite
<1>3. /\ PieceSpans(w.piece) \in Seq(Span) /\ PieceSpans(w.piece) # <<>>
      /\ \A k \in 1 .. Len(PieceSpans(w.piece)) : Placed(w.piece, PieceSpans(w.piece)[k])
      /\ \A i \in 0 .. ActualPieceLength(w.piece) - 1 :
           \E k \in 1 .. Len(PieceSpans(w.piece)) : Covers(PieceSpans(w.piece)[k], i)
  BY <1>1, Spans DEF LayoutFits
<1>4. /\ writing'.piece = w.piece /\ writing'.bytes = w.bytes
      /\ writing'.rest = PieceSpans(w.piece)
  BY <1>2
<1> QED  BY <1>1, <1>2, <1>3, <1>4 DEF WriteFits

(* A span written leaves a write of the others, or the piece whole.            *)
LEMMA SpanWritten ==
  ASSUME LayoutFits, DiskFits, WritesFit, WriteSpan
  PROVE  /\ writing' = Idle \/ WriteFits(writing', present', files')
         /\ writing' = Idle => Whole(writing.piece, present', files')
         /\ writing' # Idle => writing'.piece = writing.piece
<1> DEFINE q == writing.piece  rest == writing.rest  L == Len(rest)
<1>1. /\ writing # Idle /\ Puts(Head(rest), Head(rest).length)
      /\ writing' = IF L = 1 THEN Idle ELSE [writing EXCEPT !.rest = Tail(@)]
  BY DEF WriteSpan
<1>2. /\ q \in Piece /\ rest \in Seq(Span) /\ rest # <<>>
      /\ writing = [piece |-> q, bytes |-> Truth(q), rest |-> rest]
      /\ \A k \in 1 .. L : Placed(q, rest[k])
      /\ \A i \in 0 .. ActualPieceLength(q) - 1 :
           (\E k \in 1 .. L : Covers(rest[k], i)) \/ Here(PieceStart(q) + i, present, files)
  BY <1>1 DEF WritesFit, WriteFits
<1>3. L \in Nat \ {0} /\ Head(rest) = rest[1]
  BY <1>1, NextSpan
<1>4. /\ BytesStay
      /\ \A i \in Nat : Covers(Head(rest), i) => Here(PieceStart(q) + i, present', files')
  <2>1. Head(rest).length \in 0 .. Head(rest).length
    BY <1>1, NextSpan DEF Placed, Span
  <2> QED  BY <1>1, <2>1, PartlyPut
<1>5. \A i \in 0 .. ActualPieceLength(q) - 1 :
        (\E k \in 2 .. L : Covers(rest[k], i)) \/ Here(PieceStart(q) + i, present', files')
  <2> SUFFICES ASSUME NEW i \in 0 .. ActualPieceLength(q) - 1,
                      ~ Here(PieceStart(q) + i, present', files')
               PROVE  \E k \in 2 .. L : Covers(rest[k], i)
    OBVIOUS
  <2>1. ~ Here(PieceStart(q) + i, present, files)
    BY <1>4, HereStays
  <2>2. PICK k \in 1 .. L : Covers(rest[k], i)
    BY <1>2, <2>1
  <2>3. i \in Nat
    BY <1>2, Pieces DEF LayoutFits
  <2>4. k # 1
    BY <1>3, <1>4, <2>2, <2>3
  <2>5. k \in 2 .. L
    BY <1>3, <2>4
  <2> QED  BY <2>2, <2>5
<1> HIDE DEF q, rest, L
<1>6. CASE L = 1
  <2>1. writing' = Idle
    BY <1>1, <1>6
  <2>2. ASSUME NEW n \in PieceStart(q) .. PieceEnd(q) - 1  PROVE Here(n, present', files')
    <3> DEFINE i == n - PieceStart(q)
    <3>1. /\ PieceStart(q) \in Nat /\ PieceEnd(q) \in Nat
          /\ ActualPieceLength(q) = PieceEnd(q) - PieceStart(q)
      BY <1>2, Pieces DEF LayoutFits
    <3>2. i \in 0 .. ActualPieceLength(q) - 1 /\ PieceStart(q) + i = n
      BY <3>1
    <3> HIDE DEF i
    <3>3. ~ \E k \in 2 .. L : TRUE
      BY <1>6
    <3>4. Here(PieceStart(q) + i, present', files')
      BY <1>5, <3>2, <3>3
    <3> QED  BY <3>2, <3>4
  <2> QED  BY <2>1, <2>2 DEF Whole, q
<1>7. CASE L # 1
  <2>1. writing' = [piece |-> q, bytes |-> Truth(q), rest |-> Tail(rest)]
    <3>1. writing' = [writing EXCEPT !.rest = Tail(rest)]
      BY <1>1, <1>7 DEF rest
    <3> QED  BY <1>2, <3>1
  <2>2. writing'.piece = q /\ writing'.bytes = Truth(q) /\ writing'.rest = Tail(rest)
    BY <2>1
  <2>3. /\ Tail(rest) \in Seq(Span) /\ Len(Tail(rest)) = L - 1 /\ Tail(rest) # <<>>
        /\ \A k \in 1 .. L - 1 : Tail(rest)[k] = rest[k + 1]
    <3>1. /\ Tail(rest) \in Seq(Span) /\ Len(Tail(rest)) = Len(rest) - 1
          /\ \A k \in 1 .. Len(Tail(rest)) : Tail(rest)[k] = rest[k + 1]
      BY <1>2, HeadTailProperties
    <3>2. Len(rest) = L /\ L - 1 # 0
      BY <1>3, <1>7 DEF L
    <3>3. Len(Tail(rest)) = L - 1
      BY <3>1, <3>2
    <3>4. Len(<<>>) = 0
      OBVIOUS
    <3> QED  BY <3>1, <3>2, <3>3, <3>4
  <2>4. \A k \in 1 .. Len(Tail(rest)) : Placed(q, Tail(rest)[k])
    <3> SUFFICES ASSUME NEW k \in 1 .. Len(Tail(rest))  PROVE Placed(q, Tail(rest)[k])
      OBVIOUS
    <3>1. k + 1 \in 1 .. L /\ Tail(rest)[k] = rest[k + 1]
      BY <1>3, <2>3
    <3> QED  BY <1>2, <3>1
  <2>5. ASSUME NEW i \in 0 .. ActualPieceLength(q) - 1
        PROVE  \/ \E k \in 1 .. Len(Tail(rest)) : Covers(Tail(rest)[k], i)
               \/ Here(PieceStart(q) + i, present', files')
    <3>1. ASSUME NEW k \in 2 .. L, Covers(rest[k], i)
          PROVE  \E j \in 1 .. Len(Tail(rest)) : Covers(Tail(rest)[j], i)
      <4>1. k - 1 \in 1 .. L - 1 /\ (k - 1) + 1 = k
        BY <1>3
      <4>2. Tail(rest)[k - 1] = rest[k]
        BY <2>3, <4>1
      <4> QED  BY <2>3, <3>1, <4>1, <4>2
    <3> QED  BY <1>5, <3>1
  <2>6. WriteFits(writing', present', files')
    BY <1>2, <2>1, <2>2, <2>3, <2>4, <2>5 DEF WriteFits
  <2>7. writing' # Idle
    <3>1. q \in Nat
      BY <1>2, Pieces DEF LayoutFits
    <3>2. Idle.piece = -1
      BY DEF Idle
    <3> QED  BY <2>2, <3>1, <3>2
  <2> QED  BY <2>2, <2>6, <2>7 DEF q
<1> QED  BY <1>6, <1>7

LEMMA WritesStep ==
  ASSUME LayoutFits, DiskFits, WritesFit, [PayloadNext]_payloadVars
  PROVE  WritesFit'
<1>1. /\ Piece' = Piece /\ Span' = Span
      /\ \A p : Truth(p)' = Truth(p) /\ ActualPieceLength(p)' = ActualPieceLength(p)
      /\ \A p, s : Placed(p, s)' = Placed(p, s)
      /\ \A n, there, disk : Here(n, there, disk)' = Here(n, there, disk)
  BY LayoutKept, LayoutStays
<1>2. \A w \in queue' : w.piece \in Piece /\ w.bytes = Truth(w.piece)
  BY QueueStep
<1>3. writing' # Idle => WriteFits(writing', present', files')
  <2>1. CASE \E w \in queue : BeginWrite(w)
    BY <2>1, WriteBegun
  <2>2. CASE WriteSpan
    BY <2>2, SpanWritten
  <2>3. CASE WriteFails
    BY <2>3 DEF WriteFails
  <2>4. CASE \E f \in File : Tamper(f)
    BY <2>4 DEF Tamper, DiskFits
  <2>5. CASE /\ ~ \E w \in queue : BeginWrite(w)
             /\ ~ WriteSpan /\ ~ WriteFails /\ ~ \E f \in File : Tamper(f)
    <3>1. writing' = writing \/ writing' = Idle
      BY <2>5 DEF PayloadNext, payloadVars, diskVars, Start, Crash, BlockReceived,
                  BlockAsked, OtherPieceVerified
    <3>2. BytesStay
      BY <2>5, DiskSteps
    <3>3. ASSUME writing # Idle  PROVE WriteFits(writing, present', files')
      <4>1. WriteFits(writing, present, files)
        BY <3>3 DEF WritesFit, WriteFits
      <4>2. \A n : Here(n, present, files) => Here(n, present', files')
        BY <3>2, HereStays
      <4> QED  BY <4>1, <4>2 DEF WriteFits
    <3> QED  BY <3>1, <3>3
  <2> QED  BY <2>1, <2>2, <2>3, <2>4, <2>5
<1> QED  BY <1>1, <1>2, <1>3 DEF WritesFit, WriteFits, PieceStart

LEMMA DoneStep ==
  ASSUME PayloadInv, [PayloadNext]_payloadVars
  PROVE  DoneIsOnDisk'
<1>1. LayoutFits /\ FetchFits /\ DiskFits /\ WritesFit
  BY DEF PayloadInv
<1>2. \A p \in have : \/ Whole(p, present, files) \/ p \in spoiled
                      \/ p = writing.piece \/ \E w \in queue : w.piece = p
  BY IntactIsWhole DEF PayloadInv, DoneIsOnDisk
<1>3. have \subseteq Piece /\ \A p \in Piece : p \in Nat
  BY <1>1, Pieces DEF DiskFits, LayoutFits
<1>4. SUFFICES \A p \in have' : \/ Whole(p, present', files') \/ p \in spoiled'
                                \/ p = writing'.piece \/ \E w \in queue' : w.piece = p
  <2>1. \A p : Intact(p)' <=> Whole(p, present', files')
    <3>1. \A p, there, disk : Whole(p, there, disk)' = Whole(p, there, disk)
      BY LayoutKept, LayoutStays
    <3>2. \A p : Intact(p)' <=> Whole(p, present, files)'
      BY Zenon DEF Intact, Whole, Here, InPlace
    <3> QED  BY <3>1, <3>2
  <2> QED  BY <1>4, <2>1 DEF DoneIsOnDisk
<1>5. BytesStay => \A p : Whole(p, present, files) => Whole(p, present', files')
  BY HereStays DEF Whole
<1>6. CASE Start
  BY <1>1, <1>6, Adopts
<1>7. CASE Crash
  BY <1>7 DEF Crash
<1>8. CASE \E f \in File : Tamper(f)
  BY <1>1, <1>8 DEF Tamper, DiskFits
<1>9. ASSUME NEW block \in GoodBlocks \cup WrongBlocks, BlockReceived(block)
      PROVE  \A p \in have' : \/ Whole(p, present', files') \/ p \in spoiled'
                              \/ p = writing'.piece \/ \E w \in queue' : w.piece = p
  <2> DEFINE copied == Copied(block, answer'.fresh)
  <2>1. /\ \/ have' = have /\ queue' = queue
           \/ /\ have' = have \cup {piece}
              /\ queue' = queue \cup {[piece |-> piece, bytes |-> copied]}
        /\ writing' = writing /\ present' = present /\ files' = files /\ spoiled' = spoiled
    BY <1>9 DEF BlockReceived
  <2> HIDE DEF copied
  <2>2. \A p \in have : \/ Whole(p, present', files') \/ p \in spoiled'
                         \/ p = writing'.piece \/ \E w \in queue' : w.piece = p
    BY <1>2, <2>1
  <2>3. ASSUME have' # have  PROVE \E w \in queue' : w.piece = piece
    <3> DEFINE v == [piece |-> piece, bytes |-> copied]
    <3>1. v.piece = piece /\ v \in queue'
      BY <2>1, <2>3
    <3> QED  BY <3>1
  <2> QED  BY <2>1, <2>2, <2>3
<1>10. ASSUME NEW q \in Piece, OtherPieceVerified(q)
       PROVE  \A p \in have' : \/ Whole(p, present', files') \/ p \in spoiled'
                               \/ p = writing'.piece \/ \E w \in queue' : w.piece = p
  <2>1. /\ have' = have \cup {q}
        /\ queue' = queue \cup {[piece |-> q, bytes |-> Truth(q)]}
        /\ writing' = writing /\ present' = present /\ files' = files /\ spoiled' = spoiled
    BY <1>10 DEF OtherPieceVerified
  <2>2. \A p \in have : \/ Whole(p, present', files') \/ p \in spoiled'
                         \/ p = writing'.piece \/ \E w \in queue' : w.piece = p
    BY <1>2, <2>1
  <2>3. \E w \in queue' : w.piece = q
    <3> DEFINE v == [piece |-> q, bytes |-> Truth(q)]
    <3>1. v.piece = q /\ v \in queue'
      BY <2>1
    <3> QED  BY <3>1
  <2> QED  BY <2>1, <2>2, <2>3
<1>11. ASSUME NEW v \in queue, BeginWrite(v)
       PROVE  \A p \in have' : \/ Whole(p, present', files') \/ p \in spoiled'
                               \/ p = writing'.piece \/ \E w \in queue' : w.piece = p
  <2>1. /\ queue' = queue \ {v} /\ writing = Idle
        /\ have' = have /\ present' = present /\ files' = files /\ spoiled' = spoiled
    BY <1>11 DEF BeginWrite
  <2>2. writing'.piece = v.piece
    BY <1>1, <1>11, WriteBegun
  <2>3. \A p \in have : p # writing.piece
    BY <1>3, <2>1 DEF Idle
  <2> QED  BY <1>2, <2>1, <2>2, <2>3
<1>12. CASE WriteSpan
  <2>1. have' = have /\ queue' = queue /\ spoiled' = spoiled
    BY <1>12 DEF WriteSpan
  <2>2. /\ writing' = Idle => Whole(writing.piece, present', files')
        /\ writing' # Idle => writing'.piece = writing.piece
    BY <1>1, <1>12, SpanWritten
  <2>3. BytesStay
    <3>1. up' = up /\ ~ \E f \in File : Tamper(f)
      BY <1>1, <1>12 DEF WriteSpan, Tamper, DiskFits
    <3> QED  BY <1>1, <3>1, DiskSteps
  <2> QED  BY <1>2, <1>5, <2>1, <2>2, <2>3
<1>13. CASE WriteFails
  <2>1. have' = have /\ queue' = queue /\ spoiled' = spoiled \cup {writing.piece}
    BY <1>13 DEF WriteFails
  <2>2. BytesStay
    <3>1. ~ \E f \in File : Tamper(f)
      BY <1>1, <1>13 DEF WriteFails, Tamper, DiskFits
    <3> QED  BY <1>1, <3>1, DiskSteps
  <2> QED  BY <1>2, <1>5, <2>1, <2>2
<1>14. CASE BlockAsked
  BY <1>2, <1>14 DEF BlockAsked, diskVars
<1>15. CASE UNCHANGED payloadVars
  BY <1>2, <1>15 DEF payloadVars, diskVars
<1> QED
  BY <1>6, <1>7, <1>8, <1>9, <1>10, <1>11, <1>12, <1>13, <1>14, <1>15 DEF PayloadNext

LEMMA PayloadNextInv == PayloadInv /\ [PayloadNext]_payloadVars => PayloadInv'
<1> SUFFICES ASSUME PayloadInv, [PayloadNext]_payloadVars  PROVE PayloadInv'
  OBVIOUS
<1>1. IInv /\ LayoutFits /\ FetchFits /\ DiskFits /\ WritesFit
  BY DEF PayloadInv
<1>2. IInv'
  BY <1>1, TracksPiece, NextIInv
<1>3. LayoutFits'
  <2>1. /\ lengths' = lengths /\ piece' = piece /\ Piece' = Piece
        /\ ActualPieceLength(piece)' = ActualPieceLength(piece)
    BY LayoutKept, LayoutStays
  <2> QED  BY <1>1, <2>1 DEF LayoutFits, BlocksOf
<1>4. FetchFits' /\ DiskFits' /\ WritesFit' /\ DoneIsOnDisk'
  BY <1>1, <1>2, FetchStep, DiskStep, WritesStep, DoneStep
<1> QED  BY <1>2, <1>3, <1>4 DEF PayloadInv

(* The bookkeeping of the followed piece is that of PieceProgress all along,   *)
(* so what is proved of it holds: it implements the abstract tracker, and the  *)
(* cursor passes nothing free.                                                *)
THEOREM PayloadImplements == PayloadSpec => Spec /\ ImplementsTracker
<1>1. PayloadInit => Init
  BY DEF PayloadInit
<1>2. PayloadInv /\ [PayloadNext]_payloadVars => [Next]_vars
  BY TracksPiece DEF PayloadInv
<1> QED
  BY <1>1, <1>2, PayloadInitInv, PayloadNextInv, Implements, PTL DEF PayloadSpec, Spec

(* A piece counted as done is on disk byte for byte, queued, being written, or *)
(* its write failed, in every layout and whatever blocks arrive; and no block  *)
(* of the followed piece is lost to the cursor.                               *)
THEOREM PayloadSafe == PayloadSpec => [](DoneIsOnDisk /\ CursorPassesNothingFree)
<1>1. PayloadInv => DoneIsOnDisk /\ CursorPassesNothingFree
  BY DEF PayloadInv, IInv
<1> QED
  BY <1>1, PayloadInitInv, PayloadNextInv, PTL DEF PayloadSpec

(* No session, crash, failed allocation or torn write moves or changes a byte  *)
(* that has reached its place.                                                *)
THEOREM PayloadKeepsBytes == PayloadSpec => KeepsBytes
<1>1. ASSUME PayloadInv, [PayloadNext]_payloadVars
      PROVE  [up \/ up' =>
                \A f \in present : \A i \in DOMAIN files[f] :
                  (i < lengths[f] /\ InPlace(f, i)) =>
                    /\ f \in present'
                    /\ i \in DOMAIN files'[f]
                    /\ files'[f][i] = files[f][i]]_payloadVars
  <2>1. (\E f \in File : Tamper(f)) => ~ up /\ ~ up'
    BY DEF Tamper
  <2>2. BytesStay \/ \E f \in File : Tamper(f)
    BY <1>1, DiskSteps DEF PayloadInv
  <2> QED  BY <2>1, <2>2 DEF BytesStay
<1> QED
  BY <1>1, PayloadInitInv, PayloadNextInv, PTL DEF PayloadSpec, KeepsBytes

(* A restart adopts exactly the pieces that are whole on disk.                 *)
THEOREM PayloadAdopts == PayloadSpec => AdoptsTheIntact
<1>1. ASSUME PayloadInv, [PayloadNext]_payloadVars
      PROVE  [~ up /\ up' => have' = {p \in Piece : Intact(p)'}]_payloadVars
  <2> SUFFICES ASSUME ~ up, up'  PROVE have' = {p \in Piece : Intact(p)'}
    OBVIOUS
  <2>1. Start
    BY <1>1 DEF PayloadNext, payloadVars, Crash, Tamper, BlockReceived, BlockAsked,
                OtherPieceVerified, BeginWrite, WriteSpan, WriteFails
  <2>2. have' = {p \in Piece : Whole(p, present', files')}
    BY <1>1, <2>1, Adopts DEF PayloadInv
  <2>3. \A p : Intact(p)' <=> Whole(p, present', files')
    <3>1. \A p, there, disk : Whole(p, there, disk)' = Whole(p, there, disk)
      BY <1>1, LayoutKept, LayoutStays
    <3>2. \A p : Intact(p)' <=> Whole(p, present, files)'
      BY Zenon DEF Intact, Whole, Here, InPlace
    <3> QED  BY <3>1, <3>2
  <2> QED  BY <2>2, <2>3
<1> QED
  BY <1>1, PayloadInitInv, PayloadNextInv, PTL DEF PayloadSpec, AdoptsTheIntact

(* A piece passes its hash check once all its blocks have come, if no wrong     *)
(* one was among those accepted.                                              *)
THEOREM PayloadFails == PayloadSpec => OnlyWrongBlocksFail
<1>1. ASSUME PayloadInv, PayloadInv', [PayloadNext]_payloadVars
      PROVE  [following /\ ~ following' /\ up' /\ sound' => piece \in have']_payloadVars
  <2> SUFFICES ASSUME following, ~ following', up', sound'  PROVE piece \in have'
    OBVIOUS
  <2>1. ~ Crash /\ following' # following
    BY DEF Crash
  <2>2. PICK block \in GoodBlocks \cup WrongBlocks : BlockReceived(block)
    BY <1>1, <2>1, FetchKept
  <2> DEFINE copied == Copied(block, answer'.fresh)  T == ActualPieceLength(piece)
  <2>3. /\ following' = ~ answer'.complete
        /\ answer'.complete /\ Verify(piece, copied) => have' = have \cup {piece}
    BY <2>2 DEF BlockReceived
  <2>4. /\ copied \in [0 .. T - 1 -> Int]
        /\ answer'.complete \in BOOLEAN
        /\ answer'.complete <=> received_count' = NumBlocks
        /\ \A b \in Block : blocks_received'[b] =>
             \A i \in Stretch(b) : copied[i] = Truth(piece)[i]
    BY <1>1, <2>2, Arrival DEF PayloadInv
  <2>5. answer'.complete /\ received_count' = NumBlocks
    BY <2>3, <2>4
  <2>6. \A b \in Block : blocks_received'[b]
    <3>1. Cardinality(Received') = NumBlocks /\ Received' \subseteq Block
      BY <1>1, <2>5 DEF PayloadInv, IInv, CounterMatchesFlags, Received
    <3>2. Received' = Block
      BY <3>1, BlocksCount
    <3> QED  BY <3>2 DEF Received
  <2> HIDE DEF copied
  <2>7. copied = Truth(piece)
    <3>1. \A i \in 0 .. T - 1 : copied[i] = Truth(piece)[i]
      BY <1>1, <2>4, <2>6, BlocksTile DEF PayloadInv
    <3>2. Truth(piece) \in [0 .. T - 1 -> Int]
      BY <1>1, Truths DEF PayloadInv, LayoutFits
    <3> HIDE DEF T
    <3>3. copied = [i \in 0 .. T - 1 |-> copied[i]]
      BY <2>4
    <3>4. Truth(piece) = [i \in 0 .. T - 1 |-> Truth(piece)[i]]
      BY <3>2
    <3> QED  BY <3>1, <3>3, <3>4
  <2> QED  BY <2>3, <2>5, <2>7 DEF Verify, copied
<1> QED
  BY <1>1, PayloadInitInv, PayloadNextInv, PTL DEF PayloadSpec, OnlyWrongBlocksFail
=============================================================================
