---------------------------- MODULE Csum_proofs ----------------------------
(***************************************************************************)
(* For every byte base and every packet: the sums keep to their widths,    *)
(* four folds leave nothing to cut, and no swap, carry or fold changes the *)
(* number that is summed.                                                  *)
(***************************************************************************)
EXTENDS Csum, FiniteSetTheorems, WellFoundedInduction, TLAPS

\* Division with remainder (`>>` and `&`, csum.cpp:52, 66).
LEMMA DivMod ==
    ASSUME NEW v \in Nat, NEW d \in Nat, d >= 1
    PROVE  /\ v \div d \in Nat /\ v % d \in 0 .. d - 1
           /\ v = d * (v \div d) + (v % d)
  OBVIOUS

\* A quotient is bounded as its dividend is.
LEMMA DivBound ==
    ASSUME NEW v \in Nat, NEW d \in Nat, d >= 1, NEW m \in Nat, v < d * m
    PROVE  v \div d < m
<1>1. v \div d \in Nat /\ v = d * (v \div d) + (v % d) /\ v % d \in 0 .. d - 1
  BY DivMod
<1> DEFINE h == v \div d
<1>2. CASE h >= m
  <2>1. PICK e \in Nat : h = m + e
    BY <1>1, <1>2
  <2>2. d * h = d * m + d * e
    BY <2>1
  <2>3. d * e \in Nat
    OBVIOUS
  <2> QED
    BY <1>1, <2>2, <2>3
<1> QED
  BY <1>1, <1>2

\* The widths are natural numbers.
LEMMA Widths ==
    /\ Byte \in Nat /\ Byte >= 2
    /\ M16 \in Nat /\ M16 >= 4 /\ M16 >= Byte
    /\ M32 \in Nat /\ M32 >= M16
    /\ M64 \in Nat /\ M64 >= M32
<1>1. \A x \in Nat : x >= 2 => x * x \in Nat /\ x * x >= 2 * x
  OBVIOUS
<1>2. M16 \in Nat /\ M16 >= 2 * Byte
  BY <1>1, ByteAssumption DEF M16
<1>3. M32 \in Nat /\ M32 >= 2 * M16
  BY <1>1, <1>2, ByteAssumption DEF M32
<1>4. M64 \in Nat /\ M64 >= 2 * M32
  BY <1>1, <1>2, <1>3, ByteAssumption DEF M64
<1> QED
  BY <1>2, <1>3, <1>4, ByteAssumption

-----------------------------------------------------------------------------
(* Same is a congruence.                                                   *)

\* A number is the same as itself.
LEMMA SameRefl == ASSUME NEW x \in Int PROVE Same(x, x)
<1>1. x - x = 0 * (M16 - 1)
  BY Widths
<1> QED
  BY <1>1 DEF Same

\* Sums of the same numbers are the same.
LEMMA SameAdd ==
    ASSUME NEW x \in Int, NEW y \in Int, NEW u \in Int, NEW v \in Int,
           Same(x, y), Same(u, v)
    PROVE  Same(x + u, y + v)
<1>1. PICK q \in Int : x - y = q * (M16 - 1)
  BY DEF Same
<1>2. PICK r \in Int : u - v = r * (M16 - 1)
  BY DEF Same
<1>3. (x + u) - (y + v) = (q + r) * (M16 - 1)
  BY <1>1, <1>2, Widths
<1> QED
  BY <1>3 DEF Same

\* Multiples of the same numbers are the same.
LEMMA SameMul ==
    ASSUME NEW x \in Int, NEW y \in Int, NEW k \in Int, Same(x, y)
    PROVE  Same(k * x, k * y)
<1>1. PICK q \in Int : x - y = q * (M16 - 1)
  BY DEF Same
<1> DEFINE w == M16 - 1
<1>2. w \in Int
  BY Widths
<1>3. (k * x) - (k * y) = (k * q) * w
  <2>1. (k * x) - (k * y) = k * (x - y)
    OBVIOUS
  <2>2. k * (q * w) = (k * q) * w
    BY <1>2
  <2> HIDE DEF w
  <2> QED
    BY <1>1, <2>1, <2>2 DEF w
<1>4. k * q \in Int
  OBVIOUS
<1> QED
  BY <1>3, <1>4 DEF Same

\* Same is symmetric and transitive.
LEMMA SameSym ==
    ASSUME NEW x \in Int, NEW y \in Int, Same(x, y) PROVE Same(y, x)
<1>1. PICK q \in Int : x - y = q * (M16 - 1)
  BY DEF Same
<1>2. y - x = (-q) * (M16 - 1)
  BY <1>1, Widths
<1> QED
  BY <1>2 DEF Same

LEMMA SameTrans ==
    ASSUME NEW x \in Int, NEW y \in Int, NEW z \in Int, Same(x, y), Same(y, z)
    PROVE  Same(x, z)
<1>1. PICK q \in Int : x - y = q * (M16 - 1)
  BY DEF Same
<1>2. PICK r \in Int : y - z = r * (M16 - 1)
  BY DEF Same
<1>3. x - z = (q + r) * (M16 - 1)
  BY <1>1, <1>2, Widths
<1> QED
  BY <1>3 DEF Same

\* A word does not count where it stands: M16, M32 and M64 are one.
LEMMA SameWide ==
    ASSUME NEW x \in Int
    PROVE  Same(M16 * x, x) /\ Same(M32 * x, x) /\ Same(M64 * x, x)
<1>1. \A y \in Int : Same(M16 * y, y)
  <2> SUFFICES ASSUME NEW y \in Int PROVE Same(M16 * y, y)
    OBVIOUS
  <2>1. M16 * y - y = y * (M16 - 1)
    BY Widths
  <2> QED
    BY <2>1 DEF Same
<1>2. \A y \in Int : Same(M32 * y, y)
  <2> SUFFICES ASSUME NEW y \in Int PROVE Same(M32 * y, y)
    OBVIOUS
  <2>1. M32 * y = M16 * (M16 * y) /\ M16 * y \in Int /\ M16 * (M16 * y) \in Int
    BY Widths DEF M32
  <2>2. Same(M16 * (M16 * y), M16 * y) /\ Same(M16 * y, y)
    BY <1>1, <2>1
  <2> QED
    BY <2>1, <2>2, SameTrans
<1>3. \A y \in Int : Same(M64 * y, y)
  <2> SUFFICES ASSUME NEW y \in Int PROVE Same(M64 * y, y)
    OBVIOUS
  <2>1. M64 * y = M32 * (M32 * y) /\ M32 * y \in Int /\ M32 * (M32 * y) \in Int
    BY Widths DEF M64
  <2>2. Same(M32 * (M32 * y), M32 * y) /\ Same(M32 * y, y)
    BY <1>2, <2>1
  <2> QED
    BY <2>1, <2>2, SameTrans
<1> QED
  BY <1>1, <1>2, <1>3

-----------------------------------------------------------------------------
(* Byte swaps keep to the width and multiply by Byte.                      *)

\* A number with a high and a low half of d values each keeps to d * d values.
LEMMA Halves ==
    ASSUME NEW d \in Nat, d >= 1, NEW x \in 0 .. d - 1, NEW y \in 0 .. d - 1
    PROVE  d * x + y \in 0 .. (d * d) - 1
<1>1. PICK e \in Nat : d = x + 1 + e
  <2>1. d - 1 - x \in Nat /\ d = x + 1 + (d - 1 - x)
    OBVIOUS
  <2> QED
    BY <2>1
<1>2. d * d = d * x + d + d * e
  BY <1>1
<1>3. d * e \in Nat /\ d * x \in Nat /\ d * d \in Nat
  OBVIOUS
<1> QED
  BY <1>2, <1>3

\* BSwap16.
LEMMA Swap16 ==
    ASSUME NEW v \in 0 .. M16 - 1
    PROVE  BSwap16(v) \in 0 .. M16 - 1 /\ Same(BSwap16(v), Byte * v)
<1> DEFINE h == v \div Byte  l == v % Byte
<1>1. v \in Nat /\ Byte \in Nat /\ Byte >= 1
  BY Widths
<1>2. h \in Nat /\ l \in 0 .. Byte - 1 /\ v = Byte * h + l
  BY <1>1, DivMod
<1>3. h < Byte
  BY <1>1, Widths, DivBound DEF M16
<1> HIDE DEF h, l
<1>4. Byte * l + h \in 0 .. M16 - 1
  BY <1>1, <1>2, <1>3, Halves DEF M16
<1>5. Byte * v - (Byte * l + h) = h * (M16 - 1)
  BY <1>1, <1>2 DEF M16
<1>6. Same(Byte * l + h, Byte * v)
  <2>1. Same(Byte * v, Byte * l + h)
    BY <1>2, <1>5 DEF Same
  <2> QED
    BY <1>1, <1>2, <2>1, SameSym
<1> QED
  BY <1>4, <1>6 DEF BSwap16, h, l

\* BSwap32.
LEMMA Swap32 ==
    ASSUME NEW v \in 0 .. M32 - 1
    PROVE  BSwap32(v) \in 0 .. M32 - 1 /\ Same(BSwap32(v), Byte * v)
<1> DEFINE h == v \div M16  l == v % M16
<1>1. v \in Nat /\ Byte \in Nat /\ M16 \in Nat /\ M16 >= 1
  BY Widths
<1>2. h \in Nat /\ l \in 0 .. M16 - 1 /\ v = M16 * h + l
  BY <1>1, DivMod
<1>3. h < M16
  BY <1>1, Widths, DivBound DEF M32
<1> HIDE DEF h, l
<1> DEFINE bh == BSwap16(h)  bl == BSwap16(l)
<1>4. /\ bh \in 0 .. M16 - 1 /\ bl \in 0 .. M16 - 1
      /\ Same(bh, Byte * h) /\ Same(bl, Byte * l)
  <2>1. h \in 0 .. M16 - 1
    BY <1>1, <1>2, <1>3
  <2> QED
    BY <1>2, <2>1, Swap16, Zenon
<1> HIDE DEF bh, bl
<1>5. M16 * bl + bh \in 0 .. M32 - 1
  BY <1>1, <1>4, Halves DEF M32
<1>6. Same(M16 * bl + bh, bl + bh)
  BY <1>1, <1>4, SameWide, SameRefl, SameAdd
<1>7. Same(bl + bh, Byte * l + Byte * h)
  BY <1>1, <1>2, <1>4, SameAdd
<1>8. Same(Byte * l + Byte * h, Byte * v)
  <2>1. Byte * v = Byte * l + M16 * (Byte * h)
    BY <1>1, <1>2
  <2>2. Same(M16 * (Byte * h), Byte * h)
    BY <1>1, <1>2, SameWide
  <2>3. Byte * h \in Int /\ M16 * (Byte * h) \in Int /\ Byte * l \in Int
    BY <1>1, <1>2
  <2>4. Same(Byte * h, M16 * (Byte * h))
    BY <2>2, <2>3, SameSym
  <2> QED
    BY <2>1, <2>3, <2>4, SameRefl, SameAdd
<1>9. Same(M16 * bl + bh, Byte * v)
  <2>1. /\ M16 * bl + bh \in Int /\ bl + bh \in Int
        /\ Byte * l + Byte * h \in Int /\ Byte * v \in Int
    BY <1>1, <1>2, <1>4
  <2>2. Same(M16 * bl + bh, Byte * l + Byte * h)
    BY <2>1, <1>6, <1>7, SameTrans
  <2> QED
    BY <2>1, <2>2, <1>8, SameTrans
<1> QED
  BY <1>5, <1>9 DEF BSwap32, bh, bl, h, l

\* BSwap64 (csum.cpp:27, 60).
LEMMA Swap64 ==
    ASSUME NEW v \in 0 .. M64 - 1
    PROVE  BSwap64(v) \in 0 .. M64 - 1 /\ Same(BSwap64(v), Byte * v)
<1> DEFINE h == v \div M32  l == v % M32
<1>1. v \in Nat /\ Byte \in Nat /\ M32 \in Nat /\ M32 >= 1
  BY Widths
<1>2. h \in Nat /\ l \in 0 .. M32 - 1 /\ v = M32 * h + l
  BY <1>1, DivMod
<1>3. h < M32
  BY <1>1, Widths, DivBound DEF M64
<1> HIDE DEF h, l
<1> DEFINE bh == BSwap32(h)  bl == BSwap32(l)
<1>4. /\ bh \in 0 .. M32 - 1 /\ bl \in 0 .. M32 - 1
      /\ Same(bh, Byte * h) /\ Same(bl, Byte * l)
  <2>1. h \in 0 .. M32 - 1
    BY <1>1, <1>2, <1>3
  <2> QED
    BY <1>2, <2>1, Swap32, Zenon
<1> HIDE DEF bh, bl
<1>5. M32 * bl + bh \in 0 .. M64 - 1
  BY <1>1, <1>4, Halves DEF M64
<1>6. Same(M32 * bl + bh, bl + bh)
  BY <1>1, <1>4, SameWide, SameRefl, SameAdd
<1>7. Same(bl + bh, Byte * l + Byte * h)
  BY <1>1, <1>2, <1>4, SameAdd
<1>8. Same(Byte * l + Byte * h, Byte * v)
  <2>1. Byte * v = Byte * l + M32 * (Byte * h)
    BY <1>1, <1>2
  <2>2. Same(M32 * (Byte * h), Byte * h)
    BY <1>1, <1>2, SameWide
  <2>3. Byte * h \in Int /\ M32 * (Byte * h) \in Int /\ Byte * l \in Int
    BY <1>1, <1>2
  <2>4. Same(Byte * h, M32 * (Byte * h))
    BY <2>2, <2>3, SameSym
  <2> QED
    BY <2>1, <2>3, <2>4, SameRefl, SameAdd
<1>9. Same(M32 * bl + bh, Byte * v)
  <2>1. /\ M32 * bl + bh \in Int /\ bl + bh \in Int
        /\ Byte * l + Byte * h \in Int /\ Byte * v \in Int
    BY <1>1, <1>2, <1>4
  <2>2. Same(M32 * bl + bh, Byte * l + Byte * h)
    BY <2>1, <1>6, <1>7, SameTrans
  <2> QED
    BY <2>1, <2>2, <1>8, SameTrans
<1> QED
  BY <1>5, <1>9 DEF BSwap64, bh, bl, h, l

-----------------------------------------------------------------------------
(* Loads, the carry of a return, and folds.                                *)

\* Two bytes, loaded little-endian (csum.cpp:18).
LEMMA Load16 ==
    ASSUME NEW b \in Seq(Bytes), NEW i \in 1 .. Len(b) - 1
    PROVE  /\ LoadU16(b, i) \in 0 .. M16 - 1 /\ GetBE16(b, i) \in 0 .. M16 - 1
           /\ Same(Byte * LoadU16(b, i), GetBE16(b, i))
<1> DEFINE x == b[i]  y == b[i + 1]
<1>1. x \in 0 .. Byte - 1 /\ y \in 0 .. Byte - 1 /\ Byte \in Nat /\ Byte >= 1
  BY Widths DEF Bytes
<1> HIDE DEF x, y
<1>2. Byte * y + x \in 0 .. M16 - 1 /\ Byte * x + y \in 0 .. M16 - 1
  BY <1>1, Halves DEF M16
<1>3. Byte * (x + Byte * y) - (Byte * x + y) = y * (M16 - 1)
  BY <1>1 DEF M16
<1>4. Same(Byte * (x + Byte * y), Byte * x + y)
  BY <1>1, <1>3 DEF Same
<1>5. x + Byte * y = Byte * y + x
  BY <1>1
<1> QED
  BY <1>2, <1>4, <1>5 DEF LoadU16, GetBE16, x, y

\* Four bytes (csum.cpp:12).
LEMMA Load32 ==
    ASSUME NEW b \in Seq(Bytes), NEW i \in 1 .. Len(b) - 3
    PROVE  /\ LoadU32(b, i) \in 0 .. M32 - 1
           /\ Same(Byte * LoadU32(b, i), GetBE16(b, i) + GetBE16(b, i + 2))
<1> DEFINE x == LoadU16(b, i)  y == LoadU16(b, i + 2)
           p == GetBE16(b, i)  q == GetBE16(b, i + 2)
<1>1. i \in 1 .. Len(b) - 1 /\ i + 2 \in 1 .. Len(b) - 1 /\ Len(b) \in Nat
  OBVIOUS
<1>2. /\ x \in 0 .. M16 - 1 /\ y \in 0 .. M16 - 1 /\ p \in Int /\ q \in Int
      /\ Same(Byte * x, p) /\ Same(Byte * y, q)
  BY <1>1, Load16, Widths
<1> HIDE DEF x, y, p, q
<1>3. M16 * y + x \in 0 .. M32 - 1
  BY <1>2, Widths, Halves DEF M32
<1>4. Byte * (x + M16 * y) = Byte * x + M16 * (Byte * y)
  BY <1>2, Widths
<1>5. Same(M16 * (Byte * y), q)
  <2>1. Byte * y \in Int /\ M16 * (Byte * y) \in Int
    BY <1>2, Widths
  <2> QED
    BY <1>2, <2>1, SameWide, SameTrans
<1>6. Byte * x \in Int /\ M16 * (Byte * y) \in Int /\ x + M16 * y = M16 * y + x
  BY <1>2, Widths
<1>7. Same(Byte * (x + M16 * y), p + q)
  BY <1>2, <1>4, <1>5, <1>6, SameAdd
<1> QED
  BY <1>3, <1>6, <1>7 DEF LoadU32, x, y, p, q

\* Eight bytes (csum.cpp:6).
LEMMA Load64 ==
    ASSUME NEW b \in Seq(Bytes), NEW i \in 1 .. Len(b) - 7
    PROVE  /\ LoadU64(b, i) \in 0 .. M64 - 1
           /\ Same(Byte * LoadU64(b, i),
                   GetBE16(b, i) + GetBE16(b, i + 2) + GetBE16(b, i + 4) + GetBE16(b, i + 6))
<1> DEFINE x == LoadU32(b, i)  y == LoadU32(b, i + 4)
           p == GetBE16(b, i) + GetBE16(b, i + 2)
           q == GetBE16(b, i + 4) + GetBE16(b, i + 6)
<1>1. /\ i \in 1 .. Len(b) - 3 /\ i + 4 \in 1 .. Len(b) - 3 /\ Len(b) \in Nat
      /\ (i + 4) + 2 = i + 6
      /\ \A n \in {i, i + 2, i + 4, i + 6} : n \in 1 .. Len(b) - 1
  OBVIOUS
<1>2. \A n \in {i, i + 2, i + 4, i + 6} : GetBE16(b, n) \in Int
  BY <1>1, Load16, Widths
<1>3. /\ x \in 0 .. M32 - 1 /\ y \in 0 .. M32 - 1
      /\ Same(Byte * x, p) /\ Same(Byte * y, q)
  BY <1>1, Load32, Widths
<1>4. /\ p \in Int /\ q \in Int
      /\ GetBE16(b, i) + GetBE16(b, i + 2) + GetBE16(b, i + 4) + GetBE16(b, i + 6) = p + q
  <2>1. PICK g0 \in Int, g2 \in Int, g4 \in Int, g6 \in Int :
          /\ g0 = GetBE16(b, i) /\ g2 = GetBE16(b, i + 2)
          /\ g4 = GetBE16(b, i + 4) /\ g6 = GetBE16(b, i + 6)
    <3>1. /\ GetBE16(b, i) \in Int /\ GetBE16(b, i + 2) \in Int
          /\ GetBE16(b, i + 4) \in Int /\ GetBE16(b, i + 6) \in Int
      BY <1>2
    <3> QED BY ONLY <3>1
  <2>2. p = g0 + g2 /\ q = g4 + g6
    BY <2>1
  <2>3. g0 + g2 \in Int /\ g4 + g6 \in Int /\ g0 + g2 + g4 + g6 = (g0 + g2) + (g4 + g6)
    BY ONLY g0 \in Int, g2 \in Int, g4 \in Int, g6 \in Int
  <2> HIDE DEF p, q
  <2> QED BY ONLY <2>1, <2>2, <2>3
<1> HIDE DEF x, y, p, q
<1>5. M32 * y + x \in 0 .. M64 - 1
  BY <1>3, Widths, Halves DEF M64
<1>6. Byte * (x + M32 * y) = Byte * x + M32 * (Byte * y)
  BY <1>3, Widths
<1>7. Same(M32 * (Byte * y), q)
  <2>1. Byte * y \in Int /\ M32 * (Byte * y) \in Int
    BY <1>3, Widths
  <2> QED
    BY <1>3, <1>4, <2>1, SameWide, SameTrans
<1>8. Byte * x \in Int /\ M32 * (Byte * y) \in Int /\ x + M32 * y = M32 * y + x
  BY <1>3, Widths
<1>9. Same(Byte * (x + M32 * y), p + q)
  BY <1>3, <1>4, <1>6, <1>7, <1>8, SameAdd
<1> QED
  BY <1>4, <1>5, <1>8, <1>9 DEF LoadU64, x, y

\* Bringing the carry of 64 bits back (csum.cpp:52-58).
LEMMA EndAroundSame ==
    ASSUME NEW a \in Nat, a < M64 * M64
    PROVE  EndAround(a) \in 0 .. M64 - 1 /\ Same(EndAround(a), a)
<1> DEFINE h == a \div M64  l == a % M64
<1>1. M64 \in Nat /\ M64 >= 1
  BY Widths
<1>2. h \in Nat /\ l \in 0 .. M64 - 1 /\ a = M64 * h + l
  BY <1>1, DivMod
<1>3. h < M64
  BY <1>1, DivBound
<1> HIDE DEF h, l
<1>4. Same(l + h, a)
  <2>1. M64 * h \in Int /\ Same(h, M64 * h)
    BY <1>1, <1>2, SameWide, SameSym
  <2>2. Same(h + l, M64 * h + l)
    BY <1>2, <2>1, SameRefl, SameAdd
  <2>3. l + h = h + l
    BY <1>2
  <2> QED
    BY <1>2, <2>2, <2>3
<1>5. Same(l + h - M64 + 1, l + h)
  <2>1. Same(M64 * 1, 1) /\ M64 * 1 = M64
    BY <1>1, SameWide
  <2>2. Same(1, M64)
    BY <1>1, <2>1, SameSym
  <2>3. Same((l + h - M64) + 1, (l + h - M64) + M64)
    <3>1. l + h - M64 \in Int /\ 1 \in Int /\ M64 \in Int
      BY <1>1, <1>2
    <3> QED
      BY <3>1, <2>2, SameRefl, SameAdd, Zenon
  <2>4. (l + h - M64) + M64 = l + h
    BY <1>1, <1>2
  <2> QED
    BY <2>3, <2>4
<1>6. Same(l + h - M64 + 1, a)
  <2>1. l + h - M64 + 1 \in Int /\ l + h \in Int
    BY <1>1, <1>2
  <2> QED
    BY <1>4, <1>5, <2>1, SameTrans
<1>7. CASE l + h >= M64
  BY <1>1, <1>2, <1>3, <1>6, <1>7 DEF EndAround, h, l
<1>8. CASE ~(l + h >= M64)
  BY <1>1, <1>2, <1>4, <1>8 DEF EndAround, h, l
<1> QED
  BY <1>7, <1>8

\* A fold keeps the number and shortens it (csum.cpp:66).
LEMMA FoldShortens ==
    ASSUME NEW v \in Nat, NEW k \in Nat, k >= 1, v <= M16 * k + M16 - 2
    PROVE  Fold(v) \in 0 .. k + M16 - 2 /\ Same(Fold(v), v)
<1> DEFINE h == v \div M16  l == v % M16
<1>1. M16 \in Nat /\ M16 >= 4 /\ M16 >= 1
  BY Widths
<1>2. h \in Nat /\ l \in 0 .. M16 - 1 /\ v = M16 * h + l
  BY <1>1, DivMod, Zenon
<1>3. h < k + 1
  <2>1. v < M16 * (k + 1)
    BY <1>1
  <2> QED
    BY <1>1, <2>1, DivBound
<1> HIDE DEF h, l
<1>4. h = k => l <= M16 - 2
  BY <1>1, <1>2
<1>5. h + l \in 0 .. k + M16 - 2
  BY <1>1, <1>2, <1>3, <1>4
<1>6. Same(h + l, v)
  <2>1. M16 * h \in Int /\ Same(h, M16 * h)
    BY <1>1, <1>2, SameWide, SameSym
  <2> QED
    BY <1>2, <2>1, SameRefl, SameAdd
<1> QED
  BY <1>5, <1>6 DEF Fold, h, l

-----------------------------------------------------------------------------
(* The invariant.                                                          *)

\* What is left of the sum after n folds is below this bound.
FoldBound(n) ==
    CASE n = 0 -> M64 [] n = 1 -> M16 * M32 + M16 - 1 [] n = 2 -> M32 + M16 - 1
      [] n = 3 -> M16 + M16 - 1 [] n = 4 -> M16

\* Lengths stay below the size of the address space.
LensOK ==
    /\ Len(packet) < M64
    /\ \A x \in 1 .. Len(bufs) : Len(bufs[x]) < M64

\* Each load adds less than M64, and there are fewer than M64 of them.
AcBounded == step = "sum" => ac <= pos * (M64 - 1)

Honest ==
    /\ step = "sum" => Same(Byte * ac, total)
    /\ step \in {"call", "fold"} => Same(sum, total)

CsumInv ==
    /\ CsumTypeOK /\ LensOK /\ AcBounded /\ Honest
    /\ job \in Jobs /\ (step = "enter" => bufs = <<>> /\ sum = 0 /\ total = 0 /\ packet = job.packet)
    /\ (step # "fold" /\ step # "done" => folds = 0)
    /\ sum < FoldBound(folds)

\* The bounds of the folds, one by one.
LEMMA FoldBounds ==
    /\ FoldBound(0) = M64 /\ FoldBound(1) = M16 * M32 + M16 - 1
    /\ FoldBound(2) = M32 + M16 - 1 /\ FoldBound(3) = M16 + M16 - 1
    /\ FoldBound(4) = M16
    /\ \A n \in 0 .. 4 : FoldBound(n) \in Nat /\ FoldBound(n) <= M64
<1>1. /\ FoldBound(0) = M64 /\ FoldBound(1) = M16 * M32 + M16 - 1
      /\ FoldBound(2) = M32 + M16 - 1 /\ FoldBound(3) = M16 + M16 - 1
      /\ FoldBound(4) = M16
  BY DEF FoldBound
<1>2. M16 \in Nat /\ M16 >= 4 /\ M32 \in Nat /\ M64 \in Nat /\ M64 >= M32
  BY Widths
<1>3. M32 >= 4 * M16
  BY <1>2 DEF M32
<1>4. M64 >= M16 * M32 + M32
  <2>1. PICK e \in Nat : M32 = M16 + 1 + e
    <3>1. M32 - M16 - 1 \in Nat /\ M32 = M16 + 1 + (M32 - M16 - 1)
      BY <1>2, <1>3
    <3> QED
      BY <3>1
  <2>2. M32 * M32 = M16 * M32 + M32 + e * M32
    BY <1>2, <2>1
  <2>3. e * M32 \in Nat /\ M16 * M32 \in Nat
    BY <1>2
  <2> QED
    BY <1>2, <2>2, <2>3 DEF M64
<1>5. M16 * M32 \in Nat
  BY <1>2
<1>6. \A n \in 0 .. 4 : n = 0 \/ n = 1 \/ n = 2 \/ n = 3 \/ n = 4
  OBVIOUS
<1> QED
  BY <1>1, <1>2, <1>3, <1>4, <1>5, <1>6

\* Every fold takes the sum below the next bound (csum.cpp:66-69).
LEMMA FoldStep ==
    ASSUME NEW n \in 0 .. 3, NEW v \in Nat, v < FoldBound(n)
    PROVE  Fold(v) \in Nat /\ Fold(v) < FoldBound(n + 1) /\ Same(Fold(v), v)
<1>1. M16 \in Nat /\ M16 >= 4 /\ M32 \in Nat /\ M32 >= 1 /\ M16 * M32 \in Nat
  BY Widths
<1>2. M64 = M16 * (M16 * M32) /\ M32 = M16 * M16
  BY <1>1 DEF M64, M32
<1>3. M16 * M32 >= 1
  BY <1>1
<1> DEFINE k == CASE n = 0 -> M16 * M32 [] n = 1 -> M32 [] n = 2 -> M16 [] n = 3 -> 1
<1>4. /\ k \in Nat /\ k >= 1 /\ v <= M16 * k + M16 - 2
      /\ k + M16 - 2 < FoldBound(n + 1)
  <2>1. CASE n = 0
    <3>1. k = M16 * M32 /\ FoldBound(0) = M16 * (M16 * M32) /\ n + 1 = 1
      BY <1>2, <2>1, FoldBounds
    <3>2. FoldBound(n + 1) = k + M16 - 1 /\ v < M16 * k
      BY <2>1, <3>1, FoldBounds
    <3>3. k \in Nat /\ k >= 1 /\ M16 * k \in Nat
      BY <1>1, <1>3, <3>1
    <3> HIDE DEF k
    <3> QED
      BY <1>1, <3>2, <3>3
  <2>2. CASE n = 1
    BY <1>1, <1>2, <1>3, <2>2, FoldBounds
  <2>3. CASE n = 2
    BY <1>1, <1>2, <1>3, <2>3, FoldBounds
  <2>4. CASE n = 3
    BY <1>1, <1>2, <1>3, <2>4, FoldBounds
  <2> QED
    BY <2>1, <2>2, <2>3, <2>4
<1> HIDE DEF k
<1>5. Fold(v) \in 0 .. k + M16 - 2 /\ Same(Fold(v), v)
  BY <1>4, FoldShortens
<1>6. FoldBound(n + 1) \in Nat
  BY FoldBounds
<1> QED
  BY <1>1, <1>4, <1>5, <1>6

\* putBE16 writes two bytes.
LEMMA PutTyped ==
    ASSUME NEW b \in Seq(Bytes), NEW i \in 1 .. Len(b) - 1, NEW v \in 0 .. M16 - 1
    PROVE  PutBE16(b, i, v) \in Seq(Bytes) /\ Len(PutBE16(b, i, v)) = Len(b)
<1>1. v \in Nat /\ Byte \in Nat /\ Byte >= 1
  BY Widths
<1>2. v \div Byte \in Bytes /\ v % Byte \in Bytes
  <2>1. v \div Byte < Byte
    BY <1>1, Widths, DivBound DEF M16
  <2>2. v \div Byte \in Nat /\ v % Byte \in 0 .. Byte - 1
    BY <1>1, DivMod
  <2> QED
    BY <1>1, <2>1, <2>2 DEF Bytes
<1> QED
  BY <1>2 DEF PutBE16

\* Every job starts with the invariant.
LEMMA CsumInitInv == CsumInit => CsumInv
<1> SUFFICES ASSUME CsumInit PROVE CsumInv
  OBVIOUS
<1>1. /\ job \in Jobs /\ packet = job.packet /\ bufs = <<>> /\ pos = 1 /\ ac = 0
      /\ sum = 0 /\ folds = 0 /\ total = 0 /\ step = "enter"
  BY DEF CsumInit
<1>2. packet \in Seq(Bytes) /\ Len(packet) < M64
  BY <1>1, JobsAssumption
<1>3. CsumTypeOK
  BY <1>1, <1>2, Widths DEF CsumTypeOK, Folds
<1>4. LensOK /\ AcBounded /\ Honest
  BY <1>1, <1>2 DEF LensOK, AcBounded, Honest
<1>5. sum < FoldBound(folds)
  BY <1>1, FoldBounds, Widths
<1> QED
  BY <1>1, <1>3, <1>4, <1>5 DEF CsumInv

\* The buffer that is being summed.
LEMMA BufTyped ==
    ASSUME CsumInv, step = "sum"
    PROVE  /\ Buf \in Seq(Bytes) /\ Len(Buf) \in Nat /\ Len(Buf) < M64
           /\ pos \in Nat /\ pos >= 1 /\ pos <= Len(Buf) + 1
           /\ ac \in Nat /\ total \in Nat /\ Same(Byte * ac, total)
           /\ ac <= pos * (M64 - 1)
<1>1. bufs \in Seq(Seq(Bytes)) /\ bufs # <<>>
  BY DEF CsumInv, CsumTypeOK
<1>2. Buf = bufs[1] /\ 1 \in 1 .. Len(bufs)
  BY <1>1 DEF Buf
<1> QED
  BY <1>1, <1>2 DEF CsumInv, CsumTypeOK, LensOK, AcBounded, Honest

\* A load of n bytes keeps the invariant if it counts for what it is.
LEMMA LoadKeeps ==
    ASSUME CsumInv, step = "sum", NEW n \in 1 .. 8, NEW word \in 0 .. M64 - 1,
           NEW words \in Nat, Same(Byte * word, words), Left >= n,
           Loaded(n, word, words)
    PROVE  CsumInv'
<1>1. /\ Buf \in Seq(Bytes) /\ Len(Buf) \in Nat /\ Len(Buf) < M64
      /\ pos \in Nat /\ pos >= 1 /\ pos <= Len(Buf) + 1
      /\ ac \in Nat /\ total \in Nat /\ Same(Byte * ac, total)
      /\ ac <= pos * (M64 - 1)
  BY BufTyped
<1>2. /\ ac' = ac + word /\ pos' = pos + n /\ total' = total + words
      /\ UNCHANGED <<job, packet, bufs, sum, folds, step>>
  BY DEF Loaded
<1>3. Byte \in Nat /\ M64 \in Nat /\ M64 >= 1
  BY Widths
<1>4. pos' <= Len(Buf)' + 1 /\ pos' \in Nat \ {0} /\ ac' \in Nat /\ total' \in Nat
  BY <1>1, <1>2, <1>3 DEF Left, Buf
<1>5. CsumTypeOK'
  BY <1>2, <1>4 DEF CsumInv, CsumTypeOK
<1>6. LensOK'
  BY <1>2 DEF CsumInv, LensOK
<1>7. AcBounded'
  <2> DEFINE m == M64 - 1
  <2>1. m \in Nat /\ word <= m
    BY <1>3
  <2>2. (pos + n) * m = pos * m + n * m
    BY <1>1, <2>1
  <2>3. n * m >= m
    BY <2>1
  <2>4. pos * m \in Nat /\ n * m \in Nat
    BY <1>1, <2>1
  <2> HIDE DEF m
  <2>5. ac + word <= (pos + n) * m
    <3>1. ac <= pos * m
      BY <1>1 DEF m
    <3> QED
      BY <1>1, <2>1, <2>2, <2>3, <2>4, <3>1
  <2> QED
    BY <1>2, <2>5 DEF AcBounded, m
<1>8. Honest'
  <2>1. Byte * (ac + word) = Byte * ac + Byte * word
    BY <1>1, <1>3
  <2>2. Byte * ac \in Int /\ Byte * word \in Int
    BY <1>1, <1>3
  <2>3. Same(Byte * (ac + word), total + words)
    BY <1>1, <2>1, <2>2, SameAdd
  <2> QED
    BY <1>1, <1>2, <2>3 DEF Honest
<1>9. (sum < FoldBound(folds))'
  BY <1>2 DEF CsumInv, FoldBound
<1> QED
  BY <1>2, <1>5, <1>6, <1>7, <1>8, <1>9 DEF CsumInv

\* Every load takes the bytes it says, in their places.
LEMMA LoadsKeep ==
    ASSUME CsumInv, Add8 \/ Add4 \/ Add2 \/ Add1
    PROVE  CsumInv'
<1>1. step = "sum"
  BY DEF Add8, Add4, Add2, Add1
<1>2. /\ Buf \in Seq(Bytes) /\ Len(Buf) \in Nat
      /\ pos \in Nat /\ pos >= 1 /\ pos <= Len(Buf) + 1
  BY <1>1, BufTyped
<1>3. /\ Byte \in Nat /\ M16 \in Nat /\ M32 \in Nat /\ M64 \in Nat
      /\ M16 >= Byte /\ M32 >= M16 /\ M64 >= M32
  BY Widths
<1>4. \A i \in 1 .. Len(Buf) - 1 : GetBE16(Buf, i) \in Nat
  BY <1>2, <1>3, Load16
<1>5. CASE Add8
  <2>1. Left >= 8 /\ pos \in 1 .. Len(Buf) - 7
    BY <1>2, <1>5 DEF Add8, Left
  <2>2. \A i \in {pos, pos + 2, pos + 4, pos + 6} : i \in 1 .. Len(Buf) - 1
    BY <1>2, <2>1
  <2>3. \A i \in {pos, pos + 2, pos + 4, pos + 6} : GetBE16(Buf, i) \in Nat
    BY <1>4, <2>2
  <2>4. GetBE16(Buf, pos) + GetBE16(Buf, pos + 2) + GetBE16(Buf, pos + 4)
          + GetBE16(Buf, pos + 6) \in Nat
    BY <2>3
  <2> QED
    BY <1>1, <1>2, <1>5, <2>1, <2>4, Load64, LoadKeeps DEF Add8
<1>6. CASE Add4
  <2>1. Left >= 4 /\ pos \in 1 .. Len(Buf) - 3
    BY <1>2, <1>6 DEF Add4, Left
  <2>2. \A i \in {pos, pos + 2} : i \in 1 .. Len(Buf) - 1
    BY <1>2, <2>1
  <2>3. GetBE16(Buf, pos) + GetBE16(Buf, pos + 2) \in Nat
    BY <1>4, <2>2
  <2>4. /\ LoadU32(Buf, pos) \in 0 .. M64 - 1
        /\ Same(Byte * LoadU32(Buf, pos), GetBE16(Buf, pos) + GetBE16(Buf, pos + 2))
    BY <1>2, <1>3, <2>1, Load32
  <2> QED
    BY <1>1, <1>6, <2>1, <2>3, <2>4, LoadKeeps DEF Add4
<1>7. CASE Add2
  <2>1. Left >= 2 /\ pos \in 1 .. Len(Buf) - 1
    BY <1>2, <1>7 DEF Add2, Left
  <2>2. /\ LoadU16(Buf, pos) \in 0 .. M64 - 1 /\ GetBE16(Buf, pos) \in Nat
        /\ Same(Byte * LoadU16(Buf, pos), GetBE16(Buf, pos))
    BY <1>2, <1>3, <1>4, <2>1, Load16
  <2> QED
    BY <1>1, <1>7, <2>1, <2>2, LoadKeeps DEF Add2
<1>8. CASE Add1
  <2>1. Left >= 1 /\ pos \in 1 .. Len(Buf)
    BY <1>2, <1>8 DEF Add1, Left
  <2>2. Buf[pos] \in 0 .. Byte - 1
    <3>1. Buf[pos] \in Bytes
      BY <1>2, <2>1
    <3> QED
      BY <3>1 DEF Bytes
  <2>3. /\ OddTail(Buf, pos) \in 0 .. M64 - 1 /\ Byte * Buf[pos] \in Nat
        /\ Same(Byte * OddTail(Buf, pos), Byte * Buf[pos])
    BY <1>3, <2>2, SameRefl DEF OddTail
  <2> QED
    BY <1>1, <1>8, <2>1, <2>3, LoadKeeps DEF Add1
<1> QED
  BY <1>5, <1>6, <1>7, <1>8

\* The field is zeroed, and the sum starts from nothing or from what was parked.
LEMMA EnterKeeps ==
    ASSUME CsumInv, EnterParked \/ EnterSplit
    PROVE  CsumInv'
<1>1. /\ step = "enter" /\ job \in Jobs /\ packet = job.packet /\ sum = 0 /\ total = 0
      /\ folds = 0 /\ pos \in Nat \ {0} /\ ac \in Nat
  BY DEF EnterParked, EnterSplit, CsumInv, CsumTypeOK
<1>2. /\ job.pseudo \in Seq(Seq(Bytes)) /\ packet \in Seq(Bytes)
      /\ job.field \in 1 .. Len(packet) - 1 /\ Len(packet) < M64
      /\ \A x \in 1 .. Len(job.pseudo) : Len(job.pseudo[x]) < M64
  BY <1>1, JobsAssumption
<1>3. 0 \in 0 .. M16 - 1
  BY Widths
<1>4. FieldZeroed \in Seq(Bytes) /\ Len(FieldZeroed) = Len(packet)
  BY <1>2, <1>3, PutTyped DEF FieldZeroed
<1>5. /\ packet' = FieldZeroed /\ step' = "call"
      /\ UNCHANGED <<job, pos, ac, folds>>
  BY DEF EnterParked, EnterSplit
<1>6. /\ bufs' \in Seq(Seq(Bytes)) /\ bufs' # <<>>
      /\ \A x \in 1 .. Len(bufs') : Len(bufs'[x]) < M64
  <2>1. CASE EnterParked
    BY <1>2, <1>4, <1>5, <2>1 DEF EnterParked
  <2>2. CASE EnterSplit
    <3>1. bufs' = Append(job.pseudo, FieldZeroed)
      BY <1>5, <2>2 DEF EnterSplit
    <3>2. \A x \in 1 .. Len(bufs') :
            bufs'[x] = FieldZeroed \/ (x \in 1 .. Len(job.pseudo) /\ bufs'[x] = job.pseudo[x])
      BY <1>2, <1>4, <3>1
    <3>3. \A x \in 1 .. Len(bufs') : Len(bufs'[x]) < M64
      BY <1>2, <1>4, <3>2
    <3>4. bufs' \in Seq(Seq(Bytes)) /\ bufs' # <<>>
      BY <1>2, <1>4, <3>1
    <3> QED
      BY <3>3, <3>4
  <2> QED
    BY <2>1, <2>2
<1>7. sum' \in 0 .. M16 - 1 /\ total' = sum' /\ sum' \in Nat
  <2>1. CASE EnterParked
    BY <1>2, <2>1, Load16 DEF EnterParked
  <2>2. CASE EnterSplit
    BY <1>1, <1>3, <2>2 DEF EnterSplit
  <2> QED
    BY <2>1, <2>2, Widths
<1>8. sum' \in 0 .. M64 - 1 /\ sum' < FoldBound(0)
  BY <1>7, Widths, FoldBounds
<1>9. CsumTypeOK'
  BY <1>1, <1>2, <1>4, <1>5, <1>6, <1>7, <1>8 DEF CsumTypeOK, Folds
<1>10. LensOK' /\ AcBounded'
  BY <1>2, <1>4, <1>5, <1>6 DEF LensOK, AcBounded
<1>11. Honest'
  BY <1>5, <1>7, SameRefl DEF Honest
<1>12. (sum < FoldBound(folds))'
  BY <1>1, <1>5, <1>8 DEF FoldBound
<1> QED
  BY <1>1, <1>5, <1>9, <1>10, <1>11, <1>12 DEF CsumInv

\* The sum so far, swapped, is where the next buffer starts (csum.cpp:27).
LEMMA CallKeeps ==
    ASSUME CsumInv, Call
    PROVE  CsumInv'
<1>1. /\ step = "call" /\ ac' = BSwap64(sum) /\ pos' = 1 /\ step' = "sum"
      /\ UNCHANGED <<job, packet, bufs, sum, folds, total>>
  BY DEF Call
<1>2. /\ sum \in 0 .. M64 - 1 /\ total \in Nat /\ Same(sum, total) /\ folds = 0
      /\ bufs \in Seq(Seq(Bytes)) /\ bufs # <<>>
  BY <1>1 DEF CsumInv, CsumTypeOK, Honest
<1>3. ac' \in 0 .. M64 - 1 /\ Same(ac', Byte * sum)
  BY <1>1, <1>2, Swap64
<1>4. M64 \in Nat /\ Byte \in Nat /\ M16 \in Nat
  BY Widths
<1>5. Len(Buf)' \in Nat
  BY <1>1, <1>2 DEF Buf
<1>6. CsumTypeOK'
  BY <1>1, <1>3, <1>4, <1>5 DEF CsumInv, CsumTypeOK
<1>7. LensOK' /\ AcBounded'
  BY <1>1, <1>3, <1>4 DEF CsumInv, LensOK, AcBounded
<1>8. Honest'
  <2>1. Same(Byte * ac', Byte * (Byte * sum))
    <3>1. Byte * sum \in Int /\ ac' \in Int /\ Byte \in Int
      BY <1>2, <1>3, <1>4
    <3> QED
      BY <1>3, <3>1, SameMul
  <2>2. Byte * (Byte * sum) = M16 * sum
    BY <1>2, <1>4 DEF M16
  <2>3. Same(M16 * sum, sum)
    BY <1>2, SameWide
  <2>4. Byte * ac' \in Int /\ M16 * sum \in Int
    BY <1>2, <1>3, <1>4
  <2>5. Same(Byte * ac', sum)
    BY <1>2, <2>1, <2>2, <2>3, <2>4, SameTrans
  <2>6. Same(Byte * ac', total)
    BY <1>2, <2>4, <2>5, SameTrans
  <2> QED
    BY <1>1, <2>6 DEF Honest
<1>9. (sum < FoldBound(folds))'
  BY <1>1 DEF CsumInv, FoldBound
<1> QED
  BY <1>1, <1>2, <1>6, <1>7, <1>8, <1>9 DEF CsumInv

\* The accumulator is cut to 64 bits and swapped back (csum.cpp:52-60).
LEMMA ReturnKeeps ==
    ASSUME CsumInv, Return
    PROVE  CsumInv'
<1>1. /\ step = "sum" /\ Left = 0 /\ sum' = BSwap64(EndAround(ac)) /\ bufs' = Tail(bufs)
      /\ step' = IF bufs' = <<>> THEN "fold" ELSE "call"
      /\ UNCHANGED <<job, packet, pos, ac, folds, total>>
  BY DEF Return
<1>2. /\ Len(Buf) \in Nat /\ Len(Buf) < M64
      /\ pos \in Nat /\ pos >= 1 /\ pos <= Len(Buf) + 1
      /\ ac \in Nat /\ total \in Nat /\ Same(Byte * ac, total)
      /\ ac <= pos * (M64 - 1)
  BY <1>1, BufTyped
<1>3. M64 \in Nat /\ M64 >= 4 /\ Byte \in Nat
  BY Widths
<1>4. ac < M64 * M64
  <2> DEFINE m == M64 - 1
  <2>1. m \in Nat /\ pos <= M64 /\ M64 = m + 1
    BY <1>2, <1>3
  <2>2. PICK e \in Nat : M64 = pos + e
    <3>1. M64 - pos \in Nat /\ M64 = pos + (M64 - pos)
      BY <1>2, <1>3, <2>1
    <3> QED
      BY <3>1
  <2> HIDE DEF m
  <2>3. M64 * M64 = M64 * m + M64 /\ M64 * m = pos * m + e * m
    BY <1>2, <1>3, <2>1, <2>2
  <2>4. e * m \in Nat /\ pos * m \in Nat /\ ac <= pos * m
    BY <1>2, <2>1, <2>2 DEF m
  <2> QED
    BY <1>2, <1>3, <2>3, <2>4
<1> DEFINE r == EndAround(ac)
<1>5. r \in 0 .. M64 - 1 /\ Same(r, ac)
  BY <1>2, <1>4, EndAroundSame
<1> HIDE DEF r
<1>6. sum' \in 0 .. M64 - 1 /\ Same(sum', Byte * r)
  BY <1>1, <1>5, Swap64 DEF r
<1>7. Same(sum', total)
  <2>1. Same(Byte * r, Byte * ac)
    BY <1>2, <1>3, <1>5, SameMul
  <2>2. Byte * r \in Int /\ Byte * ac \in Int /\ sum' \in Int
    BY <1>2, <1>3, <1>5, <1>6
  <2>3. Same(sum', Byte * ac)
    BY <1>6, <2>1, <2>2, SameTrans
  <2> QED
    BY <1>2, <2>2, <2>3, SameTrans
<1>8. /\ bufs \in Seq(Seq(Bytes)) /\ bufs # <<>> /\ folds = 0
      /\ \A x \in 1 .. Len(bufs) : Len(bufs[x]) < M64
  BY <1>1 DEF CsumInv, CsumTypeOK, LensOK
<1>9. /\ bufs' \in Seq(Seq(Bytes))
      /\ \A x \in 1 .. Len(bufs') : Len(bufs'[x]) < M64
  BY <1>1, <1>8
<1>10. CsumTypeOK'
  BY <1>1, <1>6, <1>9 DEF CsumInv, CsumTypeOK
<1>11. LensOK' /\ AcBounded'
  BY <1>1, <1>9 DEF CsumInv, LensOK, AcBounded
<1>12. Honest'
  BY <1>1, <1>7 DEF Honest
<1>13. (sum < FoldBound(folds))'
  <2>1. folds' = 0 /\ sum' < M64
    BY <1>1, <1>3, <1>6, <1>8
  <2> QED
    BY <2>1 DEF FoldBound
<1> QED
  BY <1>1, <1>8, <1>10, <1>11, <1>12, <1>13 DEF CsumInv

\* Folds and the store.
LEMMA FoldKeeps ==
    ASSUME CsumInv, FoldOnce
    PROVE  CsumInv'
<1>1. /\ step = "fold" /\ folds < Folds /\ sum' = Fold(sum) /\ folds' = folds + 1
      /\ UNCHANGED <<job, packet, bufs, pos, ac, step, total>>
  BY DEF FoldOnce
<1>2. /\ sum \in Nat /\ total \in Nat /\ Same(sum, total)
      /\ folds \in 0 .. 3 /\ sum < FoldBound(folds)
  BY <1>1, Widths DEF CsumInv, CsumTypeOK, Honest, Folds
<1>3. sum' \in Nat /\ sum' < FoldBound(folds') /\ Same(sum', sum)
  BY <1>1, <1>2, FoldStep
<1>4. folds' \in 0 .. 4
  BY <1>1, <1>2
<1>5. sum' \in 0 .. M64 - 1
  BY <1>3, <1>4, FoldBounds, Widths
<1>6. CsumTypeOK'
  BY <1>1, <1>4, <1>5 DEF CsumInv, CsumTypeOK, Folds
<1>7. LensOK' /\ AcBounded'
  BY <1>1 DEF CsumInv, LensOK, AcBounded
<1>8. Honest'
  BY <1>1, <1>2, <1>3, SameTrans DEF Honest
<1>9. (sum < FoldBound(folds))'
  BY <1>3 DEF FoldBound
<1> QED
  BY <1>1, <1>6, <1>7, <1>8, <1>9 DEF CsumInv

LEMMA StoreKeeps ==
    ASSUME CsumInv, Store
    PROVE  CsumInv'
<1>1. /\ step = "fold" /\ step' = "done"
      /\ packet' = PutBE16(packet, job.field, M16 - 1 - (sum % M16))
      /\ UNCHANGED <<job, bufs, pos, ac, sum, folds, total>>
  BY DEF Store
<1>2. packet \in Seq(Bytes) /\ Len(packet) = Len(job.packet) /\ job \in Jobs /\ sum \in Nat
  BY Widths DEF CsumInv, CsumTypeOK
<1>3. M16 - 1 - (sum % M16) \in 0 .. M16 - 1
  <2>1. M16 \in Nat /\ M16 >= 1
    BY Widths
  <2>2. sum % M16 \in 0 .. M16 - 1
    BY <1>2, <2>1, DivMod
  <2> QED
    BY <2>1, <2>2
<1>4. job.field \in 1 .. Len(packet) - 1
  BY <1>2, JobsAssumption
<1>5. packet' \in Seq(Bytes) /\ Len(packet') = Len(packet)
  BY <1>1, <1>2, <1>3, <1>4, PutTyped
<1>6. CsumTypeOK'
  BY <1>1, <1>2, <1>5 DEF CsumInv, CsumTypeOK
<1>7. LensOK' /\ AcBounded' /\ Honest'
  BY <1>1, <1>5 DEF CsumInv, LensOK, AcBounded, Honest
<1>8. (sum < FoldBound(folds))'
  BY <1>1 DEF CsumInv, FoldBound
<1> QED
  BY <1>1, <1>6, <1>7, <1>8 DEF CsumInv

\* The invariant is inductive.
LEMMA CsumInductive == CsumInv /\ [CsumNext]_csumVars => CsumInv'
<1> SUFFICES ASSUME CsumInv, [CsumNext]_csumVars PROVE CsumInv'
  OBVIOUS
<1>1. CASE CsumNext
  BY <1>1, EnterKeeps, CallKeeps, LoadsKeep, ReturnKeeps, FoldKeeps, StoreKeeps DEF CsumNext
<1>2. CASE UNCHANGED csumVars
  BY <1>2 DEF csumVars, CsumInv, CsumTypeOK, LensOK, AcBounded, Honest, FoldBound, Buf
<1> QED
  BY <1>1, <1>2

-----------------------------------------------------------------------------

\* Sums keep to the widths of their types, whatever the packet.
THEOREM ChecksumTyped == CsumSpec => []CsumTypeOK
<1>1. CsumInv => CsumTypeOK
  BY DEF CsumInv
<1> QED
  BY <1>1, CsumInitInv, CsumInductive, PTL DEF CsumSpec

\* Four folds take every 64-bit sum below 2^16.
LEMMA FourFolds == CsumInv => NothingCut
<1> SUFFICES ASSUME CsumInv, step = "fold", folds = Folds PROVE sum < M16
  BY DEF NothingCut
<1>1. sum < FoldBound(4)
  BY DEF CsumInv, Folds
<1> QED
  BY <1>1, FoldBounds

\* Four folds are enough for every 64-bit sum (csum.cpp:66): the cast to u16
\* cuts off nothing.
THEOREM FourFoldsEnough == CsumSpec => []NothingCut
  BY FourFolds, CsumInitInv, CsumInductive, PTL DEF CsumSpec

\* No swap, carry or fold changes the number that is summed (csum.cpp:27-71).
THEOREM SumStaysHonest == CsumSpec => []SumHonest
<1>1. ASSUME NEW x \in Int, NEW y \in Int, Same(x, y)
      PROVE  (x - y) % (M16 - 1) = 0
  <2>1. PICK q \in Int : x - y = q * (M16 - 1)
    BY <1>1 DEF Same
  <2> DEFINE w == M16 - 1
  <2>2. w \in Nat /\ w >= 1
    BY Widths
  <2>3. \A k \in Int : (k * w) % w = 0
    BY <2>2
  <2> HIDE DEF w
  <2> QED
    BY <2>1, <2>3 DEF w
<1>2. CsumInv => SumHonest
  <2> SUFFICES ASSUME CsumInv PROVE SumHonest
    OBVIOUS
  <2>1. ac \in Int /\ sum \in Int /\ total \in Int /\ Byte * ac \in Int
    BY Widths DEF CsumInv, CsumTypeOK
  <2>2. Honest
    BY DEF CsumInv
  <2> QED
    BY <1>1, <2>1, <2>2, FourFolds DEF Honest, SumHonest
<1> QED
  BY <1>2, CsumInitInv, CsumInductive, PTL DEF CsumSpec

-----------------------------------------------------------------------------
(* What a receiver computes.                                               *)

\* The same number, and zero together: what RFC 1071 cannot tell from y.
Alike(x, y) == Same(x, y) /\ (x = 0 <=> y = 0)

LEMMA AlikeRefl == ASSUME NEW x \in Nat PROVE Alike(x, x)
  BY SameRefl DEF Alike

LEMMA AlikeSym == ASSUME NEW x \in Nat, NEW y \in Nat, Alike(x, y) PROVE Alike(y, x)
  BY SameSym DEF Alike

LEMMA AlikeTrans ==
    ASSUME NEW x \in Nat, NEW y \in Nat, NEW z \in Nat, Alike(x, y), Alike(y, z)
    PROVE  Alike(x, z)
  BY SameTrans DEF Alike

LEMMA AlikeAdd ==
    ASSUME NEW x \in Nat, NEW y \in Nat, NEW u \in Nat, NEW v \in Nat,
           Alike(x, y), Alike(u, v)
    PROVE  Alike(x + u, y + v)
<1>1. Same(x + u, y + v)
  BY SameAdd DEF Alike
<1>2. x + u = 0 <=> y + v = 0
  BY DEF Alike
<1> QED BY <1>1, <1>2 DEF Alike

\* Bringing the carry back at once keeps to 16 bits.
LEMMA OnesAddAlike ==
    ASSUME NEW x \in 0 .. M16 - 1, NEW y \in 0 .. M16 - 1
    PROVE  OnesAdd(x, y) \in 0 .. M16 - 1 /\ Alike(OnesAdd(x, y), x + y)
<1>0. M16 \in Nat /\ M16 >= 4
  BY Widths
<1>1. CASE x + y >= M16
  <2>1. OnesAdd(x, y) = x + y - M16 + 1
    BY <1>1 DEF OnesAdd
  <2>2. (x + y) - OnesAdd(x, y) = 1 * (M16 - 1)
    BY <1>0, <2>1
  <2>3. Same(x + y, OnesAdd(x, y))
    BY <2>2 DEF Same
  <2>4. OnesAdd(x, y) \in 0 .. M16 - 1 /\ OnesAdd(x, y) # 0 /\ x + y # 0
    BY <1>0, <1>1, <2>1
  <2>5. Same(OnesAdd(x, y), x + y)
    BY <1>0, <2>3, <2>4, SameSym
  <2> QED BY <2>4, <2>5 DEF Alike
<1>2. CASE ~(x + y >= M16)
  <2>1. OnesAdd(x, y) = x + y
    BY <1>2 DEF OnesAdd
  <2> QED BY <1>0, <1>2, <2>1, AlikeRefl
<1> QED BY <1>1, <1>2

\* A set of numbers has a least one.
LEMMA LeastOne ==
    ASSUME NEW T, T \subseteq Nat, T # {}
    PROVE  \E x \in T : \A y \in T : x <= y
<1> DEFINE U == {0 .. n : n \in T}
<1>1. ASSUME NEW n \in T PROVE 0 .. n \in FiniteSubsetsOf(Nat)
  <2>1. IsFiniteSet(0 .. n)
    BY FS_Interval
  <2> QED BY <2>1 DEF FiniteSubsetsOf
<1>2. U \subseteq FiniteSubsetsOf(Nat) /\ U # {}
  BY <1>1
<1> HIDE DEF U
<1>3. \E X \in U : \A Y \in U : ~(<<Y, X>> \in StrictSubsetOrdering(Nat))
  BY <1>2, FS_StrictSubsetOrderingWellFounded, WFMin
<1>4. PICK x \in T : \A y \in T : ~(<<0 .. y, 0 .. x>> \in StrictSubsetOrdering(Nat))
  BY <1>3 DEF U
<1>5. ASSUME NEW y \in T, ~(x <= y) PROVE FALSE
  <2>1. /\ 0 .. y \subseteq 0 .. x /\ x \in 0 .. x /\ x \notin 0 .. y
        /\ 0 .. y \in SUBSET Nat /\ 0 .. x \in SUBSET Nat
    BY <1>5
  <2>2. 0 .. y # 0 .. x
    BY <2>1
  <2>3. <<0 .. y, 0 .. x>> \in StrictSubsetOrdering(Nat)
    BY <2>1, <2>2 DEF StrictSubsetOrdering
  <2> QED BY <1>4, <2>3
<1> QED BY <1>5

\* Induction up to c.
LEMMA UpTo ==
    ASSUME NEW c \in Nat, NEW S, 0 \in S, \A n \in 1 .. c : n - 1 \in S => n \in S
    PROVE  0 .. c \subseteq S
<1> DEFINE T == {n \in 0 .. c : n \notin S}
<1> SUFFICES ASSUME T # {} PROVE FALSE
  OBVIOUS
<1>0. T \subseteq Nat
  OBVIOUS
<1> HIDE DEF T
<1>1. PICK x \in T : \A y \in T : x <= y
  BY <1>0, LeastOne
<1> USE DEF T
<1>2. x \in 1 .. c /\ x - 1 \in 0 .. c /\ ~(x <= x - 1)
  OBVIOUS
<1>3. x - 1 \in S
  BY <1>1, <1>2
<1> QED BY <1>2, <1>3

\* Words are 16 bits wide, the last one with a zero byte when the length is odd.
LEMMA WordTyped ==
    ASSUME NEW b \in Seq(Bytes)
    PROVE  /\ Words(b) \in Nat
           /\ \A n \in 1 .. Words(b) : Word(b, n) \in 0 .. M16 - 1
<1>0. Byte \in Nat /\ Byte >= 2 /\ Len(b) \in Nat
  BY Widths
<1>1. Words(b) \in Nat
  BY <1>0 DEF Words
<1>2. ASSUME NEW n \in 1 .. Words(b) PROVE Word(b, n) \in 0 .. M16 - 1
  <2>1. \A i \in 1 .. 2 * Words(b) : ByteAt(b, i) \in 0 .. Byte - 1
    <3> TAKE i \in 1 .. 2 * Words(b)
    <3>0. i \in Nat /\ i >= 1
      BY <1>1
    <3>1. CASE i <= Len(b)
      <4>1. b[i] \in Bytes
        BY <1>0, <3>0, <3>1
      <4> QED BY <3>1, <4>1 DEF ByteAt, Bytes
    <3>2. CASE ~(i <= Len(b))
      BY <1>0, <3>2 DEF ByteAt
    <3> QED BY <3>1, <3>2
  <2>2. 2 * n - 1 \in 1 .. 2 * Words(b) /\ 2 * n \in 1 .. 2 * Words(b)
    BY <1>1
  <2>3. ByteAt(b, 2 * n - 1) \in 0 .. Byte - 1 /\ ByteAt(b, 2 * n) \in 0 .. Byte - 1
    BY <2>1, <2>2
  <2>4. PICK x \in 0 .. Byte - 1, y \in 0 .. Byte - 1 :
          x = ByteAt(b, 2 * n - 1) /\ y = ByteAt(b, 2 * n)
    BY <2>3
  <2>5. Byte * x + y \in 0 .. Byte * Byte - 1
    <3>1. Byte \in Nat /\ Byte >= 1 /\ x \in 0 .. Byte - 1 /\ y \in 0 .. Byte - 1
      BY <1>0
    <3> QED BY <3>1, Halves, Zenon
  <2> QED BY <2>4, <2>5 DEF Word, M16
<1> QED BY <1>1, <1>2

\* A big-endian load at an even offset is a word; the last byte of an odd length,
\* times Byte, is one too.
LEMMA WordLoaded ==
    ASSUME NEW b \in Seq(Bytes), NEW n \in Nat
    PROVE  /\ 2 * n + 2 <= Len(b) =>
                n + 1 \in 1 .. Words(b) /\ Word(b, n + 1) = GetBE16(b, 2 * n + 1)
           /\ 2 * n + 1 = Len(b) =>
                n + 1 \in 1 .. Words(b) /\ Word(b, n + 1) = Byte * b[2 * n + 1]
<1>0. Byte \in Nat /\ Len(b) \in Nat /\ 2 * (n + 1) - 1 = 2 * n + 1 /\ 2 * (n + 1) = 2 * n + 2
  BY Widths
<1>1. ASSUME 2 * n + 2 <= Len(b)
      PROVE  n + 1 \in 1 .. Words(b) /\ Word(b, n + 1) = GetBE16(b, 2 * n + 1)
  <2>1. n + 1 \in 1 .. Words(b)
    BY <1>0, <1>1 DEF Words
  <2>2. ByteAt(b, 2 * n + 1) = b[2 * n + 1] /\ ByteAt(b, 2 * n + 2) = b[2 * n + 2]
    BY <1>0, <1>1 DEF ByteAt
  <2>3. (2 * n + 1) + 1 = 2 * n + 2
    OBVIOUS
  <2> QED BY <1>0, <2>1, <2>2, <2>3 DEF Word, GetBE16
<1>2. ASSUME 2 * n + 1 = Len(b)
      PROVE  n + 1 \in 1 .. Words(b) /\ Word(b, n + 1) = Byte * b[2 * n + 1]
  <2>1. n + 1 \in 1 .. Words(b)
    BY <1>0, <1>2 DEF Words
  <2>2. ByteAt(b, 2 * n + 1) = b[2 * n + 1] /\ ByteAt(b, 2 * n + 2) = 0
    BY <1>0, <1>2 DEF ByteAt
  <2>3. b[2 * n + 1] \in Bytes
    BY <1>0, <1>2
  <2>4. PICK x \in Bytes : x = b[2 * n + 1]
    BY <2>3
  <2>5. Word(b, n + 1) = Byte * x + 0
    BY <1>0, <2>2, <2>4 DEF Word
  <2>6. Byte * x + 0 = Byte * x
    BY <1>0 DEF Bytes
  <2> QED BY <2>1, <2>4, <2>5, <2>6
<1> QED BY <1>1, <1>2

\* s is the sums after 0, 1, .. c words of b.
WordsAdded(initial, b, c, s) ==
    s = [n \in 0 .. c |-> IF n = 0 THEN initial ELSE OnesAdd(s[n - 1], Word(b, n))]

LEMMA WordsAddedExist ==
    ASSUME NEW initial, NEW b, NEW c \in Nat
    PROVE  \E s : WordsAdded(initial, b, c, s)
<1> DEFINE S == {n \in 0 .. c : \E s : WordsAdded(initial, b, n, s)}
<1>1. 0 \in S
  <2>1. WordsAdded(initial, b, 0, [n \in 0 .. 0 |-> initial])
    BY DEF WordsAdded
  <2> QED BY <2>1
<1>2. ASSUME NEW n \in 1 .. c, n - 1 \in S PROVE n \in S
  <2>1. PICK s : WordsAdded(initial, b, n - 1, s)
    BY <1>2
  <2> DEFINE last == OnesAdd(s[n - 1], Word(b, n))
             h == [x \in 0 .. n |-> IF x = n THEN last ELSE s[x]]
  <2>2. \A x \in 0 .. n - 1 :
          s[x] = IF x = 0 THEN initial ELSE OnesAdd(s[x - 1], Word(b, x))
    BY <2>1 DEF WordsAdded
  <2>3. \A x \in 0 .. n : x = n \/ x \in 0 .. n - 1
    OBVIOUS
  <2>4. h[n] = last /\ \A x \in 0 .. n - 1 : h[x] = s[x]
    OBVIOUS
  <2>5. h = [x \in 0 .. n |-> h[x]]
    OBVIOUS
  <2> HIDE DEF h
  <2>6. \A x \in 0 .. n :
          h[x] = IF x = 0 THEN initial ELSE OnesAdd(h[x - 1], Word(b, x))
    <3> TAKE x \in 0 .. n
    <3>1. CASE x = n
      BY <2>4, <3>1
    <3>2. CASE x \in 0 .. n - 1 /\ x # 0
      <4>1. h[x] = s[x] /\ h[x - 1] = s[x - 1]
        BY <2>4, <3>2
      <4> QED BY <2>2, <3>2, <4>1
    <3>3. CASE x = 0
      <4>1. h[0] = s[0] /\ 0 \in 0 .. n - 1
        BY <2>4
      <4> QED BY <2>2, <3>3, <4>1
    <3> QED BY <2>3, <3>1, <3>2, <3>3
  <2>7. WordsAdded(initial, b, n, h)
    BY <2>5, <2>6 DEF WordsAdded
  <2> QED BY <2>7
<1> HIDE DEF S
<1>3. 0 .. c \subseteq S
  BY <1>1, <1>2, UpTo
<1> QED BY <1>3 DEF S

\* The sums of a buffer, one word after the other.
LEMMA WordSumsRight ==
    ASSUME NEW b \in Seq(Bytes), NEW x \in 0 .. M16 - 1
    PROVE  /\ WordSums(x, b)[0] = x
           /\ \A n \in 1 .. Words(b) :
                WordSums(x, b)[n] = OnesAdd(WordSums(x, b)[n - 1], Word(b, n))
           /\ \A n \in 0 .. Words(b) : WordSums(x, b)[n] \in 0 .. M16 - 1
<1> DEFINE s == WordSums(x, b)
<1>1. Words(b) \in Nat
  BY WordTyped
<1>2. s = CHOOSE g : WordsAdded(x, b, Words(b), g)
  BY Zenon DEF WordSums, WordsAdded
<1>3. WordsAdded(x, b, Words(b), s)
  BY <1>1, <1>2, WordsAddedExist
<1> HIDE DEF s
<1>4. \A n \in 0 .. Words(b) : s[n] = IF n = 0 THEN x ELSE OnesAdd(s[n - 1], Word(b, n))
  BY <1>3 DEF WordsAdded
<1>5. s[0] = x
  BY <1>1, <1>4
<1>6. \A n \in 1 .. Words(b) : s[n] = OnesAdd(s[n - 1], Word(b, n))
  BY <1>1, <1>4
<1> DEFINE S == {n \in 0 .. Words(b) : s[n] \in 0 .. M16 - 1}
<1>7. 0 \in S
  BY <1>1, <1>5
<1>8. ASSUME NEW n \in 1 .. Words(b), n - 1 \in S PROVE n \in S
  <2>1. Word(b, n) \in 0 .. M16 - 1
    BY WordTyped
  <2>2. OnesAdd(s[n - 1], Word(b, n)) \in 0 .. M16 - 1
    BY <1>8, <2>1, OnesAddAlike
  <2> QED BY <1>1, <1>6, <2>2
<1> HIDE DEF S
<1>9. 0 .. Words(b) \subseteq S
  BY <1>1, <1>7, <1>8, UpTo
<1>10. \A n \in 0 .. Words(b) : s[n] \in 0 .. M16 - 1
  BY <1>9 DEF S
<1> QED BY <1>5, <1>6, <1>10 DEF s

\* The sum of a buffer is 16 bits wide.
LEMMA OnesSumTyped ==
    ASSUME NEW b \in Seq(Bytes), NEW x \in 0 .. M16 - 1
    PROVE  OnesSum(x, b) \in 0 .. M16 - 1
<1>1. Words(b) \in 0 .. Words(b)
  BY WordTyped
<1> QED BY <1>1, WordSumsRight DEF OnesSum

\* s is the sums after 0, 1, .. c buffers of bs.
BuffersAdded(bs, c, s) ==
    s = [n \in 0 .. c |-> IF n = 0 THEN 0 ELSE OnesSum(s[n - 1], bs[n])]

LEMMA BuffersAddedExist ==
    ASSUME NEW bs, NEW c \in Nat
    PROVE  \E s : BuffersAdded(bs, c, s)
<1> DEFINE S == {n \in 0 .. c : \E s : BuffersAdded(bs, n, s)}
<1>1. 0 \in S
  <2>1. BuffersAdded(bs, 0, [n \in 0 .. 0 |-> 0])
    BY DEF BuffersAdded
  <2> QED BY <2>1
<1>2. ASSUME NEW n \in 1 .. c, n - 1 \in S PROVE n \in S
  <2>1. PICK s : BuffersAdded(bs, n - 1, s)
    BY <1>2
  <2> DEFINE last == OnesSum(s[n - 1], bs[n])
             h == [x \in 0 .. n |-> IF x = n THEN last ELSE s[x]]
  <2>2. \A x \in 0 .. n - 1 :
          s[x] = IF x = 0 THEN 0 ELSE OnesSum(s[x - 1], bs[x])
    BY <2>1 DEF BuffersAdded
  <2>3. \A x \in 0 .. n : x = n \/ x \in 0 .. n - 1
    OBVIOUS
  <2>4. h[n] = last /\ \A x \in 0 .. n - 1 : h[x] = s[x]
    OBVIOUS
  <2>5. h = [x \in 0 .. n |-> h[x]]
    OBVIOUS
  <2> HIDE DEF h
  <2>6. \A x \in 0 .. n : h[x] = IF x = 0 THEN 0 ELSE OnesSum(h[x - 1], bs[x])
    <3> TAKE x \in 0 .. n
    <3>1. CASE x = n
      BY <2>4, <3>1
    <3>2. CASE x \in 0 .. n - 1 /\ x # 0
      <4>1. h[x] = s[x] /\ h[x - 1] = s[x - 1]
        BY <2>4, <3>2
      <4> QED BY <2>2, <3>2, <4>1
    <3>3. CASE x = 0
      <4>1. h[0] = s[0] /\ 0 \in 0 .. n - 1
        BY <2>4
      <4> QED BY <2>2, <3>3, <4>1
    <3> QED BY <2>3, <3>1, <3>2, <3>3
  <2>7. BuffersAdded(bs, n, h)
    BY <2>5, <2>6 DEF BuffersAdded
  <2> QED BY <2>7
<1> HIDE DEF S
<1>3. 0 .. c \subseteq S
  BY <1>1, <1>2, UpTo
<1> QED BY <1>3 DEF S

\* The sums of several buffers, one after the other.
LEMMA BufferSumsRight ==
    ASSUME NEW bs \in Seq(Seq(Bytes))
    PROVE  /\ BufferSums(bs)[0] = 0
           /\ \A n \in 1 .. Len(bs) :
                BufferSums(bs)[n] = OnesSum(BufferSums(bs)[n - 1], bs[n])
           /\ \A n \in 0 .. Len(bs) : BufferSums(bs)[n] \in 0 .. M16 - 1
<1> DEFINE s == BufferSums(bs)
<1>1. Len(bs) \in Nat
  OBVIOUS
<1>2. s = CHOOSE g : BuffersAdded(bs, Len(bs), g)
  BY Zenon DEF BufferSums, BuffersAdded
<1>3. BuffersAdded(bs, Len(bs), s)
  BY <1>1, <1>2, BuffersAddedExist
<1> HIDE DEF s
<1>4. \A n \in 0 .. Len(bs) : s[n] = IF n = 0 THEN 0 ELSE OnesSum(s[n - 1], bs[n])
  BY <1>3 DEF BuffersAdded
<1>5. s[0] = 0
  BY <1>1, <1>4
<1>6. \A n \in 1 .. Len(bs) : s[n] = OnesSum(s[n - 1], bs[n])
  BY <1>1, <1>4
<1> DEFINE S == {n \in 0 .. Len(bs) : s[n] \in 0 .. M16 - 1}
<1>7. 0 \in S
  BY <1>1, <1>5, Widths
<1>8. ASSUME NEW n \in 1 .. Len(bs), n - 1 \in S PROVE n \in S
  <2>1. bs[n] \in Seq(Bytes)
    BY <1>1
  <2>2. OnesSum(s[n - 1], bs[n]) \in 0 .. M16 - 1
    BY <1>8, <2>1, OnesSumTyped
  <2> QED BY <1>1, <1>6, <2>2
<1> HIDE DEF S
<1>9. 0 .. Len(bs) \subseteq S
  BY <1>1, <1>7, <1>8, UpTo
<1>10. \A n \in 0 .. Len(bs) : s[n] \in 0 .. M16 - 1
  BY <1>9 DEF S
<1> QED BY <1>5, <1>6, <1>10 DEF s

\* One more buffer is one more sum.
LEMMA AppendSums ==
    ASSUME NEW ps \in Seq(Seq(Bytes)), NEW b \in Seq(Bytes)
    PROVE  /\ BufferSums(Append(ps, b))[Len(ps)] = OnesSumAll(ps)
           /\ OnesSumAll(Append(ps, b)) = OnesSum(OnesSumAll(ps), b)
<1> DEFINE bs == Append(ps, b)  s == BufferSums(ps)  t == BufferSums(bs)
<1>0. /\ Len(ps) \in Nat /\ bs \in Seq(Seq(Bytes)) /\ Len(bs) = Len(ps) + 1
      /\ bs[Len(ps) + 1] = b /\ \A n \in 1 .. Len(ps) : bs[n] = ps[n]
  OBVIOUS
<1> HIDE DEF bs
<1>1. s[0] = 0 /\ \A n \in 1 .. Len(ps) : s[n] = OnesSum(s[n - 1], ps[n])
  BY BufferSumsRight
<1>2. t[0] = 0 /\ \A n \in 1 .. Len(ps) + 1 : t[n] = OnesSum(t[n - 1], bs[n])
  BY <1>0, BufferSumsRight
<1> HIDE DEF s, t
<1> DEFINE S == {n \in 0 .. Len(ps) : s[n] = t[n]}
<1>3. 0 \in S
  BY <1>0, <1>1, <1>2
<1>4. ASSUME NEW n \in 1 .. Len(ps), n - 1 \in S PROVE n \in S
  <2>0. s[n - 1] = t[n - 1]
    BY <1>4
  <2>1. n \in 1 .. Len(ps) + 1 /\ bs[n] = ps[n] /\ s[n - 1] = t[n - 1]
    BY <1>0, <2>0
  <2>2. s[n] = t[n]
    BY <1>1, <1>2, <2>1
  <2> QED BY <1>0, <2>2
<1> HIDE DEF S
<1>5. 0 .. Len(ps) \subseteq S
  BY <1>0, <1>3, <1>4, UpTo
<1>6. s[Len(ps)] = t[Len(ps)]
  BY <1>0, <1>5 DEF S
<1>7. t[Len(ps) + 1] = OnesSum(t[Len(ps)], b)
  <2>1. Len(ps) + 1 \in 1 .. Len(ps) + 1 /\ (Len(ps) + 1) - 1 = Len(ps)
    BY <1>0
  <2> QED BY <1>0, <1>2, <2>1
<1> QED BY <1>0, <1>6, <1>7 DEF OnesSumAll, s, t, bs

\* What putBE16 leaves in memory.
LEMMA PutReads ==
    ASSUME NEW b \in Seq(Bytes), NEW i \in 1 .. Len(b) - 1, NEW v \in 0 .. M16 - 1
    PROVE  /\ PutBE16(b, i, v)[i] = v \div Byte /\ PutBE16(b, i, v)[i + 1] = v % Byte
           /\ \A n \in 1 .. Len(b) : n # i /\ n # i + 1 => PutBE16(b, i, v)[n] = b[n]
<1>1. Len(b) \in Nat /\ i \in Nat /\ i \in 1 .. Len(b) /\ i + 1 \in 1 .. Len(b) /\ i + 1 # i
  OBVIOUS
<1> QED BY <1>1 DEF PutBE16

\* Writing the field changes one word.
LEMMA FieldWord ==
    ASSUME NEW b \in Seq(Bytes), NEW i \in 1 .. Len(b) - 1, i % 2 = 1,
           NEW v \in 0 .. M16 - 1
    PROVE  \E m \in 1 .. Words(b) :
             /\ Word(b, m) = GetBE16(b, i)
             /\ Word(PutBE16(b, i, v), m) = v
             /\ \A n \in 1 .. Words(b) : n # m => Word(PutBE16(b, i, v), n) = Word(b, n)
<1> DEFINE f == PutBE16(b, i, v)
<1>0. Byte \in Nat /\ Byte >= 1 /\ Len(b) \in Nat /\ i \in Nat /\ i >= 1 /\ i + 1 <= Len(b)
  BY Widths
<1>1. PICK k \in Nat : i = 2 * k + 1
  <2>1. i \div 2 \in Nat /\ i = 2 * (i \div 2) + (i % 2)
    BY <1>0
  <2> QED BY <2>1
<1>2. f \in Seq(Bytes) /\ Len(f) = Len(b)
  BY PutTyped
<1>3. /\ f[i] = v \div Byte /\ f[i + 1] = v % Byte
      /\ \A n \in 1 .. Len(b) : n # i /\ n # i + 1 => f[n] = b[n]
  BY PutReads
<1> HIDE DEF f
<1>4. Words(f) = Words(b) /\ Words(b) \in Nat
  BY <1>2, WordTyped DEF Words
<1>5. k + 1 \in 1 .. Words(b) /\ Word(b, k + 1) = GetBE16(b, i)
  <2>1. 2 * k + 2 <= Len(b)
    BY <1>0, <1>1
  <2> QED BY <1>1, <2>1, WordLoaded
<1>6. Word(f, k + 1) = v
  <2>1. 2 * k + 2 <= Len(f)
    BY <1>0, <1>1, <1>2
  <2>2. Word(f, k + 1) = GetBE16(f, i)
    BY <1>1, <1>2, <2>1, WordLoaded
  <2>3. v = Byte * (v \div Byte) + (v % Byte)
    <3>1. v \in Nat
      BY Widths
    <3> QED BY <1>0, <3>1, DivMod
  <2> QED BY <1>3, <2>2, <2>3 DEF GetBE16
<1>7. ASSUME NEW n \in 1 .. Words(b), n # k + 1 PROVE Word(f, n) = Word(b, n)
  <2>1. ASSUME NEW x \in Nat, x >= 1, x # i, x # i + 1 PROVE ByteAt(f, x) = ByteAt(b, x)
    BY <1>0, <1>2, <1>3, <2>1 DEF ByteAt
  <2>2. n \in Nat /\ n >= 1
    BY <1>4
  <2>3. /\ 2 * n - 1 \in Nat /\ 2 * n - 1 >= 1 /\ 2 * n - 1 # i /\ 2 * n - 1 # i + 1
        /\ 2 * n \in Nat /\ 2 * n >= 1 /\ 2 * n # i /\ 2 * n # i + 1
    BY <1>1, <1>7, <2>2
  <2>4. ByteAt(f, 2 * n - 1) = ByteAt(b, 2 * n - 1) /\ ByteAt(f, 2 * n) = ByteAt(b, 2 * n)
    BY <2>1, <2>3
  <2> QED BY <2>4 DEF Word
<1> QED BY <1>5, <1>6, <1>7 DEF f

\* Over a zeroed field, writing v adds v to what a receiver computes.
LEMMA FieldAdds ==
    ASSUME NEW b \in Seq(Bytes), NEW i \in 1 .. Len(b) - 1, i % 2 = 1, GetBE16(b, i) = 0,
           NEW v \in 0 .. M16 - 1, NEW x \in 0 .. M16 - 1
    PROVE  Alike(OnesSum(x, PutBE16(b, i, v)), OnesSum(x, b) + v)
<1> DEFINE f == PutBE16(b, i, v)  s == WordSums(x, b)  t == WordSums(x, f)
           W == Words(b)
<1>0. M16 \in Nat /\ M16 >= 1 /\ v \in Nat
  BY Widths
<1>1. f \in Seq(Bytes) /\ Len(f) = Len(b)
  BY PutTyped
<1>2. Words(f) = W /\ W \in Nat
  BY <1>1, WordTyped DEF Words
<1>3. PICK m \in 1 .. W :
        /\ Word(b, m) = 0 /\ Word(f, m) = v
        /\ \A n \in 1 .. W : n # m => Word(f, n) = Word(b, n)
  BY FieldWord
<1>4. /\ s[0] = x /\ \A n \in 1 .. W : s[n] = OnesAdd(s[n - 1], Word(b, n))
      /\ \A n \in 0 .. W : s[n] \in 0 .. M16 - 1
  BY WordSumsRight
<1>5. /\ t[0] = x /\ \A n \in 1 .. W : t[n] = OnesAdd(t[n - 1], Word(f, n))
      /\ \A n \in 0 .. W : t[n] \in 0 .. M16 - 1
  BY <1>1, <1>2, WordSumsRight
<1>6. /\ \A n \in 1 .. W : Word(b, n) \in 0 .. M16 - 1
      /\ \A n \in 1 .. W : Word(f, n) \in 0 .. M16 - 1
  BY <1>1, <1>2, WordTyped
<1>7. OnesSum(x, f) = t[W] /\ OnesSum(x, b) = s[W]
  BY <1>2 DEF OnesSum
<1> HIDE DEF f, s, t, W
<1> DEFINE extra(n) == IF n >= m THEN v ELSE 0
           S == {n \in 0 .. W : Alike(t[n], s[n] + extra(n))}
<1>8. 0 \in S
  <2>1. s[0] + extra(0) = x /\ x \in Nat
    BY <1>0, <1>3, <1>4
  <2> QED BY <1>2, <1>5, <2>1, AlikeRefl
<1>9. ASSUME NEW n \in 1 .. W, n - 1 \in S PROVE n \in S
  <2>0. PICK e \in Nat, d \in Nat : e = extra(n - 1) /\ d = extra(n)
    BY <1>0
  <2>1. PICK p \in 0 .. M16 - 1, q \in 0 .. M16 - 1, wb \in 0 .. M16 - 1,
             wf \in 0 .. M16 - 1 :
          /\ p = s[n - 1] /\ q = t[n - 1] /\ wb = Word(b, n) /\ wf = Word(f, n)
    <3>1. n - 1 \in 0 .. W
      BY <1>2
    <3>2. s[n - 1] \in 0 .. M16 - 1 /\ t[n - 1] \in 0 .. M16 - 1
      BY <1>4, <1>5, <3>1
    <3>3. Word(b, n) \in 0 .. M16 - 1 /\ Word(f, n) \in 0 .. M16 - 1
      BY <1>6
    <3> QED BY ONLY <3>2, <3>3
  <2>2. Alike(q, p + e)
    BY <1>9, <2>0, <2>1
  <2> HIDE DEF extra
  <2>a. p \in Nat /\ q \in Nat /\ wb \in Nat /\ wf \in Nat
    BY ONLY <1>0, p \in 0 .. M16 - 1, q \in 0 .. M16 - 1, wb \in 0 .. M16 - 1, wf \in 0 .. M16 - 1
  <2>3. s[n] = OnesAdd(p, wb) /\ t[n] = OnesAdd(q, wf)
    BY <1>4, <1>5, <2>1
  <2>4. s[n] \in Nat /\ t[n] \in Nat /\ Alike(s[n], p + wb) /\ Alike(t[n], q + wf)
    <3>1. OnesAdd(p, wb) \in 0 .. M16 - 1 /\ OnesAdd(q, wf) \in 0 .. M16 - 1
      BY OnesAddAlike
    <3>2. Alike(OnesAdd(p, wb), p + wb) /\ Alike(OnesAdd(q, wf), q + wf)
      BY OnesAddAlike
    <3>3. 0 .. M16 - 1 \subseteq Nat
      BY ONLY <1>0
    <3> QED BY <2>3, <3>1, <3>2, <3>3, Zenon
  <2>5. e + wf = d + wb
    <3>1. CASE n = m
      <4>1. wb = 0 /\ wf = v
        BY <1>3, <2>1, <3>1
      <4>2. e = 0 /\ d = v
        BY <1>2, <1>3, <2>0, <3>1 DEF extra
      <4> QED BY <1>0, <4>1, <4>2
    <3>2. CASE n # m
      <4>1. wf = wb
        BY <1>3, <2>1, <3>2
      <4>1a. m \in Int /\ n \in Int
        BY <1>2
      <4>1b. n - 1 >= m <=> n >= m
        BY ONLY <3>2, <4>1a
      <4>2. e = d
        BY ONLY <2>0, <4>1b DEF extra
      <4> QED BY <2>1, <4>1, <4>2
    <3> QED BY <3>1, <3>2
  <2>6. Alike(q + wf, (p + e) + wf)
    <3>1. Alike(wf, wf) /\ p + e \in Nat
      BY <2>a, AlikeRefl
    <3> QED BY <2>a, <2>2, <3>1, AlikeAdd
  <2>7. Alike(s[n] + d, (p + wb) + d)
    <3>1. Alike(d, d)
      BY AlikeRefl
    <3>2. p + wb \in Nat
      BY ONLY <2>a
    <3> QED BY <2>4, <3>1, <3>2, AlikeAdd
  <2>8. (p + e) + wf = (p + wb) + d
    BY ONLY <2>a, <2>5, e \in Nat, d \in Nat
  <2>9. /\ q + wf \in Nat /\ (p + e) + wf \in Nat /\ s[n] + d \in Nat
        /\ (p + wb) + d \in Nat
    <3>1. q + wf \in Nat /\ (p + e) + wf \in Nat /\ (p + wb) + d \in Nat
      BY ONLY <2>a, e \in Nat, d \in Nat
    <3>2. PICK sn \in Nat : sn = s[n]
      BY <2>4
    <3>3. sn + d \in Nat
      BY ONLY sn \in Nat, d \in Nat
    <3> QED BY <3>1, <3>2, <3>3
  <2>10. Alike(t[n], (p + e) + wf)
    BY <2>4, <2>6, <2>9, AlikeTrans
  <2>11. Alike(t[n], s[n] + d)
    BY <2>4, <2>7, <2>8, <2>9, <2>10, AlikeSym, AlikeTrans
  <2> QED BY <1>2, <2>0, <2>11
<1> HIDE DEF S
<1>10. 0 .. W \subseteq S
  BY <1>2, <1>8, <1>9, UpTo
<1>11. W \in S /\ extra(W) = v
  BY <1>2, <1>3, <1>10
<1>12. Alike(t[W], s[W] + v)
  BY <1>11 DEF S
<1> QED BY <1>7, <1>12 DEF f

\* One more word of a buffer is one more sum of it.
LEMMA OneMoreWord ==
    ASSUME NEW b \in Seq(Bytes), NEW x \in 0 .. M16 - 1, NEW k \in Nat,
           k + 1 \in 1 .. Words(b), NEW t \in Nat, Alike(t, WordSums(x, b)[k])
    PROVE  /\ t + Word(b, k + 1) \in Nat
           /\ Alike(t + Word(b, k + 1), WordSums(x, b)[k + 1])
<1>0. M16 \in Nat /\ Words(b) \in Nat
  BY Widths, WordTyped
<1>1. k \in 0 .. Words(b) /\ (k + 1) - 1 = k
  BY <1>0
<1>2. PICK s \in 0 .. M16 - 1, r \in 0 .. M16 - 1, w \in 0 .. M16 - 1 :
        s = WordSums(x, b)[k] /\ r = WordSums(x, b)[k + 1] /\ w = Word(b, k + 1)
  <2>1. k + 1 \in 0 .. Words(b)
    BY <1>0
  <2> QED BY <1>1, <2>1, WordSumsRight, WordTyped
<1>3. s \in Nat /\ r \in Nat /\ w \in Nat
  BY <1>0
<1>4. r = OnesAdd(s, w)
  BY <1>1, <1>2, WordSumsRight
<1>5. Alike(r, s + w)
  BY <1>4, OnesAddAlike
<1>6. Alike(t + w, s + w)
  BY <1>2, <1>3, AlikeRefl, AlikeAdd
<1>7. Alike(s + w, r)
  BY <1>3, <1>5, AlikeSym
<1>8. t + w \in Nat /\ s + w \in Nat
  BY <1>3
<1>9. Alike(t + w, r)
  BY <1>3, <1>6, <1>7, <1>8, AlikeTrans
<1> QED BY <1>2, <1>8, <1>9

\* The same for a big-endian load of two bytes.
LEMMA OneMoreLoad ==
    ASSUME NEW b \in Seq(Bytes), NEW x \in 0 .. M16 - 1, NEW k \in Nat,
           2 * k + 2 <= Len(b), NEW t \in Nat, Alike(t, WordSums(x, b)[k])
    PROVE  /\ k + 1 \in 1 .. Words(b)
           /\ t + GetBE16(b, 2 * k + 1) \in Nat
           /\ Alike(t + GetBE16(b, 2 * k + 1), WordSums(x, b)[k + 1])
<1>1. k + 1 \in 1 .. Words(b) /\ Word(b, k + 1) = GetBE16(b, 2 * k + 1)
  BY WordLoaded
<1>2. /\ t + Word(b, k + 1) \in Nat
      /\ Alike(t + Word(b, k + 1), WordSums(x, b)[k + 1])
  BY <1>1, OneMoreWord
<1> QED BY <1>1, <1>2

\* Bytes that are all zero load as zero.
LEMMA LoadsZero ==
    ASSUME NEW b \in Seq(Bytes), NEW i \in Nat, i >= 1
    PROVE  /\ i + 1 <= Len(b) /\ GetBE16(b, i) = 0 => LoadU16(b, i) = 0
           /\ i + 3 <= Len(b) /\ GetBE16(b, i) + GetBE16(b, i + 2) = 0 => LoadU32(b, i) = 0
           /\ i + 7 <= Len(b)
                /\ GetBE16(b, i) + GetBE16(b, i + 2) + GetBE16(b, i + 4) + GetBE16(b, i + 6) = 0
                => LoadU64(b, i) = 0
<1>0. /\ Byte \in Nat /\ Byte >= 2 /\ M16 \in Nat /\ M32 \in Nat /\ Len(b) \in Nat
  BY Widths
<1>1. ASSUME NEW n \in Nat, n >= 1, n + 1 <= Len(b)
      PROVE  GetBE16(b, n) \in Nat /\ (GetBE16(b, n) = 0 => LoadU16(b, n) = 0)
  <2>1. b[n] \in Bytes /\ b[n + 1] \in Bytes
    BY <1>0, <1>1
  <2>2. PICK u \in Nat, v \in Nat : u = b[n] /\ v = b[n + 1]
    <3>1. Bytes \subseteq Nat
      BY <1>0 DEF Bytes
    <3>2. b[n] \in Nat /\ b[n + 1] \in Nat
      BY <2>1, <3>1
    <3> QED BY ONLY <3>2
  <2>3. Byte * u \in Nat /\ Byte * v \in Nat /\ Byte * u >= u
    BY <1>0
  <2>4. GetBE16(b, n) = Byte * u + v /\ LoadU16(b, n) = u + Byte * v
    BY <2>2 DEF GetBE16, LoadU16
  <2>5. ASSUME Byte * u + v = 0 PROVE u + Byte * v = 0
    <3>1. u = 0 /\ v = 0
      BY <2>3, <2>5
    <3> QED BY <1>0, <3>1
  <2> QED BY <2>3, <2>4, <2>5
<1>2. ASSUME NEW n \in Nat, n >= 1, n + 3 <= Len(b)
      PROVE  /\ GetBE16(b, n) + GetBE16(b, n + 2) \in Nat
             /\ GetBE16(b, n) + GetBE16(b, n + 2) = 0 => LoadU32(b, n) = 0
  <2>1. n + 2 \in Nat /\ n + 2 >= 1 /\ (n + 2) + 1 <= Len(b) /\ n + 1 <= Len(b)
    BY <1>0, <1>2
  <2>2. PICK g \in Nat, h \in Nat : g = GetBE16(b, n) /\ h = GetBE16(b, n + 2)
    BY <1>1, <1>2, <2>1
  <2>3. ASSUME g + h = 0 PROVE LoadU32(b, n) = 0
    <3>1. g = 0 /\ h = 0
      BY <2>3
    <3>2. LoadU16(b, n) = 0 /\ LoadU16(b, n + 2) = 0
      BY <1>1, <1>2, <2>1, <2>2, <3>1
    <3>3. 0 + M16 * 0 = 0
      BY <1>0
    <3> QED BY <3>2, <3>3 DEF LoadU32
  <2> QED BY <2>2, <2>3
<1>3. ASSUME i + 7 <= Len(b),
             GetBE16(b, i) + GetBE16(b, i + 2) + GetBE16(b, i + 4) + GetBE16(b, i + 6) = 0
      PROVE  LoadU64(b, i) = 0
  <2>1. /\ i + 4 \in Nat /\ i + 4 >= 1 /\ (i + 4) + 3 <= Len(b) /\ i + 3 <= Len(b)
        /\ (i + 4) + 2 = i + 6 /\ i + 2 \in Nat /\ i + 2 >= 1 /\ (i + 2) + 1 <= Len(b)
        /\ i + 6 \in Nat /\ i + 6 >= 1 /\ (i + 6) + 1 <= Len(b) /\ i + 1 <= Len(b)
        /\ (i + 4) + 1 <= Len(b)
    BY <1>0, <1>3
  <2>2. PICK g \in Nat, h \in Nat, p \in Nat, q \in Nat :
          /\ g = GetBE16(b, i) /\ h = GetBE16(b, i + 2)
          /\ p = GetBE16(b, i + 4) /\ q = GetBE16(b, i + 6)
    BY <1>1, <2>1
  <2>3. g + h + p + q = 0
    BY <1>3, <2>2
  <2>4. g + h = 0 /\ p + q = 0
    BY ONLY <2>3, g \in Nat, h \in Nat, p \in Nat, q \in Nat
  <2>5. LoadU32(b, i) = 0 /\ LoadU32(b, i + 4) = 0
    BY <1>2, <2>1, <2>2, <2>4
  <2>6. 0 + M32 * 0 = 0
    BY <1>0
  <2> QED BY <2>5, <2>6 DEF LoadU64
<1> QED BY <1>0, <1>1, <1>2, <1>3

\* Zero stays zero: swapped, cut to 64 bits and folded.
LEMMA ZeroStays == BSwap64(0) = 0 /\ EndAround(0) = 0 /\ Fold(0) = 0
<1>0. /\ Byte \in Nat /\ Byte >= 2 /\ M16 \in Nat /\ M16 >= 4 /\ M32 \in Nat /\ M32 >= M16
      /\ M64 \in Nat /\ M64 >= M32
  BY Widths
<1>1. \A w \in {Byte, M16, M32, M64} : w \in Nat /\ w >= 1 /\ 0 % w = 0 /\ 0 \div w = 0 /\ w * 0 = 0
  <2>1. ASSUME NEW w \in Nat, w >= 1 PROVE 0 % w = 0 /\ 0 \div w = 0 /\ w * 0 = 0
    BY ONLY w \in Nat, w >= 1
  <2> QED BY <1>0, <2>1
<1>2. BSwap16(0) = 0
  BY <1>1 DEF BSwap16
<1>3. BSwap32(0) = 0
  BY <1>1, <1>2 DEF BSwap32
<1>4. BSwap64(0) = 0
  BY <1>1, <1>3 DEF BSwap64
<1>5. EndAround(0) = 0
  BY <1>0, <1>1 DEF EndAround
<1>6. Fold(0) = 0
  BY <1>1 DEF Fold
<1> QED BY <1>4, <1>5, <1>6


-----------------------------------------------------------------------------
(* That the receiver accepts.                                              *)

\* The packet whose field counts as zero, and every buffer that is summed.
Zeroed == PutBE16(job.packet, job.field, 0)
AllBufs == Append(job.pseudo, Zeroed)

\* How many of them a receiver has summed when those of bufs are left.
Read == Len(AllBufs) - Len(bufs)

\* The packet waits with a zeroed field, and the buffers left are the last ones.
Waiting ==
    /\ packet = Zeroed
    /\ Len(bufs) <= Len(AllBufs)
    /\ \A x \in 1 .. Len(bufs) : bufs[x] = AllBufs[Read + x]

\* pos stands k words into b: between two words, or behind an odd last byte.
WordsIn(b, k) ==
    /\ k \in 0 .. Words(b)
    /\ pos = 2 * k + 1 \/ (k = Words(b) /\ pos = Len(b) + 1)

\* What has been summed is what a receiver has after as many buffers and words.
Running ==
    /\ step \in {"call", "sum", "fold"} => Waiting
    /\ step \in {"call", "fold"} => Alike(total, BufferSums(AllBufs)[Read])
    /\ step = "fold" => bufs = <<>>
    /\ step = "sum" =>
        \E k \in Nat : /\ WordsIn(Buf, k)
                       /\ Alike(total, WordSums(BufferSums(AllBufs)[Read], Buf)[k])

\* Nothing is summed to zero but zeros.
Silent ==
    /\ step \in {"call", "fold"} /\ total = 0 => sum = 0
    /\ step = "sum" /\ total = 0 => ac = 0

AcceptInv == Running /\ Silent /\ ReceiverAccepts

LEMMA AllTyped ==
    ASSUME CsumInv
    PROVE  /\ job.pseudo \in Seq(Seq(Bytes)) /\ job.packet \in Seq(Bytes)
           /\ Zeroed \in Seq(Bytes) /\ Len(Zeroed) = Len(job.packet)
           /\ AllBufs \in Seq(Seq(Bytes)) /\ Len(AllBufs) = Len(job.pseudo) + 1
           /\ AllBufs[Len(job.pseudo) + 1] = Zeroed
           /\ BufferSums(AllBufs)[0] = 0
           /\ \A n \in 0 .. Len(AllBufs) : BufferSums(AllBufs)[n] \in 0 .. M16 - 1
           /\ job.field \in 1 .. Len(job.packet) - 1 /\ job.field % 2 = 1
<1>1. job \in Jobs
  BY DEF CsumInv
<1>2. /\ job.pseudo \in Seq(Seq(Bytes)) /\ job.packet \in Seq(Bytes)
      /\ job.field \in 1 .. Len(job.packet) - 1 /\ job.field % 2 = 1
  BY <1>1, JobsAssumption, FieldAssumption
<1>3. 0 \in 0 .. M16 - 1
  BY Widths
<1>4. Zeroed \in Seq(Bytes) /\ Len(Zeroed) = Len(job.packet)
  BY <1>2, <1>3, PutTyped DEF Zeroed
<1>5. /\ AllBufs \in Seq(Seq(Bytes)) /\ Len(AllBufs) = Len(job.pseudo) + 1
      /\ AllBufs[Len(job.pseudo) + 1] = Zeroed
  BY <1>2, <1>4 DEF AllBufs
<1>6. /\ BufferSums(AllBufs)[0] = 0
      /\ \A n \in 0 .. Len(AllBufs) : BufferSums(AllBufs)[n] \in 0 .. M16 - 1
  BY <1>5, BufferSumsRight
<1> QED BY <1>2, <1>4, <1>5, <1>6

\* The sum starts from nothing, or from what a receiver has after the pseudo-header.
LEMMA EnterAccepts ==
    ASSUME CsumInv, EnterParked \/ EnterSplit
    PROVE  AcceptInv'
<1>1. /\ step = "enter" /\ step' = "call" /\ job' = job /\ packet = job.packet
      /\ sum = 0 /\ total = 0 /\ packet' = FieldZeroed
  BY DEF EnterParked, EnterSplit, CsumInv
<1>2. packet' = Zeroed /\ Zeroed' = Zeroed /\ AllBufs' = AllBufs
  BY <1>1 DEF FieldZeroed, Zeroed, AllBufs
<1> DEFINE ps == job.pseudo
<1>3. /\ ps \in Seq(Seq(Bytes)) /\ Zeroed \in Seq(Bytes) /\ AllBufs = Append(ps, Zeroed)
      /\ Len(AllBufs) = Len(ps) + 1 /\ Len(ps) \in Nat /\ AllBufs[Len(ps) + 1] = Zeroed
      /\ BufferSums(AllBufs)[0] = 0
  BY AllTyped DEF AllBufs
<1> HIDE DEF ps
<1>4. CASE EnterParked
  <2>1. bufs' = <<Zeroed>> /\ total' = sum' /\ sum' = GetBE16(job.packet, job.field)
    BY <1>1, <1>2, <1>4 DEF EnterParked
  <2>2. Read' = Len(ps)
    BY <1>2, <1>3, <2>1 DEF Read
  <2>3. Waiting'
    BY <1>2, <1>3, <2>1, <2>2 DEF Waiting
  <2>4. total' = OnesSumAll(ps)
    BY <1>4, <2>1, ParkedAssumption DEF EnterParked, CsumInv, ps
  <2>5. BufferSums(AllBufs)[Len(ps)] = OnesSumAll(ps)
    BY <1>3, AppendSums
  <2>6. total' \in Nat
    BY <1>3, <2>4, BufferSumsRight, Widths DEF OnesSumAll
  <2>7. Alike(total, BufferSums(AllBufs)[Read])'
    BY <1>2, <2>2, <2>4, <2>5, <2>6, AlikeRefl
  <2> QED
    BY <1>1, <2>1, <2>3, <2>7 DEF AcceptInv, Running, Silent, ReceiverAccepts
<1>5. CASE EnterSplit
  <2>1. bufs' = AllBufs /\ total' = 0 /\ sum' = 0
    BY <1>1, <1>2, <1>5 DEF EnterSplit, AllBufs
  <2>2. Read' = 0
    BY <1>2, <1>3, <2>1 DEF Read
  <2>3. Waiting'
    BY <1>2, <1>3, <2>1, <2>2 DEF Waiting
  <2>4. Alike(total, BufferSums(AllBufs)[Read])'
    BY <1>2, <1>3, <2>1, <2>2, AlikeRefl
  <2> QED
    BY <1>1, <2>1, <2>3, <2>4 DEF AcceptInv, Running, Silent, ReceiverAccepts
<1> QED BY <1>4, <1>5

\* What a buffer in turn is to a receiver.
LEMMA BufInTurn ==
    ASSUME CsumInv, Running, step \in {"call", "sum"}
    PROVE  /\ bufs \in Seq(Seq(Bytes)) /\ Len(bufs) \in Nat /\ Len(bufs) >= 1
           /\ Buf = bufs[1] /\ Buf \in Seq(Bytes) /\ Buf = AllBufs[Read + 1]
           /\ Read \in Nat /\ Read + 1 <= Len(AllBufs)
           /\ BufferSums(AllBufs)[Read] \in 0 .. M16 - 1
<1>1. bufs \in Seq(Seq(Bytes)) /\ bufs # <<>> /\ Waiting
  BY DEF CsumInv, CsumTypeOK, Running
<1>2. Len(bufs) \in Nat /\ Len(bufs) >= 1 /\ Buf = bufs[1] /\ bufs[1] \in Seq(Bytes)
  BY <1>1 DEF Buf
<1>3. Len(AllBufs) \in Nat /\ Len(bufs) <= Len(AllBufs)
  BY <1>1, AllTyped DEF Waiting
<1>4. Read \in 0 .. Len(AllBufs) /\ Read + 1 <= Len(AllBufs)
  BY <1>2, <1>3 DEF Read
<1>5. bufs[1] = AllBufs[Read + 1]
  BY <1>1, <1>2 DEF Waiting
<1>6. BufferSums(AllBufs)[Read] \in 0 .. M16 - 1
  BY <1>4, AllTyped
<1> QED BY <1>1, <1>2, <1>4, <1>5, <1>6

LEMMA CallAccepts ==
    ASSUME CsumInv, AcceptInv, Call
    PROVE  AcceptInv'
<1>1. /\ step = "call" /\ ac' = BSwap64(sum) /\ pos' = 1 /\ step' = "sum"
      /\ UNCHANGED <<job, packet, bufs, sum, total>>
  BY DEF Call
<1>2. Running /\ Waiting /\ Alike(total, BufferSums(AllBufs)[Read]) /\ (total = 0 => sum = 0)
  BY <1>1 DEF AcceptInv, Running, Silent
<1>3. /\ Zeroed' = Zeroed /\ AllBufs' = AllBufs /\ Read' = Read /\ Buf' = Buf
  BY <1>1 DEF Zeroed, AllBufs, Read, Buf
<1>4. Waiting'
  BY <1>1, <1>2, <1>3 DEF Waiting
<1>5. Buf \in Seq(Bytes) /\ BufferSums(AllBufs)[Read] \in 0 .. M16 - 1
  BY <1>1, <1>2, BufInTurn
<1>6. Alike(total', WordSums(BufferSums(AllBufs)[Read], Buf)[0])
  BY <1>1, <1>2, <1>5, WordSumsRight
<1>7. WordsIn(Buf, 0)'
  <2>1. 0 \in 0 .. Words(Buf)
    BY <1>5, WordTyped
  <2> QED BY <1>1, <1>3, <2>1 DEF WordsIn
<1>8. Running'
  <2>1. \E k \in Nat : WordsIn(Buf, k)'
          /\ Alike(total', WordSums(BufferSums(AllBufs')[Read'], Buf')[k])
    BY <1>3, <1>6, <1>7
  <2> QED BY <1>1, <1>4, <2>1 DEF Running
<1>9. total' = 0 => ac' = 0
  BY <1>1, <1>2, ZeroStays
<1> QED BY <1>1, <1>8, <1>9 DEF AcceptInv, Silent, ReceiverAccepts

\* A load of n bytes that takes pos from k words to l.
LEMMA LoadAccepts ==
    ASSUME CsumInv, AcceptInv, step = "sum", NEW n \in Nat, NEW word, NEW words \in Nat,
           Loaded(n, word, words), words = 0 => word = 0, NEW l \in Nat,
           WordsIn(Buf, l)',
           Alike(total + words, WordSums(BufferSums(AllBufs)[Read], Buf)[l])
    PROVE  AcceptInv'
<1>1. /\ ac' = ac + word /\ pos' = pos + n /\ total' = total + words
      /\ UNCHANGED <<job, packet, bufs, sum, folds, step>>
  BY DEF Loaded
<1>2. Running /\ Waiting /\ (total = 0 => ac = 0) /\ total \in Nat
  BY DEF AcceptInv, Running, Silent, CsumInv, CsumTypeOK
<1>3. /\ Zeroed' = Zeroed /\ AllBufs' = AllBufs /\ Read' = Read /\ Buf' = Buf
  BY <1>1 DEF Zeroed, AllBufs, Read, Buf
<1>4. Waiting'
  BY <1>1, <1>2, <1>3 DEF Waiting
<1>5. Running'
  <2>1. \E k \in Nat : WordsIn(Buf, k)'
          /\ Alike(total', WordSums(BufferSums(AllBufs')[Read'], Buf')[k])
    BY <1>1, <1>3
  <2> QED BY <1>1, <1>4, <2>1 DEF Running
<1>6. total' = 0 => ac' = 0
  <2>1. ASSUME total + words = 0 PROVE ac + word = 0
    <3>1. total = 0 /\ words = 0
      BY <1>2, <2>1
    <3> QED BY <1>2, <3>1
  <2> QED BY <1>1, <2>1
<1> QED BY <1>1, <1>5, <1>6 DEF AcceptInv, Silent, ReceiverAccepts


LEMMA LoadsAccept ==
    ASSUME CsumInv, AcceptInv, Add8 \/ Add4 \/ Add2 \/ Add1
    PROVE  AcceptInv'
<1>1. step = "sum" /\ Running
  BY DEF Add8, Add4, Add2, Add1, AcceptInv
<1>2. /\ Buf \in Seq(Bytes) /\ Len(Buf) \in Nat
      /\ pos \in Nat /\ pos >= 1 /\ pos <= Len(Buf) + 1 /\ total \in Nat
  BY <1>1, BufTyped
<1>0. Left >= 1
  <2>1. Left \in Int
    BY <1>2 DEF Left
  <2> QED BY <2>1 DEF Add8, Add4, Add2, Add1
<1>3. PICK x \in 0 .. M16 - 1 : x = BufferSums(AllBufs)[Read]
  BY <1>1, BufInTurn
<1>4. PICK k \in Nat : WordsIn(Buf, k) /\ Alike(total, WordSums(x, Buf)[k])
  BY <1>1, <1>3 DEF Running
<1>5. pos = 2 * k + 1
  BY <1>0, <1>2, <1>4 DEF WordsIn, Left
<1>6. PICK b \in Seq(Bytes) : b = Buf
  BY <1>2
<1>7. Left = Len(b) - (2 * k) /\ Len(b) \in Nat
  BY <1>2, <1>5, <1>6 DEF Left
<1>8. ASSUME Add8 \/ Add4 \/ Add2 \/ Add1 PROVE Buf' = b
  BY <1>6 DEF Add8, Add4, Add2, Add1, Loaded, Buf
<1>a. \A i \in 1 .. Len(b) - 1 : GetBE16(b, i) \in Nat
  <2>1. 0 .. M16 - 1 \subseteq Nat
    BY Widths
  <2> QED BY <2>1, Load16
<1>9. CASE Add8
  <2>1. /\ 2 * k + 2 <= Len(b) /\ 2 * (k + 1) + 2 <= Len(b)
        /\ 2 * (k + 2) + 2 <= Len(b) /\ 2 * (k + 3) + 2 <= Len(b)
    BY <1>7, <1>9 DEF Add8
  <2>2. /\ 2 * (k + 1) + 1 = pos + 2 /\ 2 * (k + 2) + 1 = pos + 4 /\ 2 * (k + 3) + 1 = pos + 6
        /\ (k + 1) + 1 = k + 2 /\ (k + 2) + 1 = k + 3 /\ (k + 3) + 1 = k + 4
        /\ k + 1 \in Nat /\ k + 2 \in Nat /\ k + 3 \in Nat
    BY <1>5
  <2> DEFINE t1 == total + GetBE16(b, pos)      t2 == t1 + GetBE16(b, pos + 2)
             t3 == t2 + GetBE16(b, pos + 4)     t4 == t3 + GetBE16(b, pos + 6)
  <2>3. t1 \in Nat /\ Alike(t1, WordSums(x, b)[k + 1])
    BY <1>2, <1>4, <1>5, <1>6, <2>1, OneMoreLoad
  <2> HIDE DEF t1
  <2>4. t2 \in Nat /\ Alike(t2, WordSums(x, b)[k + 2])
    BY <2>1, <2>2, <2>3, OneMoreLoad
  <2> HIDE DEF t2
  <2>5. t3 \in Nat /\ Alike(t3, WordSums(x, b)[k + 3])
    BY <2>1, <2>2, <2>4, OneMoreLoad
  <2> HIDE DEF t3
  <2>6. t4 \in Nat /\ Alike(t4, WordSums(x, b)[k + 4]) /\ k + 4 \in 1 .. Words(b)
    BY <2>1, <2>2, <2>5, OneMoreLoad
  <2> HIDE DEF t4
  <2>7. \A i \in {pos, pos + 2, pos + 4, pos + 6} : GetBE16(b, i) \in Nat
    <3>1. \A i \in {pos, pos + 2, pos + 4, pos + 6} : i \in 1 .. Len(b) - 1
      BY <1>2, <1>5, <1>7, <2>1
    <3> QED BY <3>1, <1>a
  <2>8. PICK g \in Nat, h \in Nat, p \in Nat, q \in Nat :
          /\ g = GetBE16(b, pos) /\ h = GetBE16(b, pos + 2)
          /\ p = GetBE16(b, pos + 4) /\ q = GetBE16(b, pos + 6)
    BY <2>7
  <2>9. g + h + p + q \in Nat /\ t4 = total + (g + h + p + q)
    <3>1. g + h + p + q \in Nat /\ total + g + h + p + q = total + (g + h + p + q)
      BY ONLY <1>2, g \in Nat, h \in Nat, p \in Nat, q \in Nat
    <3>2. t4 = total + g + h + p + q
      BY <2>8 DEF t1, t2, t3, t4
    <3> QED BY ONLY <3>1, <3>2
  <2>10. Loaded(8, LoadU64(b, pos), g + h + p + q)
    BY <1>6, <1>9, <2>8 DEF Add8
  <2>11. g + h + p + q = 0 => LoadU64(b, pos) = 0
    <3>1. pos + 7 <= Len(b)
      BY <1>5, <1>7, <2>1
    <3> QED BY <1>2, <2>8, <3>1, LoadsZero
  <2>12. WordsIn(Buf, k + 4)'
    <3>1. pos' = 2 * (k + 4) + 1 /\ k + 4 \in 0 .. Words(b)
      BY <1>5, <2>6, <2>10 DEF Loaded
    <3> QED BY <1>8, <1>9, <3>1 DEF WordsIn
  <2> QED
    BY <1>1, <1>3, <1>6, <2>6, <2>9, <2>10, <2>11, <2>12, LoadAccepts
<1>10. CASE Add4
  <2>1. 2 * k + 2 <= Len(b) /\ 2 * (k + 1) + 2 <= Len(b)
    BY <1>7, <1>10 DEF Add4
  <2>2. 2 * (k + 1) + 1 = pos + 2 /\ (k + 1) + 1 = k + 2 /\ k + 1 \in Nat
    BY <1>5
  <2> DEFINE t1 == total + GetBE16(b, pos)      t2 == t1 + GetBE16(b, pos + 2)
  <2>3. t1 \in Nat /\ Alike(t1, WordSums(x, b)[k + 1])
    BY <1>2, <1>4, <1>5, <1>6, <2>1, OneMoreLoad
  <2> HIDE DEF t1
  <2>4. t2 \in Nat /\ Alike(t2, WordSums(x, b)[k + 2]) /\ k + 2 \in 1 .. Words(b)
    BY <2>1, <2>2, <2>3, OneMoreLoad
  <2> HIDE DEF t2
  <2>5. PICK g \in Nat, h \in Nat : g = GetBE16(b, pos) /\ h = GetBE16(b, pos + 2)
    <3>1. pos \in 1 .. Len(b) - 1 /\ pos + 2 \in 1 .. Len(b) - 1
      BY <1>2, <1>5, <1>7, <2>1
    <3> QED BY <3>1, <1>a
  <2>6. g + h \in Nat /\ t2 = total + (g + h)
    <3>1. g + h \in Nat /\ total + g + h = total + (g + h)
      BY ONLY <1>2, g \in Nat, h \in Nat
    <3>2. t2 = total + g + h
      BY <2>5 DEF t1, t2
    <3> QED BY ONLY <3>1, <3>2
  <2>7. Loaded(4, LoadU32(b, pos), g + h)
    BY <1>6, <1>10, <2>5 DEF Add4
  <2>8. g + h = 0 => LoadU32(b, pos) = 0
    <3>1. pos + 3 <= Len(b)
      BY <1>5, <1>7, <2>1
    <3> QED BY <1>2, <2>5, <3>1, LoadsZero
  <2>9. WordsIn(Buf, k + 2)'
    <3>1. pos' = 2 * (k + 2) + 1 /\ k + 2 \in 0 .. Words(b)
      BY <1>5, <2>4, <2>7 DEF Loaded
    <3> QED BY <1>8, <1>10, <3>1 DEF WordsIn
  <2> QED
    BY <1>1, <1>3, <1>6, <2>4, <2>6, <2>7, <2>8, <2>9, LoadAccepts
<1>11. CASE Add2
  <2>1. 2 * k + 2 <= Len(b)
    BY <1>7, <1>11 DEF Add2
  <2>2. PICK g \in Nat : g = GetBE16(b, pos)
    <3>1. pos \in 1 .. Len(b) - 1
      BY <1>2, <1>5, <1>7, <2>1
    <3> QED BY <3>1, <1>a
  <2>3. Alike(total + g, WordSums(x, b)[k + 1]) /\ k + 1 \in 1 .. Words(b)
    BY <1>2, <1>4, <1>5, <1>6, <2>1, <2>2, OneMoreLoad
  <2>4. Loaded(2, LoadU16(b, pos), g)
    BY <1>6, <1>11, <2>2 DEF Add2
  <2>5. g = 0 => LoadU16(b, pos) = 0
    <3>1. pos + 1 <= Len(b)
      BY <1>5, <1>7, <2>1
    <3> QED BY <1>2, <2>2, <3>1, LoadsZero
  <2>6. WordsIn(Buf, k + 1)'
    <3>1. pos' = 2 * (k + 1) + 1 /\ k + 1 \in 0 .. Words(b)
      BY <1>5, <2>3, <2>4 DEF Loaded
    <3> QED BY <1>8, <1>11, <3>1 DEF WordsIn
  <2> QED
    BY <1>1, <1>3, <1>6, <2>2, <2>3, <2>4, <2>5, <2>6, LoadAccepts
<1>12. CASE Add1
  <2>1. 2 * k + 1 = Len(b)
    BY <1>7, <1>12 DEF Add1
  <2>2. b[pos] \in Bytes
    BY <1>5, <2>1
  <2>3. PICK u \in Nat : u = b[pos]
    BY <2>2, Widths DEF Bytes
  <2>4. PICK g \in Nat : g = Byte * u
    BY <2>3, Widths
  <2>5. k + 1 \in 1 .. Words(b) /\ Word(b, k + 1) = g
    BY <1>5, <2>1, <2>3, <2>4, WordLoaded
  <2>6. Alike(total + g, WordSums(x, b)[k + 1])
    BY <1>2, <1>4, <1>6, <2>5, OneMoreWord
  <2>7. Loaded(1, u, g)
    BY <1>6, <1>12, <2>3, <2>4 DEF Add1, OddTail
  <2>8. g = 0 => u = 0
    <3>1. Byte \in Nat /\ Byte >= 2
      BY Widths
    <3>2. Byte * u >= u
      BY <3>1
    <3> QED BY <2>4, <3>2
  <2>9. WordsIn(Buf, k + 1)'
    <3>1. Words(b) = k + 1
      BY <2>1 DEF Words
    <3>2. pos' = Len(b) + 1 /\ k + 1 \in 0 .. Words(b)
      BY <1>5, <2>1, <2>5, <2>7 DEF Loaded
    <3> QED BY <1>8, <1>12, <3>1, <3>2 DEF WordsIn
  <2> QED
    BY <1>1, <1>3, <1>6, <2>4, <2>6, <2>7, <2>8, <2>9, LoadAccepts
<1> QED BY <1>9, <1>10, <1>11, <1>12

LEMMA ReturnAccepts ==
    ASSUME CsumInv, AcceptInv, Return
    PROVE  AcceptInv'
<1>1. /\ step = "sum" /\ Left = 0 /\ sum' = BSwap64(EndAround(ac)) /\ bufs' = Tail(bufs)
      /\ step' = IF bufs' = <<>> THEN "fold" ELSE "call"
      /\ UNCHANGED <<job, packet, total>>
  BY DEF Return
<1>2. Running /\ Waiting /\ (total = 0 => ac = 0)
  BY <1>1 DEF AcceptInv, Running, Silent
<1>3. /\ bufs \in Seq(Seq(Bytes)) /\ Len(bufs) \in Nat /\ Len(bufs) >= 1
      /\ Buf \in Seq(Bytes) /\ Buf = AllBufs[Read + 1]
      /\ Read \in Nat /\ Read + 1 <= Len(AllBufs)
      /\ BufferSums(AllBufs)[Read] \in 0 .. M16 - 1
  BY <1>1, <1>2, BufInTurn
<1>4. /\ Len(Buf) \in Nat /\ pos \in Nat
  BY <1>1, BufTyped
<1>5. Len(AllBufs) \in Nat /\ AllBufs \in Seq(Seq(Bytes))
  BY AllTyped
<1>6. Zeroed' = Zeroed /\ AllBufs' = AllBufs /\ packet' = packet
  BY <1>1 DEF Zeroed, AllBufs
<1>7. Len(bufs') = Len(bufs) - 1 /\ \A y \in 1 .. Len(bufs) - 1 : bufs'[y] = bufs[y + 1]
  BY <1>1, <1>3
<1>8. Read' = Read + 1
  BY <1>3, <1>5, <1>6, <1>7 DEF Read
<1>9. Waiting'
  <2>1. Len(bufs') <= Len(AllBufs)
    BY <1>2, <1>3, <1>5, <1>7 DEF Waiting
  <2>2. ASSUME NEW y \in 1 .. Len(bufs') PROVE bufs'[y] = AllBufs[(Read + 1) + y]
    <3>1. y + 1 \in 1 .. Len(bufs) /\ Read + (y + 1) = (Read + 1) + y /\ y \in 1 .. Len(bufs) - 1
      BY <1>3, <1>7
    <3> QED BY <1>2, <1>7, <3>1 DEF Waiting
  <2> QED BY <1>2, <1>6, <1>8, <2>1, <2>2 DEF Waiting
<1>10. Alike(total, BufferSums(AllBufs)[Read + 1])
  <2>1. PICK k \in Nat : /\ WordsIn(Buf, k)
                         /\ Alike(total, WordSums(BufferSums(AllBufs)[Read], Buf)[k])
    BY <1>1, <1>2 DEF Running
  <2>2. k = Words(Buf)
    BY <1>1, <1>4, <2>1 DEF WordsIn, Left, Words
  <2>3. Read + 1 \in 1 .. Len(AllBufs) /\ (Read + 1) - 1 = Read
    BY <1>3, <1>5
  <2>4. BufferSums(AllBufs)[Read + 1] = OnesSum(BufferSums(AllBufs)[Read], Buf)
    BY <1>3, <1>5, <2>3, BufferSumsRight
  <2> QED BY <2>1, <2>2, <2>4 DEF OnesSum
<1>11. Running'
  <2>1. Alike(total', BufferSums(AllBufs')[Read'])
    BY <1>1, <1>6, <1>8, <1>10
  <2> QED BY <1>1, <1>9, <2>1 DEF Running
<1>12. total' = 0 => sum' = 0
  BY <1>1, <1>2, ZeroStays
<1> QED BY <1>1, <1>11, <1>12 DEF AcceptInv, Silent, ReceiverAccepts

LEMMA FoldAccepts ==
    ASSUME CsumInv, AcceptInv, FoldOnce
    PROVE  AcceptInv'
<1>1. /\ step = "fold" /\ sum' = Fold(sum)
      /\ UNCHANGED <<job, packet, bufs, pos, ac, step, total>>
  BY DEF FoldOnce
<1>2. Zeroed' = Zeroed /\ AllBufs' = AllBufs /\ Read' = Read
  BY <1>1 DEF Zeroed, AllBufs, Read
<1>3. Running'
  BY <1>1, <1>2 DEF AcceptInv, Running, Waiting
<1>4. total' = 0 => sum' = 0
  BY <1>1, ZeroStays DEF AcceptInv, Silent
<1> QED BY <1>1, <1>3, <1>4 DEF AcceptInv, Silent, ReceiverAccepts


\* What is the same as nothing in 16 bits is all zeros or all ones.
LEMMA AllOnes ==
    ASSUME NEW r \in 0 .. M16 - 1, Same(r, 0), r # 0
    PROVE  r = M16 - 1
<1> DEFINE w == M16 - 1
<1>1. w \in Nat /\ w >= 1
  BY Widths
<1>2. PICK q \in Int : r - 0 = q * w
  BY DEF Same
<1>3. r \in Nat /\ r >= 1 /\ r <= w
  BY <1>1
<1> HIDE DEF w
<1>4. q >= 1
  <2>1. ASSUME ~(q >= 1) PROVE FALSE
    <3>1. q <= 0 /\ -q \in Nat
      BY <2>1
    <3>2. (-q) * w \in Nat /\ (-q) * w = -(q * w)
      BY <1>1, <3>1
    <3> QED BY <1>2, <1>3, <3>2
  <2> QED BY <2>1
<1>5. (q - 1) * w \in Nat /\ q * w = (q - 1) * w + w
  BY <1>1, <1>4
<1>6. r = q * w
  BY <1>2, <1>3
<1>7. r = w
  <2>1. PICK m \in Nat : m = (q - 1) * w
    BY <1>5
  <2>2. r = m + w
    BY <1>5, <1>6, <2>1
  <2> QED BY <1>1, <1>3, <2>1, <2>2
<1> QED BY <1>7 DEF w

\* What is stored brings the sum of a receiver to all ones (csum.cpp:71).
LEMMA StoreAccepts ==
    ASSUME CsumInv, AcceptInv, Store
    PROVE  AcceptInv'
<1> DEFINE v == M16 - 1 - (sum % M16)
<1>1. /\ step = "fold" /\ folds = Folds /\ step' = "done" /\ packet' = PutBE16(packet, job.field, v)
      /\ job' = job
  BY DEF Store
<1>2. M16 \in Nat /\ M16 >= 4
  BY Widths
<1>3. sum \in 0 .. M16 - 1
  <2>1. sum \in Nat
    BY Widths DEF CsumInv, CsumTypeOK
  <2> QED BY <1>1, <1>2, <2>1, FourFolds DEF NothingCut
<1>4. v = M16 - 1 - sum /\ v \in 0 .. M16 - 1
  <2>1. sum % M16 = sum
    BY <1>2, <1>3
  <2> QED BY <1>2, <1>3, <2>1
<1> HIDE DEF v
<1> DEFINE ps == job.pseudo  f == PutBE16(Zeroed, job.field, v)  x == OnesSumAll(ps)
           T == OnesSumAll(AllBufs)  R == OnesSumAll(Append(ps, f))
<1>5. /\ ps \in Seq(Seq(Bytes)) /\ job.packet \in Seq(Bytes)
      /\ Zeroed \in Seq(Bytes) /\ Len(Zeroed) = Len(job.packet)
      /\ AllBufs \in Seq(Seq(Bytes)) /\ AllBufs = Append(ps, Zeroed)
      /\ job.field \in 1 .. Len(job.packet) - 1 /\ job.field % 2 = 1
  BY AllTyped DEF AllBufs
<1>6. f \in Seq(Bytes) /\ Len(f) = Len(Zeroed)
  BY <1>4, <1>5, PutTyped
<1>7. x \in 0 .. M16 - 1
  <2>1. Len(ps) \in 0 .. Len(ps)
    BY <1>5
  <2> QED BY <1>5, <2>1, BufferSumsRight DEF OnesSumAll
<1>8. packet' = f
  BY <1>1 DEF AcceptInv, Running, Waiting
<1>9. T = OnesSum(x, Zeroed) /\ R = OnesSum(x, f)
  BY <1>5, <1>6, AppendSums
<1>10. T \in 0 .. M16 - 1 /\ R \in 0 .. M16 - 1
  BY <1>5, <1>6, <1>7, <1>9, OnesSumTyped
<1>11. GetBE16(Zeroed, job.field) = 0
  <2>1. Byte \in Nat /\ Byte >= 1
    BY Widths
  <2>2. 0 \div Byte = 0 /\ 0 % Byte = 0 /\ Byte * 0 + 0 = 0
    BY <2>1
  <2>3. Zeroed[job.field] = 0 \div Byte /\ Zeroed[job.field + 1] = 0 % Byte
    <3>1. 0 \in 0 .. M16 - 1
      BY <1>2
    <3> QED BY <1>5, <3>1, PutReads DEF Zeroed
  <2> QED BY <2>2, <2>3 DEF GetBE16
<1>12. Alike(R, T + v)
  <2>1. PICK i \in 1 .. Len(Zeroed) - 1 : i = job.field
    BY <1>5
  <2> HIDE DEF x, T, R, ps
  <2>2. Alike(OnesSum(x, PutBE16(Zeroed, i, v)), OnesSum(x, Zeroed) + v)
    BY <1>4, <1>5, <1>7, <1>11, <2>1, FieldAdds
  <2> QED BY <1>9, <2>1, <2>2
<1>13. Alike(total, T) /\ (total = 0 => sum = 0) /\ Same(sum, total) /\ total \in Nat
  <2>1. bufs = <<>> /\ Alike(total, BufferSums(AllBufs)[Read])
    BY <1>1 DEF AcceptInv, Running
  <2>2. Read = Len(AllBufs)
    BY <1>5, <2>1 DEF Read
  <2> QED BY <1>1, <2>1, <2>2 DEF OnesSumAll, AcceptInv, Silent, CsumInv, CsumTypeOK, Honest
<1> HIDE DEF T, R, x, f, ps
<1>14. R # 0
  <2>1. ASSUME R = 0 PROVE FALSE
    <3>1. T + v = 0
      BY <1>12, <2>1 DEF Alike
    <3>2. T = 0 /\ v = 0
      BY <1>2, <1>4, <1>10, <3>1
    <3>3. sum = 0
      BY <1>13, <3>2 DEF Alike
    <3> QED BY <1>2, <1>4, <3>2, <3>3
  <2> QED BY <2>1
<1>15. Same(R, 0)
  <2>0. R \in Nat /\ T \in Nat /\ v \in Nat /\ sum \in Nat /\ total \in Nat /\ T + v \in Nat
        /\ M16 - 1 \in Nat
    BY <1>2, <1>3, <1>4, <1>10, <1>13
  <2>1. Same(T, total) /\ Same(total, sum)
    BY <1>13, <2>0, SameSym DEF Alike
  <2>2. Same(T, sum) /\ Same(v, v)
    BY <2>0, <2>1, SameTrans, SameRefl
  <2>3. Same(T + v, sum + v)
    BY <2>0, <2>2, SameAdd
  <2>4. sum + v = M16 - 1
    BY <1>2, <1>4, <2>0
  <2>5. Same(M16 - 1, 0)
    <3>1. (M16 - 1) - 0 = 1 * (M16 - 1)
      BY <1>2
    <3> QED BY <3>1 DEF Same
  <2>6. Same(T + v, 0)
    BY <2>0, <2>3, <2>4, <2>5, SameTrans
  <2> QED BY <1>12, <2>0, <2>6, SameTrans DEF Alike
<1>16. R = M16 - 1
  BY <1>10, <1>14, <1>15, AllOnes
<1>17. \A i \in 1 .. Len(f) : i \notin job.field .. job.field + 1 => f[i] = job.packet[i]
  <2>1. 0 \in 0 .. M16 - 1
    BY <1>2
  <2>2. PICK j \in Nat, b \in Seq(Bytes), z \in Seq(Bytes) :
          j = job.field /\ b = job.packet /\ z = Zeroed
    <3>1. Len(job.packet) \in Nat
      BY <1>5
    <3>2. job.field \in Nat
      BY <1>5, <3>1
    <3> QED BY <1>5, <3>2
  <2>3. j \in 1 .. Len(b) - 1 /\ z = PutBE16(b, j, 0) /\ f = PutBE16(z, j, v) /\ Len(z) = Len(b)
    BY <1>5, <2>2 DEF f, Zeroed
  <2>4. /\ \A i \in 1 .. Len(b) : i # j /\ i # j + 1 => z[i] = b[i]
        /\ \A i \in 1 .. Len(b) : i # j /\ i # j + 1 => f[i] = z[i]
    BY <1>4, <2>1, <2>3, PutReads
  <2>5. j \in j .. j + 1 /\ j + 1 \in j .. j + 1
    OBVIOUS
  <2> QED BY <1>6, <2>2, <2>3, <2>4, <2>5
<1>18. ReceiverAccepts'
  <2>1. DOMAIN packet' = 1 .. Len(f)
    BY <1>6, <1>8
  <2> QED BY <1>1, <1>8, <1>16, <1>17, <2>1 DEF ReceiverAccepts, R, ps
<1> QED BY <1>1, <1>18 DEF AcceptInv, Running, Silent

\* With the invariant of the sums, AcceptInv is inductive.
LEMMA AcceptInductive ==
    CsumInv /\ AcceptInv /\ [CsumNext]_csumVars => AcceptInv'
<1> SUFFICES ASSUME CsumInv, AcceptInv, [CsumNext]_csumVars PROVE AcceptInv'
  OBVIOUS
<1>1. CASE CsumNext
  BY <1>1, EnterAccepts, CallAccepts, LoadsAccept, ReturnAccepts, FoldAccepts, StoreAccepts
     DEF CsumNext
<1>2. CASE UNCHANGED csumVars
  <2>1. UNCHANGED <<job, packet, bufs, pos, ac, sum, step, total>>
    BY <1>2 DEF csumVars
  <2>2. Zeroed' = Zeroed /\ AllBufs' = AllBufs /\ Read' = Read /\ Buf' = Buf
    BY <2>1 DEF Zeroed, AllBufs, Read, Buf
  <2> QED
    BY <2>1, <2>2 DEF AcceptInv, Running, Waiting, WordsIn, Silent, ReceiverAccepts
<1> QED BY <1>1, <1>2

\* Whatever the packet, the pseudo-header and who summed it, a receiver that adds up
\* as RFC 1071 says gets all ones, and no other byte has changed (csum.cpp:25-83,
\* gso.cpp:46).
THEOREM ReceiverAlwaysAccepts == CsumSpec => []ReceiverAccepts
<1>1. CsumInit => AcceptInv
  BY DEF CsumInit, AcceptInv, Running, Silent, ReceiverAccepts
<1>2. AcceptInv => ReceiverAccepts
  BY DEF AcceptInv
<1> QED
  BY <1>1, <1>2, CsumInitInv, CsumInductive, AcceptInductive, PTL DEF CsumSpec


=============================================================================
