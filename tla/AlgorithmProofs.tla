-------------------------- MODULE AlgorithmProofs --------------------------
(***************************************************************************)
(* What is proved of the pure algorithms for every input: message frames   *)
(* over bytes of any size, and backend selection.                          *)
(***************************************************************************)
EXTENDS MCAlgorithms, SequenceTheorems, TLAPS

-----------------------------------------------------------------------------
(* Numbers of two digits.  A byte is a digit of a uint16, a uint16 one of a   *)
(* uint32, and a uint32 one of a uint64.                                      *)

\* Two digits make a number that gives them back.
LEMMA Compose ==
  ASSUME NEW R \in Nat \ {0}, NEW a \in 0..R - 1, NEW b \in 0..R - 1
  PROVE  /\ R * a + b \in 0..R * R - 1
         /\ (R * a + b) \div R = a
         /\ (R * a + b) % R = b
<1>1. R * a + b \in Nat
  OBVIOUS
<1>2. R * a + b <= R * R - 1
  <2>1. R * a <= R * (R - 1)
    OBVIOUS
  <2>2. R * (R - 1) = R * R - R
    OBVIOUS
  <2>3. QED
    BY <2>1, <2>2, <1>1
<1>3. (R * a + b) \div R = a
  OBVIOUS
<1>4. (R * a + b) % R = b
  BY <1>3
<1>5. QED
  BY <1>1, <1>2, <1>3, <1>4

\* A number has digits that make it again.
LEMMA Decompose ==
  ASSUME NEW R \in Nat \ {0}, NEW n \in 0..R * R - 1
  PROVE  /\ n \div R \in 0..R - 1
         /\ n % R \in 0..R - 1
         /\ R * (n \div R) + (n % R) = n
<1>1. R \in Nat /\ R > 0 /\ n \in Nat /\ n < R * R
  OBVIOUS
<1>2. n % R \in 0..R - 1 /\ n \div R \in Nat /\ R * (n \div R) + (n % R) = n
  BY <1>1
<1>3. n \div R <= R - 1
  <2>1. ASSUME NEW q \in Nat, q >= R PROVE R * q >= R * R
    BY <1>1, <2>1
  <2>2. QED
    BY <1>1, <1>2, <2>1
<1>4. QED
  BY <1>2, <1>3

-----------------------------------------------------------------------------
(* Slices of byte sequences *)

Slice(data, off, k) == SubSeq(data, off + 1, off + k)

\* What a slice is.
LEMMA SliceType ==
  ASSUME NEW S, NEW data \in Seq(S), NEW off \in Nat, NEW k \in Nat, off + k <= Len(data)
  PROVE  /\ Slice(data, off, k) \in Seq(S)
         /\ Len(Slice(data, off, k)) = k
         /\ \A i \in 1..k : Slice(data, off, k)[i] = data[off + i]
<1>1. \A i \in off + 1 .. off + k : data[i] \in S
  BY ElementOfSeq
<1>2. /\ Slice(data, off, k) \in Seq(S)
      /\ Len(Slice(data, off, k)) =
           IF off + 1 <= off + k THEN off + k - (off + 1) + 1 ELSE 0
      /\ \A i \in 1 .. off + k - (off + 1) + 1 :
           Slice(data, off, k)[i] = data[off + 1 + i - 1]
  BY <1>1, SubSeqProperties DEF Slice
<1>3. QED
  BY <1>2

\* Neighbouring slices make one.
LEMMA Glue ==
  ASSUME NEW S, NEW data \in Seq(S), NEW off \in Nat, NEW j \in Nat, NEW k \in Nat,
         off + j + k <= Len(data)
  PROVE  Slice(data, off, j) \o Slice(data, off + j, k) = Slice(data, off, j + k)
<1> DEFINE s == Slice(data, off, j)
           t == Slice(data, off + j, k)
           u == Slice(data, off, j + k)
<1>1. s \in Seq(S) /\ Len(s) = j /\ \A i \in 1..j : s[i] = data[off + i]
  BY SliceType
<1>2. t \in Seq(S) /\ Len(t) = k /\ \A i \in 1..k : t[i] = data[off + j + i]
  BY SliceType
<1>3. u \in Seq(S) /\ Len(u) = j + k /\ \A i \in 1..j + k : u[i] = data[off + i]
  BY SliceType
<1> HIDE DEF s, t, u
<1> DEFINE v == s \o t
<1>4. /\ v \in Seq(S) /\ Len(v) = j + k
      /\ \A i \in 1..j + k : v[i] = IF i <= j THEN s[i] ELSE t[i - j]
  BY <1>1, <1>2, ConcatProperties
<1> HIDE DEF v
<1>5. ASSUME NEW i \in 1..j + k PROVE v[i] = u[i]
  <2>1. CASE i <= j
    <3>1. i \in 1..j /\ v[i] = s[i]
      BY <1>4, <2>1
    <3>2. QED
      BY <1>1, <1>3, <3>1
  <2>2. CASE i > j
    <3>1. i - j \in 1..k /\ off + j + (i - j) = off + i
      BY <2>2
    <3>2. t[i - j] = data[off + i]
      BY <1>2, <3>1
    <3>3. v[i] = t[i - j]
      BY <1>4, <2>2
    <3>4. QED
      BY <1>3, <3>2, <3>3
  <2>3. QED
    BY <2>1, <2>2
<1>6. v = u
  BY <1>3, <1>4, <1>5, SeqEqual
<1>7. QED
  BY <1>6 DEF s, t, u, v

\* A concatenation is made of these slices.
LEMMA Unglue ==
  ASSUME NEW S, NEW s \in Seq(S), NEW t \in Seq(S)
  PROVE  /\ s \o t \in Seq(S) /\ Len(s \o t) = Len(s) + Len(t)
         /\ Slice(s \o t, Len(s), Len(t)) = t
         /\ \A off, k \in Nat : off + k <= Len(s) => Slice(s \o t, off, k) = Slice(s, off, k)
<1> DEFINE u == s \o t
<1>0. Len(s) \in Nat /\ Len(t) \in Nat
  BY LenProperties
<1>1. /\ u \in Seq(S) /\ Len(u) = Len(s) + Len(t)
      /\ \A i \in 1..Len(s) + Len(t) : u[i] = IF i <= Len(s) THEN s[i] ELSE t[i - Len(s)]
  BY ConcatProperties
<1> HIDE DEF u
<1>u. u \in Seq(S) /\ Len(u) = Len(s) + Len(t)
  BY <1>1
<1>2. Slice(u, Len(s), Len(t)) = t
  <2>1. /\ Slice(u, Len(s), Len(t)) \in Seq(S)
        /\ Len(Slice(u, Len(s), Len(t))) = Len(t)
        /\ \A i \in 1..Len(t) : Slice(u, Len(s), Len(t))[i] = u[Len(s) + i]
    <3> DEFINE m == Len(s)
               n == Len(t)
    <3>1. m \in Nat /\ n \in Nat /\ m + n <= Len(u)
      BY <1>0, <1>u
    <3> HIDE DEF m, n
    <3>2. /\ Slice(u, m, n) \in Seq(S) /\ Len(Slice(u, m, n)) = n
          /\ \A i \in 1..n : Slice(u, m, n)[i] = u[m + i]
      BY <1>u, <3>1, SliceType
    <3>3. QED
      BY <3>2 DEF m, n
  <2>2. ASSUME NEW i \in 1..Len(t) PROVE u[Len(s) + i] = t[i]
    <3>1. PICK m, n \in Nat : m = Len(s) /\ n = Len(t)
      BY <1>0, Zenon
    <3>2. i \in 1..n /\ m + i \in 1..m + n /\ ~(m + i <= m) /\ (m + i) - m = i
      BY <3>1
    <3>3. \A j \in 1..m + n : u[j] = IF j <= m THEN s[j] ELSE t[j - m]
      BY <1>1, <3>1, Zenon
    <3>4. u[m + i] = t[(m + i) - m]
      BY <3>2, <3>3, Zenon
    <3>5. QED
      BY <3>1, <3>2, <3>4, Zenon
  <2>3. QED
    BY <2>1, <2>2, SeqEqual
<1>3. ASSUME NEW off \in Nat, NEW k \in Nat, off + k <= Len(s)
      PROVE  Slice(u, off, k) = Slice(s, off, k)
  <2>1. /\ Slice(u, off, k) \in Seq(S) /\ Len(Slice(u, off, k)) = k
        /\ \A i \in 1..k : Slice(u, off, k)[i] = u[off + i]
    <3>1. off + k <= Len(u)
      BY <1>0, <1>u, <1>3
    <3>2. QED
      BY <1>u, <3>1, SliceType
  <2>2. /\ Slice(s, off, k) \in Seq(S) /\ Len(Slice(s, off, k)) = k
        /\ \A i \in 1..k : Slice(s, off, k)[i] = s[off + i]
    BY <1>3, SliceType
  <2>3. \A i \in 1..k : u[off + i] = s[off + i]
    BY <1>0, <1>1, <1>3
  <2>4. QED
    BY <2>1, <2>2, <2>3, SeqEqual
<1>4. QED
  BY <1>1, <1>2, <1>3 DEF u

-----------------------------------------------------------------------------
(* Numbers in bytes *)

\* The ranges are numbers.
LEMMA Ranges ==
  /\ Base \in Nat \ {0, 1} /\ Range16 \in Nat \ {0, 1}
  /\ Range32 \in Nat \ {0, 1} /\ Range64 \in Nat \ {0, 1}
<1>1. ASSUME NEW R \in Nat \ {0, 1} PROVE R * R \in Nat \ {0, 1}
  OBVIOUS
<1>2. Range16 \in Nat \ {0, 1}
  BY <1>1, BaseAssumption DEF Range16
<1>3. Range32 \in Nat \ {0, 1}
  BY <1>1, <1>2 DEF Range32
<1>4. Range64 \in Nat \ {0, 1}
  BY <1>1, <1>3 DEF Range64
<1>5. QED
  BY <1>2, <1>3, <1>4, BaseAssumption

\* Whatever is put, bytes of the field's width come of it.
LEMMA PutType ==
  ASSUME NEW n \in Nat
  PROVE  /\ Put16(n) \in Seq(Bytes) /\ Len(Put16(n)) = 2
         /\ Put32(n) \in Seq(Bytes) /\ Len(Put32(n)) = 4
         /\ Put64(n) \in Seq(Bytes) /\ Len(Put64(n)) = 8
<1>1. ASSUME NEW R \in Nat \ {0}, NEW k \in Nat
      PROVE  k % R \in Nat /\ k % R <= R - 1 /\ k \div R \in Nat
  OBVIOUS
<1>2. ASSUME NEW k \in Nat PROVE Put16(k) \in Seq(Bytes) /\ Len(Put16(k)) = 2
  <2>1. (k \div Base) % Base \in Bytes /\ k % Base \in Bytes
    BY <1>1, Ranges DEF Bytes
  <2>2. QED
    BY <2>1 DEF Put16
<1>3. ASSUME NEW k \in Nat PROVE Put32(k) \in Seq(Bytes) /\ Len(Put32(k)) = 4
  <2>1. ASSUME NEW i \in Nat, NEW j \in Nat
        PROVE  Put16(i) \o Put16(j) \in Seq(Bytes) /\ Len(Put16(i) \o Put16(j)) = 4
    <3> DEFINE x == Put16(i)
               y == Put16(j)
    <3>1. x \in Seq(Bytes) /\ Len(x) = 2 /\ y \in Seq(Bytes) /\ Len(y) = 2
      BY <1>2
    <3> HIDE DEF x, y
    <3>2. x \o y \in Seq(Bytes) /\ Len(x \o y) = Len(x) + Len(y)
      BY <3>1, ConcatProperties
    <3>3. x \o y \in Seq(Bytes) /\ Len(x \o y) = 4
      BY <3>1, <3>2
    <3>4. QED
      BY <3>3 DEF x, y
  <2>2. (k \div Range16) % Range16 \in Nat /\ k % Range16 \in Nat
    BY <1>1, Ranges
  <2>3. QED
    BY <2>1, <2>2, Zenon DEF Put32
<1>4. Put64(n) \in Seq(Bytes) /\ Len(Put64(n)) = 8
  <2>1. ASSUME NEW i \in Nat, NEW j \in Nat
        PROVE  Put32(i) \o Put32(j) \in Seq(Bytes) /\ Len(Put32(i) \o Put32(j)) = 8
    <3> DEFINE x == Put32(i)
               y == Put32(j)
    <3>1. x \in Seq(Bytes) /\ Len(x) = 4 /\ y \in Seq(Bytes) /\ Len(y) = 4
      BY <1>3
    <3> HIDE DEF x, y
    <3>2. x \o y \in Seq(Bytes) /\ Len(x \o y) = Len(x) + Len(y)
      BY <3>1, ConcatProperties
    <3>3. x \o y \in Seq(Bytes) /\ Len(x \o y) = 8
      BY <3>1, <3>2
    <3>4. QED
      BY <3>3 DEF x, y
  <2>2. (n \div Range32) % Range32 \in Nat /\ n % Range32 \in Nat
    BY <1>1, Ranges
  <2>3. QED
    BY <2>1, <2>2, Zenon DEF Put64
<1>5. QED
  BY <1>2, <1>3, <1>4

\* What is read from bytes is in the field's range and gives the bytes again.
LEMMA Repack16 ==
  ASSUME NEW data \in Seq(Bytes), NEW off \in Nat, off + 2 <= Len(data)
  PROVE  /\ Get16(data, off) \in 0..Range16 - 1
         /\ Put16(Get16(data, off)) = Slice(data, off, 2)
<1> DEFINE a == data[off + 1]
           b == data[off + 2]
           n == Get16(data, off)
<1>1. a \in 0..Base - 1 /\ b \in 0..Base - 1
  <2>1. off + 1 \in 1..Len(data) /\ off + 2 \in 1..Len(data)
    BY LenProperties
  <2>2. QED
    BY <2>1, ElementOfSeq DEF Bytes
<1>2. n = Base * a + b
  BY DEF Get16
<1> HIDE DEF a, b, n
<1>3. n \in 0..Range16 - 1 /\ n \div Base = a /\ n % Base = b
  BY <1>1, <1>2, Ranges, Compose DEF Range16
<1>4. a % Base = a
  BY <1>1, Ranges
<1>5. Put16(n) = <<a, b>>
  BY <1>3, <1>4 DEF Put16
<1>6. Slice(data, off, 2) = <<a, b>>
  <2>0. PICK k \in Nat : k = 2
    OBVIOUS
  <2>1. off + k <= Len(data)
    BY <2>0
  <2> DEFINE s == Slice(data, off, k)
  <2>2. s \in Seq(Bytes) /\ Len(s) = k /\ \A i \in 1..k : s[i] = data[off + i]
    BY <2>1, SliceType
  <2> HIDE DEF s
  <2>3. s[1] = a /\ s[2] = b
    BY <2>0, <2>2 DEF a, b
  <2>4. s = <<a, b>>
    BY <1>1, <2>0, <2>2, <2>3 DEF Bytes
  <2>5. QED
    BY <2>0, <2>4 DEF s
<1>7. QED
  BY <1>3, <1>5, <1>6 DEF n

\* The same of 32 bits.
LEMMA Repack32 ==
  ASSUME NEW data \in Seq(Bytes), NEW off \in Nat, off + 4 <= Len(data)
  PROVE  /\ Get32(data, off) \in 0..Range32 - 1
         /\ Put32(Get32(data, off)) = Slice(data, off, 4)
<1> DEFINE a == Get16(data, off)
           b == Get16(data, off + 2)
           n == Get32(data, off)
<1>1. /\ a \in 0..Range16 - 1 /\ Put16(a) = Slice(data, off, 2)
      /\ b \in 0..Range16 - 1 /\ Put16(b) = Slice(data, off + 2, 2)
  BY Repack16
<1>2. n = Range16 * a + b
  BY DEF Get32
<1> HIDE DEF a, b, n
<1>3. n \in 0..Range32 - 1 /\ n \div Range16 = a /\ n % Range16 = b
  BY <1>1, <1>2, Ranges, Compose DEF Range32
<1>4. a % Range16 = a
  BY <1>1, Ranges
<1>5. Put32(n) = Put16(a) \o Put16(b)
  BY <1>3, <1>4 DEF Put32
<1>6. Slice(data, off, 2) \o Slice(data, off + 2, 2) = Slice(data, off, 2 + 2)
  BY Glue
<1>7. QED
  BY <1>1, <1>3, <1>5, <1>6 DEF n

\* And of 64 bits.
LEMMA Repack64 ==
  ASSUME NEW data \in Seq(Bytes), NEW off \in Nat, off + 8 <= Len(data)
  PROVE  /\ Get64(data, off) \in 0..Range64 - 1
         /\ Put64(Get64(data, off)) = Slice(data, off, 8)
<1> DEFINE a == Get32(data, off)
           b == Get32(data, off + 4)
           n == Get64(data, off)
<1>1. /\ a \in 0..Range32 - 1 /\ Put32(a) = Slice(data, off, 4)
      /\ b \in 0..Range32 - 1 /\ Put32(b) = Slice(data, off + 4, 4)
  BY Repack32
<1>2. n = Range32 * a + b
  BY DEF Get64
<1> HIDE DEF a, b, n
<1>3. n \in 0..Range64 - 1 /\ n \div Range32 = a /\ n % Range32 = b
  BY <1>1, <1>2, Ranges, Compose DEF Range64
<1>4. a % Range32 = a
  BY <1>1, Ranges
<1>5. Put64(n) = Put32(a) \o Put32(b)
  BY <1>3, <1>4 DEF Put64
<1>6. Slice(data, off, 4) \o Slice(data, off + 4, 4) = Slice(data, off, 4 + 4)
  BY Glue
<1>7. QED
  BY <1>1, <1>3, <1>5, <1>6 DEF n

-----------------------------------------------------------------------------
(* Unmarshalling *)

\* One byte is a slice.
LEMMA SliceOne ==
  ASSUME NEW S, NEW data \in Seq(S), NEW off \in Nat, off + 1 <= Len(data)
  PROVE  Slice(data, off, 1) = <<data[off + 1]>>
<1>0. PICK k \in Nat : k = 1
  OBVIOUS
<1> DEFINE s == Slice(data, off, k)
<1>1. off + k <= Len(data)
  BY <1>0
<1>2. s \in Seq(S) /\ Len(s) = k /\ \A i \in 1..k : s[i] = data[off + i]
  BY <1>1, SliceType
<1> HIDE DEF s
<1>3. s[1] = data[off + 1]
  BY <1>0, <1>2
<1>4. s = <<data[off + 1]>>
  BY <1>0, <1>2, <1>3
<1>5. QED
  BY <1>0, <1>4 DEF s

\* A beginning and the slice after it.
LEMMA Extend ==
  ASSUME NEW S, NEW data \in Seq(S), NEW a \in Nat, NEW b \in Nat, NEW c \in Nat,
         c = a + b, c <= Len(data)
  PROVE  Slice(data, 0, a) \o Slice(data, a, b) = Slice(data, 0, c)
<1>1. 0 + a + b <= Len(data) /\ 0 + a = a
  OBVIOUS
<1>2. Slice(data, 0, a) \o Slice(data, 0 + a, b) = Slice(data, 0, a + b)
  BY <1>1, Glue
<1>3. QED
  BY <1>1, <1>2

\* The header is the first bytes of what is unmarshalled.
LEMMA HeaderIsThere ==
  ASSUME NEW data \in Seq(Bytes), 18 <= Len(data)
  PROVE  <<data[1]>> \o Put32(Get32(data, 1)) \o Put64(Get64(data, 5)) \o <<data[14]>>
           \o Put32(Get32(data, 14)) = Slice(data, 0, 18)
<1>1. <<data[1]>> = Slice(data, 0, 1)
  BY SliceOne
<1>2. Put32(Get32(data, 1)) = Slice(data, 1, 4)
  BY Repack32
<1>3. Put64(Get64(data, 5)) = Slice(data, 5, 8)
  BY Repack64
<1>4. <<data[14]>> = Slice(data, 13, 1)
  BY SliceOne
<1>5. Put32(Get32(data, 14)) = Slice(data, 14, 4)
  BY Repack32
\* The widths and the offsets, named.
<1>6. PICK w1, w4, w8 \in Nat : w1 = 1 /\ w4 = 4 /\ w8 = 8
  OBVIOUS
<1>7. PICK o5, o13, o14, o18 \in Nat : o5 = 5 /\ o13 = 13 /\ o14 = 14 /\ o18 = 18
  OBVIOUS
<1>8. /\ o5 = w1 + w4 /\ o13 = o5 + w8 /\ o14 = o13 + w1 /\ o18 = o14 + w4
      /\ o5 <= Len(data) /\ o13 <= Len(data) /\ o14 <= Len(data) /\ o18 <= Len(data)
  BY <1>6, <1>7, LenProperties
<1>9. Slice(data, 0, w1) \o Slice(data, w1, w4) = Slice(data, 0, o5)
  BY <1>8, Extend
<1>10. Slice(data, 0, o5) \o Slice(data, o5, w8) = Slice(data, 0, o13)
  BY <1>8, Extend
<1>11. Slice(data, 0, o13) \o Slice(data, o13, w1) = Slice(data, 0, o14)
  BY <1>8, Extend
<1>12. Slice(data, 0, o14) \o Slice(data, o14, w4) = Slice(data, 0, o18)
  BY <1>8, Extend
<1>13. QED
  BY <1>1, <1>2, <1>3, <1>4, <1>5, <1>6, <1>7, <1>9, <1>10, <1>11, <1>12, Zenon

\* The additional data, as make and copy make it, are a slice when they are all
\* there.
LEMMA CopyIsThere ==
  ASSUME NEW data \in Seq(Bytes), NEW off \in Nat, NEW m \in Nat, off + m <= Len(data)
  PROVE  [i \in 1..m |-> IF off + i <= Len(data) THEN data[off + i] ELSE 0]
           = Slice(data, off, m)
<1> DEFINE s == Slice(data, off, m)
<1>1. s \in Seq(Bytes) /\ Len(s) = m /\ \A i \in 1..m : s[i] = data[off + i]
  BY SliceType
<1> HIDE DEF s
<1>2. \A i \in 1..m : off + i <= Len(data)
  BY LenProperties
<1>3. s = [i \in 1..m |-> s[i]]
  BY <1>1
<1>4. QED
  BY <1>1, <1>2, <1>3 DEF s

\* A frame that passes the length checks is what the data begin with.
LEMMA AcceptedIsThere ==
  ASSUME NEW data \in Seq(Bytes)
  PROVE  \A n, m \in Nat :
           /\ n = Get32(data, 14) /\ m = Get16(data, 18 + n)
           /\ 18 <= Len(data) /\ 18 + n + 2 + m <= Len(data)
           => BeginsWith(data, Marshal(Parsed(data, n, m)))
<1>0. SUFFICES ASSUME NEW n \in Nat, NEW m \in Nat,
                      n = Get32(data, 14), m = Get16(data, 18 + n),
                      18 <= Len(data), 18 + n + 2 + m <= Len(data)
               PROVE  BeginsWith(data, Marshal(Parsed(data, n, m)))
  OBVIOUS
\* The offsets, named.
<1>1. PICK h, a, b, c \in Nat :
        h = 18 /\ a = 18 + n /\ b = 18 + n + 2 /\ c = 18 + n + 2 + m
  OBVIOUS
<1>2. PICK w \in Nat : w = 2
  OBVIOUS
<1>3. a = h + n /\ b = a + w /\ c = b + m
  BY <1>1, <1>2
<1>4. Len(data) \in Nat /\ h <= Len(data) /\ b <= Len(data) /\ c <= Len(data)
  <2>1. PICK L \in Nat : L = Len(data)
    BY LenProperties, Zenon
  <2>2. h <= L /\ c <= L
    BY <1>0, <1>1, <2>1, Zenon
  <2>3. b <= L
    BY <1>3, <2>2
  <2>4. QED
    BY <2>1, <2>2, <2>3, Zenon
<1>5. HeaderSize = h
  BY <1>1 DEF HeaderSize
<1> DEFINE f == Parsed(data, n, m)
<1>6. f.payload = Slice(data, h, n) /\ Len(f.payload) = n
  <2>1. f.payload = Slice(data, h, n)
    BY <1>5 DEF Parsed, Slice
  <2>2. h + n <= Len(data)
    BY <1>3, <1>4
  <2>3. Len(Slice(data, h, n)) = n
    BY <2>2, SliceType
  <2>4. QED
    BY <2>1, <2>3
<1>7. f.aad = Slice(data, b, m) /\ Len(f.aad) = m
  <2>1. f.aad = [i \in 1..m |-> IF b + i <= Len(data) THEN data[b + i] ELSE 0]
    <3>1. h + n + 2 = b
      BY <1>1
    <3>2. QED
      BY <1>5, <3>1, Zenon DEF Parsed
  <2>2. b + m <= Len(data)
    BY <1>3, <1>4
  <2>3. f.aad = Slice(data, b, m)
    BY <2>1, <2>2, CopyIsThere
  <2>4. Len(Slice(data, b, m)) = m
    BY <2>2, SliceType
  <2>5. QED
    BY <2>3, <2>4
<1>8. /\ f.version = data[1] /\ f.streamID = Get32(data, 1)
      /\ f.sequenceNo = Get64(data, 5) /\ f.flags = data[14]
  BY DEF Parsed
<1> HIDE DEF f
<1>9. <<f.version>> \o Put32(f.streamID) \o Put64(f.sequenceNo) \o <<f.flags>>
        \o Put32(Len(f.payload)) = Slice(data, 0, h)
  BY <1>0, <1>1, <1>6, <1>8, HeaderIsThere, Zenon
<1>10. Put16(Len(f.aad)) = Slice(data, a, w)
  <2>1. 18 + n \in Nat /\ 18 + n + 2 <= Len(data)
    BY <1>0, <1>4
  <2>2. Put16(Get16(data, 18 + n)) = Slice(data, 18 + n, 2)
    BY <2>1, Repack16
  <2>3. QED
    BY <1>0, <1>1, <1>2, <1>7, <2>2, Zenon
<1>11. Marshal(f) = Slice(data, 0, h) \o Slice(data, h, n) \o Slice(data, a, w)
                      \o Slice(data, b, m)
  BY <1>6, <1>7, <1>9, <1>10, Zenon DEF Marshal
<1>12. Marshal(f) = Slice(data, 0, c)
  <2>1. Slice(data, 0, h) \o Slice(data, h, n) = Slice(data, 0, a)
    <3>1. a <= Len(data)
      BY <1>2, <1>3, <1>4
    <3>2. QED
      BY <1>3, <3>1, Extend
  <2>2. Slice(data, 0, a) \o Slice(data, a, w) = Slice(data, 0, b)
    BY <1>3, <1>4, Extend
  <2>3. Slice(data, 0, b) \o Slice(data, b, m) = Slice(data, 0, c)
    BY <1>3, <1>4, Extend
  <2>4. QED
    BY <1>11, <2>1, <2>2, <2>3, Zenon
<1>13. Slice(data, 0, c) = SubSeq(data, 1, c) /\ Len(Slice(data, 0, c)) = c
  <2>1. 0 + c <= Len(data)
    BY <1>4
  <2>2. Len(Slice(data, 0, c)) = c
    BY <2>1, SliceType
  <2>3. QED
    BY <2>2 DEF Slice
<1>14. QED
  BY <1>4, <1>12, <1>13 DEF BeginsWith, f

\* The lengths that the data tell, and data that are as long as that.
PayloadLen(data) == Get32(data, 14)
AADLen(data) == Get16(data, 18 + PayloadLen(data))
Whole(data) ==
  /\ 18 <= Len(data)
  /\ 18 + PayloadLen(data) + 2 <= Len(data)
  /\ 18 + PayloadLen(data) + 2 + AADLen(data) <= Len(data)

\* Such data are accepted and all others are refused.
LEMMA UnmarshalEnds ==
  ASSUME NEW data \in Seq(Bytes)
  PROVE  /\ Whole(data) =>
              /\ PayloadLen(data) \in 0..Range32 - 1 /\ AADLen(data) \in 0..Range16 - 1
              /\ Unmarshal(data) =
                   [end |-> "ok", frame |-> Parsed(data, PayloadLen(data), AADLen(data))]
         /\ ~Whole(data) => Unmarshal(data) = [end |-> "error"]
<1> DEFINE n == PayloadLen(data)
           m == AADLen(data)
<1>h. HeaderSize = 18 /\ HeaderSize - 4 = 14
  BY DEF HeaderSize
<1>l. Len(data) \in Nat
  BY LenProperties
<1>u. Unmarshal(data) =
        IF Len(data) < 18 THEN [end |-> "error"]
        ELSE IF ~PayloadFits(data, n) THEN [end |-> "error"]
        ELSE IF Len(data) < 18 + n + 2 THEN [end |-> "panic"]
        ELSE IF ~AADFits(data, n, m) THEN [end |-> "error"]
        ELSE [end |-> "ok", frame |-> Parsed(data, n, m)]
  BY <1>h, Zenon DEF Unmarshal, PayloadLen, AADLen
<1>p. PayloadFits(data, n) <=> 18 + n + 2 <= Len(data)
  BY <1>h, Zenon DEF PayloadFits
<1>a. AADFits(data, n, m) <=> 18 + n + 2 + m <= Len(data)
  BY <1>h, Zenon DEF AADFits
<1> HIDE DEF n, m
<1>1. CASE Len(data) < 18
  BY <1>1, <1>l, <1>u DEF Whole
<1>2. CASE Len(data) >= 18
  <2>1. n \in 0..Range32 - 1
    BY <1>2, Repack32 DEF n, PayloadLen
  <2>n. n \in Nat
    BY <2>1, Ranges
  <2>2. CASE ~PayloadFits(data, n)
    <3>1. Unmarshal(data) = [end |-> "error"]
      BY <1>2, <1>l, <1>u, <2>2
    <3>2. ~Whole(data)
      BY <1>p, <2>2 DEF Whole, n
    <3>3. QED
      BY <3>1, <3>2
  <2>3. CASE PayloadFits(data, n)
    <3>1. 18 + n + 2 <= Len(data)
      BY <1>p, <2>3
    <3>2. m \in 0..Range16 - 1
      <4>1. 18 + n \in Nat
        BY <2>n
      <4>2. Get16(data, 18 + n) \in 0..Range16 - 1
        BY <3>1, <4>1, Repack16
      <4>3. QED
        BY <4>2 DEF m, n, AADLen
    <3>3. CASE ~AADFits(data, n, m)
      <4>1. Unmarshal(data) = [end |-> "error"]
        BY <1>2, <1>l, <1>u, <2>n, <2>3, <3>1, <3>3
      <4>2. ~Whole(data)
        BY <1>a, <3>3 DEF Whole, n, m
      <4>3. QED
        BY <4>1, <4>2
    <3>4. CASE AADFits(data, n, m)
      <4>1. Unmarshal(data) = [end |-> "ok", frame |-> Parsed(data, n, m)]
        BY <1>2, <1>l, <1>u, <2>n, <2>3, <3>1, <3>4
      <4>2. Whole(data)
        <5>1. 18 <= Len(data)
          BY <1>2, <1>l
        <5>2. QED
          BY <1>a, <3>1, <3>4, <5>1, Zenon DEF Whole, n, m
      <4>3. QED
        BY <2>1, <3>2, <4>1, <4>2, Zenon DEF n, m
    <3>5. QED
      BY <3>3, <3>4
  <2>4. QED
    BY <2>2, <2>3
<1>3. QED
  BY <1>1, <1>2, <1>l

\* messageFrame.unmarshal, of any bytes at all: it reads nothing outside them, and
\* the frame it accepts is what they begin with.
THEOREM EverythingIsReadSoundly == \A data \in Seq(Bytes) : ReadSoundly(data)
<1> SUFFICES ASSUME NEW data \in Seq(Bytes) PROVE ReadSoundly(data)
  OBVIOUS
<1>1. CASE ~Whole(data)
  <2>1. Unmarshal(data) = [end |-> "error"]
    BY <1>1, UnmarshalEnds
  <2>2. QED
    BY <2>1 DEF ReadSoundly
<1>2. CASE Whole(data)
  <2> DEFINE n == PayloadLen(data)
             m == AADLen(data)
  <2>1. n \in 0..Range32 - 1 /\ m \in 0..Range16 - 1
    BY <1>2, UnmarshalEnds
  <2>2. n \in Nat /\ m \in Nat
    BY <2>1, Ranges
  <2>3. Unmarshal(data) = [end |-> "ok", frame |-> Parsed(data, n, m)]
    BY <1>2, UnmarshalEnds
  <2>4. BeginsWith(data, Marshal(Parsed(data, n, m)))
    BY <1>2, <2>2, AcceptedIsThere, Zenon DEF Whole, PayloadLen, AADLen
  <2>5. QED
    BY <2>3, <2>4 DEF ReadSoundly
<1>3. QED
  BY <1>1, <1>2

-----------------------------------------------------------------------------
(* Marshalling *)

\* Two concatenations of equal parts in length are equal part by part.
LEMMA SameParts ==
  ASSUME NEW S, NEW s \in Seq(S), NEW t \in Seq(S), NEW u \in Seq(S), NEW v \in Seq(S),
         Len(s) = Len(u), Len(t) = Len(v), s \o t = u \o v
  PROVE  s = u /\ t = v
<1>1. t = v
  <2>1. Slice(s \o t, Len(s), Len(t)) = t
    BY Unglue
  <2>2. Slice(u \o v, Len(u), Len(v)) = v
    BY Unglue
  <2>3. QED
    BY <2>1, <2>2, Zenon
<1>2. s = u
  <2>1. /\ \A i \in 1 .. Len(s) + Len(t) : (s \o t)[i] = IF i <= Len(s) THEN s[i] ELSE t[i - Len(s)]
        /\ \A i \in 1 .. Len(u) + Len(v) : (u \o v)[i] = IF i <= Len(u) THEN u[i] ELSE v[i - Len(u)]
    BY ConcatProperties
  <2>2. Len(s) \in Nat /\ Len(t) \in Nat
    BY LenProperties
  <2>3. ASSUME NEW i \in 1..Len(s) PROVE s[i] = u[i]
    <3>1. i \in 1..Len(s) + Len(t) /\ i <= Len(s)
      BY <2>2
    <3>2. (s \o t)[i] = s[i] /\ (u \o v)[i] = u[i]
      BY <2>1, <3>1, Zenon
    <3>3. QED
      BY <3>2, Zenon
  <2>4. QED
    BY <2>3, SeqEqual
<1>3. QED
  BY <1>1, <1>2

\* Different numbers of a field's range are put differently.
LEMMA Inject16 ==
  ASSUME NEW n \in 0..Range16 - 1, NEW k \in 0..Range16 - 1, Put16(n) = Put16(k)
  PROVE  n = k
<1>1. ASSUME NEW i \in 0..Range16 - 1
      PROVE  /\ Put16(i) = <<i \div Base, i % Base>>
             /\ Base * (i \div Base) + (i % Base) = i
  <2>1. i \div Base \in 0..Base - 1 /\ Base * (i \div Base) + (i % Base) = i
    BY Ranges, Decompose DEF Range16
  <2>2. ASSUME NEW q \in 0..Base - 1 PROVE q % Base = q
    BY Ranges
  <2>3. (i \div Base) % Base = i \div Base
    BY <2>1, <2>2
  <2>4. QED
    BY <2>1, <2>3, Zenon DEF Put16
<1>2. <<n \div Base, n % Base>> = <<k \div Base, k % Base>>
  BY <1>1, Zenon
<1>3. n \div Base = k \div Base /\ n % Base = k % Base
  BY <1>2
<1>4. QED
  BY <1>1, <1>3, Zenon

\* The same of 32 bits.
LEMMA Inject32 ==
  ASSUME NEW n \in 0..Range32 - 1, NEW k \in 0..Range32 - 1, Put32(n) = Put32(k)
  PROVE  n = k
<1>1. ASSUME NEW i \in 0..Range32 - 1
      PROVE  /\ i \div Range16 \in 0..Range16 - 1 /\ i % Range16 \in 0..Range16 - 1
             /\ Put32(i) = Put16(i \div Range16) \o Put16(i % Range16)
             /\ Range16 * (i \div Range16) + (i % Range16) = i
  <2>1. /\ i \div Range16 \in 0..Range16 - 1 /\ i % Range16 \in 0..Range16 - 1
        /\ Range16 * (i \div Range16) + (i % Range16) = i
    BY Ranges, Decompose DEF Range32
  <2>2. ASSUME NEW q \in 0..Range16 - 1 PROVE q % Range16 = q
    BY Ranges
  <2>3. (i \div Range16) % Range16 = i \div Range16
    BY <2>1, <2>2
  <2>4. QED
    BY <2>1, <2>3, Zenon DEF Put32
<1>2. n \div Range16 = k \div Range16 /\ n % Range16 = k % Range16
  <2>1. /\ n \div Range16 \in 0..Range16 - 1 /\ n % Range16 \in 0..Range16 - 1
        /\ k \div Range16 \in 0..Range16 - 1 /\ k % Range16 \in 0..Range16 - 1
    BY <1>1, Zenon
  <2>2. Put16(n \div Range16) \o Put16(n % Range16) = Put16(k \div Range16) \o Put16(k % Range16)
    BY <1>1, Zenon
  <2>3. PICK a, b, c, d \in 0..Range16 - 1 :
          a = n \div Range16 /\ b = n % Range16 /\ c = k \div Range16 /\ d = k % Range16
    BY <2>1, Zenon
  <2>4. Put16(a) \o Put16(b) = Put16(c) \o Put16(d)
    BY <2>2, <2>3, Zenon
  <2>5. a = c /\ b = d
    <3>1. a \in Nat /\ b \in Nat /\ c \in Nat /\ d \in Nat
      BY Ranges
    <3>2. /\ Put16(a) \in Seq(Bytes) /\ Put16(b) \in Seq(Bytes)
          /\ Put16(c) \in Seq(Bytes) /\ Put16(d) \in Seq(Bytes)
          /\ Len(Put16(a)) = Len(Put16(c)) /\ Len(Put16(b)) = Len(Put16(d))
      BY <3>1, PutType
    <3>3. Put16(a) = Put16(c) /\ Put16(b) = Put16(d)
      BY <2>4, <3>2, SameParts, Zenon
    <3>4. QED
      BY <3>3, Inject16
  <2>6. QED
    BY <2>3, <2>5, Zenon
<1>3. QED
  BY <1>1, <1>2, Zenon

\* And of 64 bits.
LEMMA Inject64 ==
  ASSUME NEW n \in 0..Range64 - 1, NEW k \in 0..Range64 - 1, Put64(n) = Put64(k)
  PROVE  n = k
<1>1. ASSUME NEW i \in 0..Range64 - 1
      PROVE  /\ i \div Range32 \in 0..Range32 - 1 /\ i % Range32 \in 0..Range32 - 1
             /\ Put64(i) = Put32(i \div Range32) \o Put32(i % Range32)
             /\ Range32 * (i \div Range32) + (i % Range32) = i
  <2>1. /\ i \div Range32 \in 0..Range32 - 1 /\ i % Range32 \in 0..Range32 - 1
        /\ Range32 * (i \div Range32) + (i % Range32) = i
    BY Ranges, Decompose DEF Range64
  <2>2. ASSUME NEW q \in 0..Range32 - 1 PROVE q % Range32 = q
    BY Ranges
  <2>3. (i \div Range32) % Range32 = i \div Range32
    BY <2>1, <2>2
  <2>4. QED
    BY <2>1, <2>3, Zenon DEF Put64
<1>2. n \div Range32 = k \div Range32 /\ n % Range32 = k % Range32
  <2>1. /\ n \div Range32 \in 0..Range32 - 1 /\ n % Range32 \in 0..Range32 - 1
        /\ k \div Range32 \in 0..Range32 - 1 /\ k % Range32 \in 0..Range32 - 1
    BY <1>1, Zenon
  <2>2. Put32(n \div Range32) \o Put32(n % Range32) = Put32(k \div Range32) \o Put32(k % Range32)
    BY <1>1, Zenon
  <2>3. PICK a, b, c, d \in 0..Range32 - 1 :
          a = n \div Range32 /\ b = n % Range32 /\ c = k \div Range32 /\ d = k % Range32
    BY <2>1, Zenon
  <2>4. Put32(a) \o Put32(b) = Put32(c) \o Put32(d)
    BY <2>2, <2>3, Zenon
  <2>5. a = c /\ b = d
    <3>1. a \in Nat /\ b \in Nat /\ c \in Nat /\ d \in Nat
      BY Ranges
    <3>2. /\ Put32(a) \in Seq(Bytes) /\ Put32(b) \in Seq(Bytes)
          /\ Put32(c) \in Seq(Bytes) /\ Put32(d) \in Seq(Bytes)
          /\ Len(Put32(a)) = Len(Put32(c)) /\ Len(Put32(b)) = Len(Put32(d))
      BY <3>1, PutType
    <3>3. Put32(a) = Put32(c) /\ Put32(b) = Put32(d)
      BY <2>4, <3>2, SameParts, Zenon
    <3>4. QED
      BY <3>3, Inject32
  <2>6. QED
    BY <2>3, <2>5, Zenon
<1>3. QED
  BY <1>1, <1>2, Zenon

\* Frames with any contents; streamID is a uint32 and sequenceNo a uint64.
AnyFrames == [version : Bytes, streamID : 0..Range32 - 1, sequenceNo : 0..Range64 - 1,
              flags : Bytes, payload : Seq(Bytes), aad : Seq(Bytes)]

\* x is what lies in u after the first o bytes.
Lies(x, u, o) == o + Len(x) <= Len(u) /\ Slice(u, o, Len(x)) = x

\* What lies in a sequence stays there when a part t is appended, and t lies at
\* the end.
LEMMA Appended ==
  ASSUME NEW s \in Seq(Bytes), NEW t \in Seq(Bytes)
  PROVE  /\ s \o t \in Seq(Bytes) /\ Len(s \o t) = Len(s) + Len(t)
         /\ Lies(t, s \o t, Len(s))
         /\ \A x \in Seq(Bytes), o \in Nat : Lies(x, s, o) => Lies(x, s \o t, o)
<1> DEFINE u == s \o t
<1>1. /\ u \in Seq(Bytes) /\ Len(u) = Len(s) + Len(t)
      /\ Slice(u, Len(s), Len(t)) = t
      /\ \A o, k \in Nat : o + k <= Len(s) => Slice(u, o, k) = Slice(s, o, k)
  BY Unglue
<1>2. Len(s) \in Nat /\ Len(t) \in Nat
  BY LenProperties
<1> HIDE DEF u
<1>3. Lies(t, u, Len(s))
  BY <1>1, <1>2 DEF Lies
<1>4. ASSUME NEW x \in Seq(Bytes), NEW o \in Nat, Lies(x, s, o) PROVE Lies(x, u, o)
  <2>1. PICK k \in Nat : k = Len(x)
    BY LenProperties
  <2>2. o + k <= Len(s) /\ Slice(s, o, k) = x
    BY <1>4, <2>1, Zenon DEF Lies
  <2>3. Slice(u, o, k) = x
    BY <1>1, <2>2
  <2>4. o + k <= Len(u)
    BY <1>1, <1>2, <2>2
  <2>5. QED
    BY <2>1, <2>3, <2>4, Zenon DEF Lies
<1>5. QED
  BY <1>1, <1>3, <1>4 DEF u

\* Where the parts of a marshalled frame lie.
LEMMA MarshalLayout ==
  ASSUME NEW f \in AnyFrames, NEW n \in Nat, NEW m \in Nat,
         Len(f.payload) = n, Len(f.aad) = m
  PROVE  /\ Marshal(f) \in Seq(Bytes) /\ Len(Marshal(f)) = 18 + n + 2 + m
         /\ Lies(<<f.version>>, Marshal(f), 0)
         /\ Lies(Put32(f.streamID), Marshal(f), 1)
         /\ Lies(Put64(f.sequenceNo), Marshal(f), 5)
         /\ Lies(<<f.flags>>, Marshal(f), 13)
         /\ Lies(Put32(n), Marshal(f), 14)
         /\ Lies(f.payload, Marshal(f), 18)
         /\ Lies(Put16(m), Marshal(f), 18 + n)
         /\ Lies(f.aad, Marshal(f), 18 + n + 2)
\* The parts, their lengths and the offsets, named.
<1>1. /\ <<f.version>> \in Seq(Bytes) /\ Len(<<f.version>>) = 1
      /\ <<f.flags>> \in Seq(Bytes) /\ Len(<<f.flags>>) = 1
      /\ f.payload \in Seq(Bytes) /\ f.aad \in Seq(Bytes)
      /\ f.streamID \in Nat /\ f.sequenceNo \in Nat
  BY Ranges DEF AnyFrames
<1>2. PICK x1, x2, x3, x4, x5, x6, x7, x8 \in Seq(Bytes) :
        /\ x1 = <<f.version>> /\ x2 = Put32(f.streamID) /\ x3 = Put64(f.sequenceNo)
        /\ x4 = <<f.flags>> /\ x5 = Put32(n) /\ x6 = f.payload /\ x7 = Put16(m)
        /\ x8 = f.aad
  BY <1>1, PutType, Zenon
<1>3. PICK w1, w2, w4, w8 \in Nat : w1 = 1 /\ w2 = 2 /\ w4 = 4 /\ w8 = 8
  OBVIOUS
<1>4. PICK o0, o1, o5, o13, o14, o18 \in Nat :
        o0 = 0 /\ o1 = 1 /\ o5 = 5 /\ o13 = 13 /\ o14 = 14 /\ o18 = 18
  OBVIOUS
<1>5. PICK a, b, c \in Nat : a = 18 + n /\ b = 18 + n + 2 /\ c = 18 + n + 2 + m
  OBVIOUS
<1>6. /\ Len(x1) = o1 /\ Len(x2) = w4 /\ Len(x3) = w8 /\ Len(x4) = w1 /\ Len(x5) = w4
      /\ Len(x6) = n /\ Len(x7) = w2 /\ Len(x8) = m
  BY <1>1, <1>2, <1>3, <1>4, PutType
<1>7. /\ o5 = o1 + w4 /\ o13 = o5 + w8 /\ o14 = o13 + w1 /\ o18 = o14 + w4
      /\ a = o18 + n /\ b = a + w2 /\ c = b + m
  BY <1>3, <1>4, <1>5
\* The first of the parts, and with one more at a time.
<1> DEFINE b2 == x1 \o x2
           b3 == b2 \o x3
           b4 == b3 \o x4
           b5 == b4 \o x5
           b6 == b5 \o x6
           b7 == b6 \o x7
           b8 == b7 \o x8
<1> HIDE DEF b2, b3, b4, b5, b6, b7, b8
<1>8. Marshal(f) = b8
  BY <1>2, Zenon DEF Marshal, b2, b3, b4, b5, b6, b7, b8
<1>11. Lies(x1, x1, o0)
  <2>1. Len(x1) \in Nat /\ o0 + Len(x1) <= Len(x1)
    BY <1>4, LenProperties
  <2>2. x1 = <<x1[1]>> /\ Len(x1) = 1
    BY <1>4, <1>6
  <2>3. PICK z \in Nat : z = 0
    OBVIOUS
  <2>4. z + 1 <= Len(x1) /\ z + 1 = 1
    BY <2>2, <2>3
  <2>5. Slice(x1, z, 1) = <<x1[z + 1]>>
    BY <2>4, SliceOne
  <2>6. o0 = z
    BY <1>4, <2>3
  <2>7. QED
    BY <2>1, <2>2, <2>4, <2>5, <2>6, Zenon DEF Lies
<1>12. /\ b2 \in Seq(Bytes) /\ Len(b2) = o5
       /\ Lies(x1, b2, o0) /\ Lies(x2, b2, o1)
  <2>1. /\ b2 \in Seq(Bytes) /\ Len(b2) = Len(x1) + Len(x2) /\ Lies(x2, b2, Len(x1))
        /\ \A x \in Seq(Bytes), o \in Nat : Lies(x, x1, o) => Lies(x, b2, o)
    BY Appended DEF b2
  <2>2. QED
    BY <1>6, <1>7, <1>11, <2>1, Zenon
<1>13. /\ b3 \in Seq(Bytes) /\ Len(b3) = o13
       /\ Lies(x1, b3, o0) /\ Lies(x2, b3, o1) /\ Lies(x3, b3, o5)
  <2>1. /\ b3 \in Seq(Bytes) /\ Len(b3) = Len(b2) + Len(x3) /\ Lies(x3, b3, Len(b2))
        /\ \A x \in Seq(Bytes), o \in Nat : Lies(x, b2, o) => Lies(x, b3, o)
    BY <1>12, Appended DEF b3
  <2>2. QED
    BY <1>6, <1>7, <1>12, <2>1, Zenon
<1>14. /\ b4 \in Seq(Bytes) /\ Len(b4) = o14
       /\ Lies(x1, b4, o0) /\ Lies(x2, b4, o1) /\ Lies(x3, b4, o5) /\ Lies(x4, b4, o13)
  <2>1. /\ b4 \in Seq(Bytes) /\ Len(b4) = Len(b3) + Len(x4) /\ Lies(x4, b4, Len(b3))
        /\ \A x \in Seq(Bytes), o \in Nat : Lies(x, b3, o) => Lies(x, b4, o)
    BY <1>13, Appended DEF b4
  <2>2. QED
    BY <1>6, <1>7, <1>13, <2>1, Zenon
<1>15. /\ b5 \in Seq(Bytes) /\ Len(b5) = o18
       /\ Lies(x1, b5, o0) /\ Lies(x2, b5, o1) /\ Lies(x3, b5, o5) /\ Lies(x4, b5, o13)
       /\ Lies(x5, b5, o14)
  <2>1. /\ b5 \in Seq(Bytes) /\ Len(b5) = Len(b4) + Len(x5) /\ Lies(x5, b5, Len(b4))
        /\ \A x \in Seq(Bytes), o \in Nat : Lies(x, b4, o) => Lies(x, b5, o)
    BY <1>14, Appended DEF b5
  <2>2. QED
    BY <1>6, <1>7, <1>14, <2>1, Zenon
<1>16. /\ b6 \in Seq(Bytes) /\ Len(b6) = a
       /\ Lies(x1, b6, o0) /\ Lies(x2, b6, o1) /\ Lies(x3, b6, o5) /\ Lies(x4, b6, o13)
       /\ Lies(x5, b6, o14) /\ Lies(x6, b6, o18)
  <2>1. /\ b6 \in Seq(Bytes) /\ Len(b6) = Len(b5) + Len(x6) /\ Lies(x6, b6, Len(b5))
        /\ \A x \in Seq(Bytes), o \in Nat : Lies(x, b5, o) => Lies(x, b6, o)
    BY <1>15, Appended DEF b6
  <2>2. QED
    BY <1>6, <1>7, <1>15, <2>1, Zenon
<1>17. /\ b7 \in Seq(Bytes) /\ Len(b7) = b
       /\ Lies(x1, b7, o0) /\ Lies(x2, b7, o1) /\ Lies(x3, b7, o5) /\ Lies(x4, b7, o13)
       /\ Lies(x5, b7, o14) /\ Lies(x6, b7, o18) /\ Lies(x7, b7, a)
  <2>1. /\ b7 \in Seq(Bytes) /\ Len(b7) = Len(b6) + Len(x7) /\ Lies(x7, b7, Len(b6))
        /\ \A x \in Seq(Bytes), o \in Nat : Lies(x, b6, o) => Lies(x, b7, o)
    BY <1>16, Appended DEF b7
  <2>2. QED
    BY <1>6, <1>7, <1>16, <2>1, Zenon
<1>18. /\ b8 \in Seq(Bytes) /\ Len(b8) = c
       /\ Lies(x1, b8, o0) /\ Lies(x2, b8, o1) /\ Lies(x3, b8, o5) /\ Lies(x4, b8, o13)
       /\ Lies(x5, b8, o14) /\ Lies(x6, b8, o18) /\ Lies(x7, b8, a) /\ Lies(x8, b8, b)
  <2>1. /\ b8 \in Seq(Bytes) /\ Len(b8) = Len(b7) + Len(x8) /\ Lies(x8, b8, Len(b7))
        /\ \A x \in Seq(Bytes), o \in Nat : Lies(x, b7, o) => Lies(x, b8, o)
    BY <1>17, Appended DEF b8
  <2>2. QED
    BY <1>6, <1>7, <1>17, <2>1, Zenon
<1>20. QED
  BY <1>2, <1>4, <1>5, <1>8, <1>18, Zenon

\* A number that was put and lies there is read again.
LEMMA ReadAgain ==
  ASSUME NEW data \in Seq(Bytes), NEW off \in Nat
  PROVE  /\ \A v \in Bytes : Lies(<<v>>, data, off) => data[off + 1] = v
         /\ \A v \in 0..Range16 - 1 : Lies(Put16(v), data, off) => Get16(data, off) = v
         /\ \A v \in 0..Range32 - 1 : Lies(Put32(v), data, off) => Get32(data, off) = v
         /\ \A v \in 0..Range64 - 1 : Lies(Put64(v), data, off) => Get64(data, off) = v
<1>8. ASSUME NEW v \in Bytes, Lies(<<v>>, data, off) PROVE data[off + 1] = v
  <2>1. Len(<<v>>) = 1
    OBVIOUS
  <2>2. off + 1 <= Len(data) /\ Slice(data, off, 1) = <<v>>
    BY <1>8, <2>1, Zenon DEF Lies
  <2>3. Slice(data, off, 1) = <<data[off + 1]>>
    BY <2>2, SliceOne
  <2>4. QED
    BY <2>2, <2>3
<1>16. ASSUME NEW v \in 0..Range16 - 1, Lies(Put16(v), data, off) PROVE Get16(data, off) = v
  <2>1. v \in Nat
    BY Ranges
  <2>2. Len(Put16(v)) = 2
    BY <2>1, PutType
  <2>3. off + 2 <= Len(data) /\ Slice(data, off, 2) = Put16(v)
    BY <1>16, <2>2, Zenon DEF Lies
  <2>4. Get16(data, off) \in 0..Range16 - 1 /\ Put16(Get16(data, off)) = Slice(data, off, 2)
    BY <2>3, Repack16
  <2>5. Put16(Get16(data, off)) = Put16(v)
    BY <2>3, <2>4, Zenon
  <2>6. QED
    BY <2>4, <2>5, Inject16
<1>32. ASSUME NEW v \in 0..Range32 - 1, Lies(Put32(v), data, off) PROVE Get32(data, off) = v
  <2>1. v \in Nat
    BY Ranges
  <2>2. Len(Put32(v)) = 4
    BY <2>1, PutType
  <2>3. off + 4 <= Len(data) /\ Slice(data, off, 4) = Put32(v)
    BY <1>32, <2>2, Zenon DEF Lies
  <2>4. Get32(data, off) \in 0..Range32 - 1 /\ Put32(Get32(data, off)) = Slice(data, off, 4)
    BY <2>3, Repack32
  <2>5. Put32(Get32(data, off)) = Put32(v)
    BY <2>3, <2>4, Zenon
  <2>6. QED
    BY <2>4, <2>5, Inject32
<1>64. ASSUME NEW v \in 0..Range64 - 1, Lies(Put64(v), data, off) PROVE Get64(data, off) = v
  <2>1. v \in Nat
    BY Ranges
  <2>2. Len(Put64(v)) = 8
    BY <2>1, PutType
  <2>3. off + 8 <= Len(data) /\ Slice(data, off, 8) = Put64(v)
    BY <1>64, <2>2, Zenon DEF Lies
  <2>4. Get64(data, off) \in 0..Range64 - 1 /\ Put64(Get64(data, off)) = Slice(data, off, 8)
    BY <2>3, Repack64
  <2>5. Put64(Get64(data, off)) = Put64(v)
    BY <2>3, <2>4, Zenon
  <2>6. QED
    BY <2>4, <2>5, Inject64
<1>1. QED
  BY <1>8, <1>16, <1>32, <1>64, Zenon

\* The lengths of what unmarshal returns are those that the data tell.
LEMMA ParsedLengths ==
  ASSUME NEW data \in Seq(Bytes), NEW n \in Nat, NEW m \in Nat, 18 + n <= Len(data)
  PROVE  Len(Parsed(data, n, m).payload) = n /\ Len(Parsed(data, n, m).aad) = m
<1>1. PICK h \in Nat : h = 18
  OBVIOUS
<1>2. HeaderSize = h /\ h + n <= Len(data)
  BY <1>1 DEF HeaderSize
<1>3. Len(Slice(data, h, n)) = n
  BY <1>2, SliceType
<1>4. Parsed(data, n, m).payload = Slice(data, h, n)
  BY <1>2, Zenon DEF Parsed, Slice
<1>5. Len(Parsed(data, n, m).aad) = m
  BY DEF Parsed
<1>6. QED
  BY <1>3, <1>4, <1>5

\* marshal and unmarshal, of any frame at all: it is restored if and only if its
\* lengths fit their fields.
THEOREM FramesSurviveIffTheyFit == \A f \in AnyFrames : Restored(f) <=> Fits(f)
<1>0. SUFFICES ASSUME NEW f \in AnyFrames PROVE Restored(f) <=> Fits(f)
  OBVIOUS
<1> DEFINE data == Marshal(f)
<1>1. /\ f.version \in Bytes /\ f.streamID \in 0..Range32 - 1
      /\ f.sequenceNo \in 0..Range64 - 1 /\ f.flags \in Bytes
      /\ f.payload \in Seq(Bytes) /\ f.aad \in Seq(Bytes)
  BY DEF AnyFrames
<1>2. PICK n, m \in Nat : n = Len(f.payload) /\ m = Len(f.aad)
  BY <1>1, LenProperties
<1>3. /\ data \in Seq(Bytes) /\ Len(data) = 18 + n + 2 + m
      /\ Lies(<<f.version>>, data, 0) /\ Lies(Put32(f.streamID), data, 1)
      /\ Lies(Put64(f.sequenceNo), data, 5) /\ Lies(<<f.flags>>, data, 13)
      /\ Lies(Put32(n), data, 14) /\ Lies(f.payload, data, 18)
      /\ Lies(Put16(m), data, 18 + n) /\ Lies(f.aad, data, 18 + n + 2)
  BY <1>2, MarshalLayout, Zenon
<1>4. Fits(f) <=> n < Range32 /\ m < Range16
  BY <1>2, Zenon DEF Fits
<1>5. Restored(f) <=> Unmarshal(data).end = "ok" /\ Unmarshal(data).frame = f
  BY Zenon DEF Restored
<1> HIDE DEF data
<1>6. ASSUME Restored(f) PROVE Fits(f)
  <2>1. Whole(data)
    <3>1. SUFFICES ASSUME ~Whole(data) PROVE FALSE
      OBVIOUS
    <3>2. Unmarshal(data) = [end |-> "error"]
      BY <1>3, <3>1, UnmarshalEnds
    <3>3. Unmarshal(data).end = "error"
      BY <3>2
    <3>4. QED
      BY <1>5, <1>6, <3>3
  <2> DEFINE p == PayloadLen(data)
             q == AADLen(data)
  <2>2. /\ p \in 0..Range32 - 1 /\ q \in 0..Range16 - 1
        /\ Unmarshal(data) = [end |-> "ok", frame |-> Parsed(data, p, q)]
    BY <1>3, <2>1, UnmarshalEnds
  <2>3. p \in Nat /\ q \in Nat /\ 18 + p + 2 <= Len(data)
    BY <2>1, <2>2, Ranges DEF Whole
  <2> HIDE DEF p, q
  <2>4. Parsed(data, p, q) = f
    BY <1>5, <1>6, <2>2
  <2>5. Len(data) \in Nat /\ 18 + p <= Len(data)
    BY <1>3, <2>3, LenProperties
  <2>6. Len(f.payload) = p /\ Len(f.aad) = q
    BY <1>3, <2>3, <2>4, <2>5, ParsedLengths
  <2>7. n < Range32 /\ m < Range16
    BY <1>2, <2>2, <2>6, Ranges
  <2>8. QED
    BY <1>4, <2>7
<1>7. ASSUME Fits(f) PROVE Restored(f)
  <2>1. n \in 0..Range32 - 1 /\ m \in 0..Range16 - 1
    BY <1>4, <1>7, Ranges
  \* The lengths are read again, so the data are accepted.
  <2>2. PICK o0, o1, o5, o13, o14, o18, a, b \in Nat :
          /\ o0 = 0 /\ o1 = 1 /\ o5 = 5 /\ o13 = 13 /\ o14 = 14 /\ o18 = 18
          /\ a = 18 + n /\ b = 18 + n + 2
    OBVIOUS
  <2>3. /\ Lies(<<f.version>>, data, o0) /\ Lies(Put32(f.streamID), data, o1)
        /\ Lies(Put64(f.sequenceNo), data, o5) /\ Lies(<<f.flags>>, data, o13)
        /\ Lies(Put32(n), data, o14) /\ Lies(f.payload, data, o18)
        /\ Lies(Put16(m), data, a) /\ Lies(f.aad, data, b)
    BY <1>3, <2>2, Zenon
  <2>4. /\ data[o0 + 1] = f.version /\ Get32(data, o1) = f.streamID
        /\ Get64(data, o5) = f.sequenceNo /\ data[o13 + 1] = f.flags
        /\ Get32(data, o14) = n /\ Get16(data, a) = m
    BY <1>1, <1>3, <2>1, <2>3, ReadAgain, Zenon
  <2>5. PayloadLen(data) = n /\ AADLen(data) = m
    BY <2>2, <2>4, Zenon DEF PayloadLen, AADLen
  <2>6. Whole(data)
    BY <1>3, <2>5 DEF Whole
  <2>7. Unmarshal(data) = [end |-> "ok", frame |-> Parsed(data, n, m)]
    BY <1>3, <2>5, <2>6, UnmarshalEnds, Zenon
  \* Every field is read again.
  <2>8. HeaderSize = o18 /\ o18 + n + 2 = b /\ b + m <= Len(data)
    BY <1>3, <2>2 DEF HeaderSize
  <2>9. /\ Parsed(data, n, m).version = f.version
        /\ Parsed(data, n, m).streamID = f.streamID
        /\ Parsed(data, n, m).sequenceNo = f.sequenceNo
        /\ Parsed(data, n, m).flags = f.flags
    <3>1. o0 + 1 = 1 /\ o13 + 1 = 14
      BY <2>2
    <3>2. /\ data[1] = f.version /\ Get32(data, 1) = f.streamID
          /\ Get64(data, 5) = f.sequenceNo /\ data[14] = f.flags
      BY <2>2, <2>4, <3>1, Zenon
    <3>3. QED
      BY <3>2 DEF Parsed
  <2>10. Parsed(data, n, m).payload = f.payload
    BY <1>2, <2>3, <2>8, Zenon DEF Parsed, Lies, Slice
  <2>11. Parsed(data, n, m).aad = f.aad
    <3>1. Parsed(data, n, m).aad
            = [i \in 1..m |-> IF b + i <= Len(data) THEN data[b + i] ELSE 0]
      BY <2>8, Zenon DEF Parsed
    <3>2. Parsed(data, n, m).aad = Slice(data, b, m)
      <4>1. data \in Seq(Bytes) /\ b \in Nat /\ m \in Nat /\ b + m <= Len(data)
        BY <1>3, <2>8, Zenon
      <4>2. [i \in 1..m |-> IF b + i <= Len(data) THEN data[b + i] ELSE 0] = Slice(data, b, m)
        BY <4>1, CopyIsThere, Zenon
      <4>3. QED
        BY <3>1, <4>2, Zenon
    <3>3. Slice(data, b, m) = f.aad
      BY <1>2, <2>3, Zenon DEF Lies
    <3>4. QED
      BY <3>2, <3>3
  <2>12. Parsed(data, n, m) = f
    <3>1. f = [version |-> f.version, streamID |-> f.streamID,
               sequenceNo |-> f.sequenceNo, flags |-> f.flags,
               payload |-> f.payload, aad |-> f.aad]
      BY DEF AnyFrames
    <3>2. Parsed(data, n, m) =
            [version |-> Parsed(data, n, m).version,
             streamID |-> Parsed(data, n, m).streamID,
             sequenceNo |-> Parsed(data, n, m).sequenceNo,
             flags |-> Parsed(data, n, m).flags,
             payload |-> Parsed(data, n, m).payload, aad |-> Parsed(data, n, m).aad]
      BY DEF Parsed
    <3>3. QED
      BY <2>9, <2>10, <2>11, <3>1, <3>2, Zenon
  <2>13. QED
    BY <1>5, <2>7, <2>12
<1>8. QED
  BY <1>6, <1>7

-----------------------------------------------------------------------------
(* Backend selection *)

\* The first of three names that is in a set is in the set.
LEMMA FirstIsThere ==
  ASSUME NEW a, NEW b, NEW c, NEW S, S \subseteq {a, b, c}, S # {}
  PROVE  First(<<a, b, c>>, S) \in S
<1> DEFINE order == <<a, b, c>>
           P(i) == order[i] \in S /\ \A j \in 1..i - 1 : order[j] \notin S
<1>1. DOMAIN order = 1..3 /\ order[1] = a /\ order[2] = b /\ order[3] = c
  OBVIOUS
<1> HIDE DEF order
<1>2. \E i \in DOMAIN order : P(i)
  <2>1. CASE a \in S
    <3>1. P(1)
      BY <1>1, <2>1
    <3>2. QED
      BY <1>1, <3>1
  <2>2. CASE a \notin S /\ b \in S
    <3>1. P(2)
      BY <1>1, <2>2
    <3>2. QED
      BY <1>1, <3>1
  <2>3. CASE a \notin S /\ b \notin S
    <3>1. c \in S
      BY <2>3
    <3>2. P(3)
      BY <1>1, <2>3, <3>1
    <3>3. QED
      BY <1>1, <3>2
  <2>4. QED
    BY <2>1, <2>2, <2>3
<1>3. P(CHOOSE i \in DOMAIN order : P(i))
  BY <1>2, Zenon
<1>4. QED
  BY <1>3, Zenon DEF First, order

\* What DetectBackend returns, in the three cases of where it comes from.
LEMMA Detected ==
  ASSUME NEW e \in Environments
  PROVE  /\ e.backend \in Backends => DetectBackend(e) = e.backend
         /\ e.backend \notin Backends /\ e.tags # {} =>
              DetectBackend(e) \in {"stub", "pebbe", "czmq"}
         /\ e.backend \notin Backends /\ e.tags = {} =>
              DetectBackend(e) = IF e.cgo THEN "luxzmq" ELSE "stub"
<1>1. e.tags \subseteq {"stub", "pebbe", "czmq"}
  BY DEF Environments
<1>2. e.tags # {} => First(<<"stub", "pebbe", "czmq">>, e.tags) \in e.tags
  BY <1>1, FirstIsThere, Zenon
<1>3. QED
  BY <1>1, <1>2, Zenon DEF DetectBackend, DefaultBackend

\* SelectBackendForEnvironment, in every environment.
LEMMA SelectsUsably ==
  ASSUME NEW e \in Environments,
         ~ValidateBackendType(SelectBackendForEnvironment(e), e.cgo)
  PROVE  ~e.cgo /\ (e.backend \in Backends \/ e.tags # {})
<1> DEFINE usable == {b \in {"luxzmq", "czmq", "pebbe"} : ValidateBackendType(b, e.cgo)}
           chosen == First(<<"luxzmq", "czmq", "pebbe">>, usable)
<1>1. e.cgo \in BOOLEAN
  BY DEF Environments
<1>2. ~e.cgo
  BY DEF ValidateBackendType
<1>3. ~(e.env = "production" /\ usable # {})
  <2>1. SUFFICES ASSUME e.env = "production", usable # {} PROVE FALSE
    OBVIOUS
  <2>2. usable \subseteq {"luxzmq", "czmq", "pebbe"}
    OBVIOUS
  <2>3. chosen \in usable
    <3> HIDE DEF usable
    <3>1. QED
      BY <2>1, <2>2, FirstIsThere, Zenon
  <2>4. SelectBackendForEnvironment(e) = chosen
    BY <2>1, Zenon DEF SelectBackendForEnvironment
  <2>5. QED
    BY <2>3, <2>4
<1>4. e.env \notin {"development", "test"}
  <2>1. SUFFICES ASSUME e.env \in {"development", "test"} PROVE FALSE
    OBVIOUS
  <2>2. SelectBackendForEnvironment(e) = "stub"
    BY <1>3, <2>1, Zenon DEF SelectBackendForEnvironment
  <2>3. QED
    BY <2>2 DEF ValidateBackendType
<1>5. SelectBackendForEnvironment(e) = DetectBackend(e)
  BY <1>3, <1>4, Zenon DEF SelectBackendForEnvironment
<1>6. QED
  BY <1>2, <1>5, Detected DEF ValidateBackendType

-----------------------------------------------------------------------------
(* The inputs *)

\* What a behaviour has taken.
Taken ==
  \/ input = [of |-> "nothing"]
  \/ \E x \in Frames : input = [of |-> "frame", it |-> x]
  \/ \E x \in Datas : input = [of |-> "data", it |-> x]
  \/ \E x \in Exchanges : input = [of |-> "exchange", it |-> x]
  \/ \E x \in Environments : input = [of |-> "environment", it |-> x]

\* Only inputs of the enumerated sets are taken.
LEMMA OnlyInputs == Spec => []Taken
<1>1. Init => Taken
  BY DEF Init, Taken
<1>2. Taken /\ [Next]_input => Taken'
  BY Zenon DEF Taken, Next, Take, TakeFrame, TakeData, TakeExchange, TakeEnvironment
<1>3. QED
  BY <1>1, <1>2, PTL DEF Spec

\* An input is of the kind it is tagged with.
LEMMA TaggedInputs ==
  ASSUME Taken
  PROVE  /\ input.of = "frame" => input.it \in Frames
         /\ input.of = "data" => input.it \in Datas
         /\ input.of = "exchange" => input.it \in Exchanges
         /\ input.of = "environment" => input.it \in Environments
  BY DEF Taken

\* Constant bytes are bytes.
LEMMA ConstantBytes == \A n \in Nat : Constant(n) \in Seq(Bytes) /\ Len(Constant(n)) = n
<1>1. 1 \in Bytes
  BY Ranges DEF Bytes
<1>2. QED
  BY <1>1 DEF Constant

\* Enumerated bytes are bytes.
LEMMA EnumeratedBytes == \A n \in Nat : Bits(n) \subseteq Seq(Bytes)
  BY DEF Bits

\* The frames that are taken are frames.
LEMMA FramesAreFrames == Frames \subseteq AnyFrames
<1>1. Payloads \subseteq Seq(Bytes)
  <2>1. \A n \in 0..2 : Bits(n) \subseteq Seq(Bytes)
    BY EnumeratedBytes
  <2>2. \A n \in Range32 - 1 .. Range32 + 1 : Constant(n) \in Seq(Bytes)
    BY ConstantBytes, Ranges
  <2>3. UNION {Bits(n) : n \in 0..2} \subseteq Seq(Bytes)
    BY <2>1, Zenon
  <2>4. {Constant(n) : n \in Range32 - 1 .. Range32 + 1} \subseteq Seq(Bytes)
    BY <2>2, Zenon
  <2>5. QED
    BY <2>3, <2>4 DEF Payloads
<1>2. AADs \subseteq Seq(Bytes)
  <2>1. \A n \in 0..Range16 + 1 : Bits(n) \subseteq Seq(Bytes)
    BY EnumeratedBytes, Ranges
  <2>2. QED
    BY <2>1 DEF AADs
<1>3. {0, Range32 - 2} \subseteq 0..Range32 - 1 /\ {0, Range64 - 2} \subseteq 0..Range64 - 1
  BY Ranges
<1>4. 1 \in Bytes
  BY Ranges DEF Bytes
<1>5. QED
  BY <1>1, <1>2, <1>3, <1>4 DEF Frames, AnyFrames

\* The data that are taken are bytes.
LEMMA DatasAreBytes == Datas \subseteq Seq(Bytes)
<1>1. ASSUME NEW n \in Nat PROVE Header(n) \in Seq(Bytes) /\ Len(Header(n)) = 18
  <2>1. HeaderSize - 4 \in Nat /\ HeaderSize - 4 = 14
    BY DEF HeaderSize
  <2>2. Constant(HeaderSize - 4) \in Seq(Bytes) /\ Len(Constant(HeaderSize - 4)) = 14
    BY <2>1, ConstantBytes, Zenon
  <2>3. Put32(n) \in Seq(Bytes) /\ Len(Put32(n)) = 4
    BY PutType
  <2>4. PICK s, t \in Seq(Bytes) : s = Constant(HeaderSize - 4) /\ t = Put32(n)
    BY <2>2, <2>3, Zenon
  <2>5. s \o t \in Seq(Bytes) /\ Len(s \o t) = Len(s) + Len(t)
    BY ConcatProperties
  <2>6. Len(s) = 14 /\ Len(t) = 4
    BY <2>2, <2>3, <2>4
  <2>7. Len(s \o t) = 18
    BY <2>5, <2>6
  <2>8. QED
    BY <2>4, <2>5, <2>7, Zenon DEF Header
<1>2. ASSUME NEW n \in 0..Range32 - 1, NEW tail \in Tails
      PROVE  Header(n) \o tail \in Seq(Bytes)
  <2>1. tail \in Seq(Bytes)
    BY EnumeratedBytes DEF Tails
  <2>2. n \in Nat
    BY Ranges
  <2>3. Header(n) \in Seq(Bytes)
    BY <1>1, <2>2
  <2>4. QED
    BY <2>1, <2>3, ConcatProperties
<1>3. ASSUME NEW k \in 0..HeaderSize - 1 PROVE SubSeq(Header(0), 1, k) \in Seq(Bytes)
  <2>1. k \in Nat /\ k <= 18
    BY DEF HeaderSize
  <2>2. PICK u \in Seq(Bytes) : u = Header(0) /\ Len(u) = 18
    BY <1>1
  <2>3. ASSUME NEW i \in 1..k PROVE u[i] \in Bytes
    <3>1. i \in 1..18
      BY <2>1
    <3>2. i \in 1..Len(u)
      BY <2>2, <3>1, Zenon
    <3>3. QED
      BY <3>2, ElementOfSeq, Zenon
  <2>4. SubSeq(u, 1, k) \in Seq(Bytes)
    BY <2>1, <2>3, SubSeqProperties
  <2>5. QED
    BY <2>2, <2>4, Zenon
<1>4. ASSUME NEW x \in Datas PROVE x \in Seq(Bytes)
  <2>1. \/ \E n \in 0..Range32 - 1, tail \in Tails :
             x = Header(n) \o tail
        \/ \E k \in 0..HeaderSize - 1 : x = SubSeq(Header(0), 1, k)
    BY DEF Datas
  <2>2. QED
    BY <1>2, <1>3, <2>1, Zenon
<1>5. QED
  BY <1>4

-----------------------------------------------------------------------------
(* The properties of the runs, for every Base *)

\* messageFrame.marshal and unmarshal: exactly the frames whose lengths fit are
\* restored.
THEOREM FramesRoundTrip == Spec => []RoundTrip
<1>1. Taken => RoundTrip
  BY TaggedInputs, FramesAreFrames, FramesSurviveIffTheyFit, Zenon DEF RoundTrip
<1>2. QED
  BY <1>1, OnlyInputs, PTL

\* messageFrame.unmarshal: nothing outside the data is read, nothing is made up.
THEOREM DataAreReadSoundly == Spec => []UnmarshalSound
<1>1. Taken => UnmarshalSound
  BY TaggedInputs, DatasAreBytes, EverythingIsReadSoundly, Zenon DEF UnmarshalSound
<1>2. QED
  BY <1>1, OnlyInputs, PTL

\* SelectBackendForEnvironment: an unusable backend is only selected at the
\* environment's own request.
THEOREM SelectionIsUsable == Spec => []SelectionUsable
<1>1. Taken => SelectionUsable
  BY TaggedInputs, SelectsUsably, Zenon DEF SelectionUsable
<1>2. QED
  BY <1>1, OnlyInputs, PTL

\* ValidateBackend, ValidateBackendType and GetBackendCapabilities agree, except
\* that the first trusts a luxzmq that the environment names without CGO.
THEOREM ValidatorsAreAgreed == Spec => []ValidatorsAgree
<1>1. ASSUME NEW e \in Environments
      PROVE  LET b == DetectBackend(e)
             IN  /\ ValidateBackendType(b, e.cgo) <=> (RequiresCGO(b) => e.cgo)
                 /\ (ValidateBackend(e) <=> ValidateBackendType(b, e.cgo))
                      <=> ~(e.backend = "luxzmq" /\ ~e.cgo)
  <2>1. e.cgo \in BOOLEAN /\ e.backend \in Backends \cup {"", "?"}
    BY DEF Environments
  <2>2. CASE e.backend \in Backends
    <3>1. DetectBackend(e) = e.backend
      BY <2>2, Detected
    <3>2. QED
      BY <2>1, <2>2, <3>1
         DEF ValidateBackendType, ValidateBackend, RequiresCGO, Backends
  <2>3. CASE e.backend \notin Backends /\ e.tags # {}
    <3>1. DetectBackend(e) \in {"stub", "pebbe", "czmq"}
      BY <2>3, Detected
    <3>2. QED
      BY <2>1, <2>3, <3>1
         DEF ValidateBackendType, ValidateBackend, RequiresCGO, Backends
  <2>4. CASE e.backend \notin Backends /\ e.tags = {}
    <3>1. DetectBackend(e) = IF e.cgo THEN "luxzmq" ELSE "stub"
      BY <2>4, Detected
    <3>2. QED
      BY <2>1, <2>4, <3>1
         DEF ValidateBackendType, ValidateBackend, RequiresCGO, Backends
  <2>5. QED
    BY <2>2, <2>3, <2>4
<1>2. Taken => ValidatorsAgree
  BY <1>1, TaggedInputs, Zenon DEF ValidatorsAgree
<1>3. QED
  BY <1>2, OnlyInputs, PTL
=============================================================================
