-------------------------- MODULE CShake256Proofs --------------------------
(***************************************************************************)
(* Proofs about CShake256, for every rate, string, piece and length: the   *)
(* context keeps the bytes it was given, the digest does not depend on how *)
(* the data were cut into pieces nor on what the context held before, and  *)
(* different questions have different digests.                             *)
(***************************************************************************)
EXTENDS CShake256, SequenceTheorems, TLAPS

\* Every value a byte of a message can have.
Values ==
  DataBytes \cup {Junk} \cup 0..255 \cup {LeftEncode(v)[i] : v \in Nat, i \in Nat}

\* What the permutation absorbs at a time.
Block == [1..Rate -> Values]

\* Contexts, between calls.
Ctx == [A : Seq(Block), num : 0..(Rate - 1), buf : [1..BufSize -> Values],
        pad : {0, 4, 31}, md_size : Nat]

\* The bytes a context was given.
Stream(c) == Bytes(c.A) \o SubSeq(c.buf, 1, c.num)

-----------------------------------------------------------------------------
(* Division by the rate.                                                    *)

\* Quotient and remainder.
LEMMA DivMod ==
  ASSUME NEW a \in Nat
  PROVE  /\ a \div Rate \in Nat
         /\ a % Rate \in 0..(Rate - 1)
         /\ a = (a \div Rate) * Rate + (a % Rate)
<1>1. a \div Rate \in Nat
  BY RateAssumption
<1>2. a % Rate \in 0..(Rate - 1)
  BY RateAssumption
<1>3. a = (a \div Rate) * Rate + (a % Rate)
  BY RateAssumption
<1> QED  BY <1>1, <1>2, <1>3

\* They are determined by the number.
LEMMA DivModUnique ==
  ASSUME NEW q \in Nat, NEW r \in 0..(Rate - 1)
  PROVE  (q * Rate + r) \div Rate = q /\ (q * Rate + r) % Rate = r
BY RateAssumption

\* Different quotients are at least a block apart.
LEMMA QuotientOrder ==
  ASSUME NEW q \in Nat, NEW p \in Nat, NEW r \in 0..(Rate - 1), q * Rate + r < p * Rate
  PROVE  q < p
BY RateAssumption
-----------------------------------------------------------------------------
(* The bytes of absorbed blocks.                                            *)

\* Position (k - 1) * Rate + j is byte j of block k.
LEMMA PositionInBlock ==
  ASSUME NEW n \in Nat, NEW i \in 1..(n * Rate)
  PROVE  /\ ((i - 1) \div Rate) + 1 \in 1..n
         /\ ((i - 1) % Rate) + 1 \in 1..Rate
         /\ ((i - 1) \div Rate) * Rate + ((i - 1) % Rate) + 1 = i
<1>1. i - 1 \in Nat /\ Rate \in Nat /\ n * Rate \in Int /\ i <= n * Rate
  BY RateAssumption
<1> DEFINE q == (i - 1) \div Rate
           r == (i - 1) % Rate
<1>2. q \in Nat /\ r \in 0..(Rate - 1) /\ i - 1 = q * Rate + r
  BY <1>1, DivMod
<1> HIDE DEF q, r
<1>3. q * Rate \in Nat /\ q * Rate + r < n * Rate
  BY <1>1, <1>2
<1>4. q < n
  BY <1>2, <1>3, QuotientOrder
<1>5. q + 1 \in 1..n /\ r + 1 \in 1..Rate /\ q * Rate + r + 1 = i
  BY <1>1, <1>2, <1>3, <1>4
<1> QED  BY <1>5 DEF q, r

LEMMA BytesType ==
  ASSUME NEW A \in Seq(Block)
  PROVE  /\ Bytes(A) \in Seq(Values)
         /\ Len(Bytes(A)) = Len(A) * Rate
         /\ \A i \in 1..(Len(A) * Rate) :
              Bytes(A)[i] = A[((i - 1) \div Rate) + 1][((i - 1) % Rate) + 1]
<1>1. Len(A) \in Nat /\ Len(A) * Rate \in Nat
  BY RateAssumption
<1>2. ASSUME NEW i \in 1..(Len(A) * Rate)
      PROVE  A[((i - 1) \div Rate) + 1][((i - 1) % Rate) + 1] \in Values
  <2>1. ((i - 1) \div Rate) + 1 \in 1..Len(A) /\ ((i - 1) % Rate) + 1 \in 1..Rate
    BY <1>1, PositionInBlock
  <2>2. A[((i - 1) \div Rate) + 1] \in Block
    BY <2>1
  <2> QED  BY <2>1, <2>2 DEF Block
<1> QED  BY <1>1, <1>2 DEF Bytes

\* Block by block.
LEMMA BytesAt ==
  ASSUME NEW A \in Seq(Block), NEW k \in 1..Len(A), NEW j \in 1..Rate
  PROVE  /\ (k - 1) * Rate + j \in 1..(Len(A) * Rate)
         /\ Bytes(A)[(k - 1) * Rate + j] = A[k][j]
<1>1. k - 1 \in Nat /\ j - 1 \in 0..(Rate - 1) /\ Len(A) \in Nat /\ Rate \in Nat
  BY RateAssumption
<1>2. (k - 1) * Rate \in Nat /\ (k - 1) * Rate + Rate = k * Rate /\ k * Rate <= Len(A) * Rate
  BY <1>1
<1> DEFINE i == (k - 1) * Rate + j
<1>3. i \in 1..(Len(A) * Rate) /\ i - 1 = (k - 1) * Rate + (j - 1)
  BY <1>1, <1>2
<1>4. (i - 1) \div Rate = k - 1 /\ (i - 1) % Rate = j - 1
  BY <1>1, <1>3, DivModUnique
<1>5. Bytes(A)[i] = A[((i - 1) \div Rate) + 1][((i - 1) % Rate) + 1]
  BY <1>3, BytesType
<1>6. Bytes(A)[i] = A[(k - 1) + 1][(j - 1) + 1]
  BY <1>4, <1>5
<1>7. (k - 1) + 1 = k /\ (j - 1) + 1 = j
  BY <1>1
<1> QED  BY <1>3, <1>6, <1>7

\* Blocks that follow blocks.
LEMMA BytesConcat ==
  ASSUME NEW A \in Seq(Block), NEW B \in Seq(Block)
  PROVE  Bytes(A \o B) = Bytes(A) \o Bytes(B)
<1> DEFINE n == Len(A) * Rate
           m == Len(B) * Rate
<1>1. /\ A \o B \in Seq(Block) /\ Len(A \o B) = Len(A) + Len(B) /\ Len(A) \in Nat /\ Len(B) \in Nat
      /\ n \in Nat /\ m \in Nat /\ (Len(A) + Len(B)) * Rate = n + m
  BY RateAssumption
<1>2. /\ Bytes(A \o B) \in Seq(Values) /\ Len(Bytes(A \o B)) = n + m
      /\ Bytes(A) \in Seq(Values) /\ Len(Bytes(A)) = n
      /\ Bytes(B) \in Seq(Values) /\ Len(Bytes(B)) = m
  BY <1>1, BytesType
<1>3. ASSUME NEW i \in 1..(n + m)
      PROVE  Bytes(A \o B)[i] = (Bytes(A) \o Bytes(B))[i]
  <2> DEFINE k == ((i - 1) \div Rate) + 1
             j == ((i - 1) % Rate) + 1
  <2>1. k \in 1..(Len(A) + Len(B)) /\ j \in 1..Rate /\ i = (k - 1) * Rate + j
    <3>1. Len(A) + Len(B) \in Nat /\ i \in 1..((Len(A) + Len(B)) * Rate)
      BY <1>1
    <3> DEFINE q == (i - 1) \div Rate
               s == (i - 1) % Rate
    <3>2. q + 1 \in 1..(Len(A) + Len(B)) /\ s + 1 \in 1..Rate /\ q * Rate + s + 1 = i
      BY <3>1, PositionInBlock
    <3>3. q \in Int /\ s \in Int
      BY <3>1, RateAssumption
    <3> HIDE DEF q, s
    <3>4. (q + 1) - 1 = q /\ q * Rate + (s + 1) = i
      BY <3>2, <3>3, RateAssumption
    <3>5. k = q + 1 /\ j = s + 1
      BY DEF q, s
    <3> QED  BY <3>2, <3>4, <3>5
  <2> HIDE DEF k, j, n, m
  <2>2. Bytes(A \o B)[i] = (A \o B)[k][j]
    BY <1>1, <2>1, BytesAt
  <2>3. CASE k <= Len(A)
    <3>1. k \in 1..Len(A) /\ (A \o B)[k] = A[k]
      BY <1>1, <2>1, <2>3
    <3>2. i \in 1..n /\ Bytes(A)[i] = A[k][j]
      BY <3>1, <2>1, BytesAt DEF n
    <3>3. (Bytes(A) \o Bytes(B))[i] = Bytes(A)[i]
      BY <3>2, <1>1, <1>2
    <3> QED  BY <2>2, <3>1, <3>2, <3>3
  <2>4. CASE k > Len(A)
    <3>1. k - Len(A) \in 1..Len(B) /\ (A \o B)[k] = B[k - Len(A)]
      BY <1>1, <2>1, <2>4
    <3>2. /\ (k - Len(A) - 1) * Rate + j \in 1..m
          /\ Bytes(B)[(k - Len(A) - 1) * Rate + j] = B[k - Len(A)][j]
      BY <3>1, <2>1, BytesAt DEF m
    <3>3. (k - Len(A) - 1) * Rate = (k - 1) * Rate - n
      BY <1>1, <2>1, RateAssumption DEF n
    <3>4. (k - Len(A) - 1) * Rate + j = i - n
      BY <1>1, <2>1, <3>3, RateAssumption
    <3>5. (Bytes(A) \o Bytes(B))[i] = Bytes(B)[i - n]
      <4>1. i - n \in 1..m
        BY <3>2, <3>4
      <4> QED  BY <4>1, <1>1, <1>2
    <3> QED  BY <2>2, <3>1, <3>2, <3>4, <3>5
  <2>5. k <= Len(A) \/ k > Len(A)
    BY <1>1, <2>1
  <2> QED  BY <2>3, <2>4, <2>5, Zenon
<1> HIDE DEF n, m
<1>4. Bytes(A) \o Bytes(B) \in Seq(Values) /\ Len(Bytes(A) \o Bytes(B)) = n + m
  BY <1>2, ConcatProperties
<1> QED  BY <1>2, <1>3, <1>4, SeqEqual

-----------------------------------------------------------------------------
(* Absorbing and buffering.                                                 *)

\* A sequence is the first n elements followed by the others.
LEMMA SplitSeq ==
  ASSUME NEW S, NEW q \in Seq(S), NEW n \in 0..Len(q)
  PROVE  SubSeq(q, 1, n) \o SubSeq(q, n + 1, Len(q)) = q
<1>1. Len(q) \in n..Len(q) /\ 1 \in 1..Len(q) + 1 /\ n \in (1 - 1)..Len(q)
  OBVIOUS
<1>2. SubSeq(q, 1, n) \o SubSeq(q, n + 1, Len(q)) = SubSeq(q, 1, Len(q))
  BY <1>1, ConcatAdjacentSubSeq, Zenon
<1> QED  BY <1>2, SubSeqFull

\* Concatenation of bytes is associative.
LEMMA Associative ==
  \A x, y, z \in Seq(Values) : (x \o y) \o z = x \o (y \o z)
BY ConcatAssociative

\* A segment of Rate bytes is a block.
LEMMA SegmentIsBlock ==
  ASSUME NEW inp \in Seq(Values), NEW k \in Nat \ {0}, k * Rate <= Len(inp)
  PROVE  /\ SubSeq(inp, (k - 1) * Rate + 1, k * Rate) \in Block
         /\ \A j \in 1..Rate :
              SubSeq(inp, (k - 1) * Rate + 1, k * Rate)[j] = inp[(k - 1) * Rate + j]
<1> DEFINE b == (k - 1) * Rate
           t == SubSeq(inp, b + 1, k * Rate)
<1>1. b \in Nat /\ k * Rate = b + Rate /\ Rate \in Nat \ {0} /\ Len(inp) \in Nat
  BY RateAssumption
<1> HIDE DEF b
<1>2. b + 1 \in Int /\ b + Rate \in Int /\ \A i \in (b + 1)..(b + Rate) : inp[i] \in Values
  BY <1>1
<1>3. /\ t \in Seq(Values) /\ Len(t) = Rate
      /\ \A j \in 1..Rate : t[j] = inp[b + j]
  <2>1. t = SubSeq(inp, b + 1, b + Rate)
    BY <1>1
  <2> HIDE DEF t
  <2> QED  BY <1>1, <1>2, <2>1
<1>4. t \in [1..Rate -> Values]
  BY <1>3, LenProperties
<1> QED  BY <1>3, <1>4, Zenon DEF Block, b

\* The whole blocks of what is absorbed follow the bytes absorbed before.
LEMMA AbsorbBytes ==
  ASSUME NEW A \in Seq(Block), NEW inp \in Seq(Values)
  PROVE  /\ SHA3_absorb(A, inp) \in Seq(Block)
         /\ Len(SHA3_absorb(A, inp)) = Len(A) + (Len(inp) \div Rate)
         /\ Bytes(SHA3_absorb(A, inp)) = Bytes(A) \o SubSeq(inp, 1, (Len(inp) \div Rate) * Rate)
<1> DEFINE n == Len(inp) \div Rate
           B == [i \in 1..n |-> SubSeq(inp, (i - 1) * Rate + 1, i * Rate)]
           h == SubSeq(inp, 1, n * Rate)
<1>1. Len(inp) \in Nat /\ n \in Nat /\ n * Rate \in Nat /\ n * Rate <= Len(inp)
  <2>1. Len(inp) \in Nat
    BY LenProperties
  <2>2. /\ n \in Nat
        /\ Len(inp) % Rate \in 0..(Rate - 1)
        /\ Len(inp) = n * Rate + (Len(inp) % Rate)
    BY <2>1, DivMod, Zenon
  <2> HIDE DEF n
  <2> QED  BY <2>1, <2>2, RateAssumption
<1> HIDE DEF n
<1>2. ASSUME NEW k \in 1..n
      PROVE  /\ SubSeq(inp, (k - 1) * Rate + 1, k * Rate) \in Block
             /\ \A j \in 1..Rate :
                  SubSeq(inp, (k - 1) * Rate + 1, k * Rate)[j] = inp[(k - 1) * Rate + j]
  <2>1. k \in Nat \ {0} /\ k * Rate <= n * Rate
    BY <1>1, RateAssumption
  <2>2. k * Rate <= Len(inp)
    BY <1>1, <2>1, RateAssumption
  <2> QED  BY <2>1, <2>2, SegmentIsBlock
<1>3. B \in Seq(Block) /\ Len(B) = n
  BY <1>1, <1>2
<1>4. h \in Seq(Values) /\ Len(h) = n * Rate /\ \A i \in 1..(n * Rate) : h[i] = inp[i]
  <2> DEFINE e == n * Rate
  <2>1. e \in Nat /\ e <= Len(inp) /\ h = SubSeq(inp, 1, e)
    BY <1>1
  <2> HIDE DEF e, h
  <2>2. h \in Seq(Values) /\ Len(h) = e /\ \A i \in 1..e : h[i] = inp[i]
    BY <2>1
  <2> QED  BY <2>2 DEF e
<1>5. Bytes(B) \in Seq(Values) /\ Len(Bytes(B)) = n * Rate
  BY <1>3, BytesType
<1>6. ASSUME NEW i \in 1..(n * Rate)
      PROVE  Bytes(B)[i] = h[i]
  <2> DEFINE q == (i - 1) \div Rate
             s == (i - 1) % Rate
  <2>1. q + 1 \in 1..n /\ s + 1 \in 1..Rate /\ q * Rate + s + 1 = i
    BY <1>1, PositionInBlock
  <2>2. Bytes(B)[i] = B[q + 1][s + 1]
    BY <1>3, BytesType
  <2>3. i - 1 \in Nat
    BY <1>1
  <2>4. q \in Nat /\ s \in Nat
    <3>1. q \in Nat /\ s \in 0..(Rate - 1)
      BY <2>3, DivMod, Zenon
    <3> QED  BY <3>1, RateAssumption
  <2> HIDE DEF q, s
  <2>5. B[q + 1] = SubSeq(inp, ((q + 1) - 1) * Rate + 1, (q + 1) * Rate)
    BY <2>1
  <2>6. B[q + 1][s + 1] = inp[((q + 1) - 1) * Rate + (s + 1)]
    BY <2>1, <2>5, <1>2
  <2>7. ((q + 1) - 1) * Rate + (s + 1) = i
    <3>1. (q + 1) - 1 = q
      BY <2>4
    <3> QED  BY <3>1, <2>1, <2>4, RateAssumption
  <2> QED  BY <2>2, <2>6, <2>7, <1>4
<1> HIDE DEF B, h
<1>7. Bytes(B) = h
  BY <1>4, <1>5, <1>6, SeqEqual
<1>8. SHA3_absorb(A, inp) = A \o B
  BY DEF SHA3_absorb, B, n
<1>9. Bytes(A \o B) = Bytes(A) \o h
  BY <1>3, <1>7, BytesConcat
<1>10. A \o B \in Seq(Block) /\ Len(A \o B) = Len(A) + n
  BY <1>3, ConcatProperties
<1> QED  BY <1>8, <1>9, <1>10 DEF h, n

\* memcpy changes the bytes it writes and no other.
LEMMA WrittenBytes ==
  ASSUME NEW buf \in [1..BufSize -> Values], NEW at \in Nat, NEW data \in Seq(Values)
  PROVE  /\ Written(buf, at, data) \in [1..BufSize -> Values]
         /\ \A i \in 1..BufSize :
              Written(buf, at, data)[i] = IF i - at \in 1..Len(data) THEN data[i - at] ELSE buf[i]
BY RateAssumption DEF Written

\* The used part of the buffer.
LEMMA PrefixType ==
  ASSUME NEW buf \in [1..BufSize -> Values], NEW n \in Nat, n <= Rate
  PROVE  SubSeq(buf, 1, n) \in Seq(Values) /\ Len(SubSeq(buf, 1, n)) = n
BY RateAssumption

\* Bytes that are copied behind the used part of the buffer.
LEMMA KeepBytes ==
  ASSUME NEW buf \in [1..BufSize -> Values], NEW n \in Nat, NEW data \in Seq(Values),
         n + Len(data) <= Rate
  PROVE  /\ SubSeq(buf, 1, n) \in Seq(Values)
         /\ Len(SubSeq(buf, 1, n)) = n
         /\ SubSeq(Written(buf, n, data), 1, n + Len(data)) = SubSeq(buf, 1, n) \o data
<1> DEFINE w == Written(buf, n, data)
           m == n + Len(data)
           l == SubSeq(w, 1, m)
           f == SubSeq(buf, 1, n)
<1>1. BufSize \in Nat /\ m \in Nat /\ m <= BufSize /\ n <= BufSize /\ Len(data) \in Nat
  BY RateAssumption
<1>2. /\ w \in [1..BufSize -> Values]
      /\ \A i \in 1..BufSize : w[i] = IF i - n \in 1..Len(data) THEN data[i - n] ELSE buf[i]
  BY WrittenBytes
<1> HIDE DEF w
<1>3. f \in Seq(Values) /\ Len(f) = n /\ \A i \in 1..n : f[i] = buf[i]
  BY <1>1
<1>4. l \in Seq(Values) /\ Len(l) = m /\ \A i \in 1..m : l[i] = w[i]
  BY <1>1, <1>2
<1> HIDE DEF f, l
<1>5. /\ f \o data \in Seq(Values) /\ Len(f \o data) = m
      /\ \A i \in 1..m : (f \o data)[i] = IF i <= n THEN f[i] ELSE data[i - n]
  BY <1>1, <1>3
<1>6. \A i \in 1..m : l[i] = (f \o data)[i]
  BY <1>1, <1>2, <1>3, <1>4, <1>5
<1>7. l = f \o data
  BY <1>4, <1>5, <1>6, SeqEqual
<1> QED  BY <1>3, <1>7 DEF f, l, w

\* What is left behind the whole blocks.
Remainder(data) == SubSeq(data, (Len(data) - (Len(data) % Rate)) + 1, Len(data))

\* The whole blocks are absorbed and the rest starts the buffer.
LEMMA AbsorbAndKeep ==
  ASSUME NEW A \in Seq(Block), NEW buf \in [1..BufSize -> Values], NEW rest \in Seq(Values)
  PROVE  /\ SHA3_absorb(A, rest) \in Seq(Block)
         /\ Remainder(rest) \in Seq(Values)
         /\ Len(Remainder(rest)) \in 0..(Rate - 1)
         /\ Written(buf, 0, Remainder(rest)) \in [1..BufSize -> Values]
         /\ Bytes(SHA3_absorb(A, rest))
              \o SubSeq(Written(buf, 0, Remainder(rest)), 1, Len(Remainder(rest)))
              = Bytes(A) \o rest
<1> DEFINE tail == Remainder(rest)
<1> DEFINE n == Len(rest) \div Rate
           r == Len(rest) % Rate
           e == n * Rate
           h == SubSeq(rest, 1, e)
<1>1. Len(rest) \in Nat
  BY LenProperties
<1>2. n \in Nat /\ r \in 0..(Rate - 1) /\ Len(rest) = n * Rate + r
  BY <1>1, DivMod, Zenon
<1> HIDE DEF n, r
<1>3. e \in Nat /\ Len(rest) = e + r /\ Rate \in Nat
  BY <1>2, RateAssumption
<1> HIDE DEF e
<1>4. tail = SubSeq(rest, e + 1, Len(rest))
  <2>1. Len(rest) - r = e
    BY <1>2, <1>3
  <2> QED  BY <2>1 DEF r, Remainder
<1> HIDE DEF tail
<1>5. tail \in Seq(Values) /\ Len(tail) = r
  BY <1>2, <1>3, <1>4
<1>6. h \o tail = rest
  <2>1. e \in 0..Len(rest)
    BY <1>1, <1>2, <1>3
  <2> QED  BY <1>4, <2>1, SplitSeq
<1>7. h \in Seq(Values)
  BY <1>2, <1>3
<1>8. /\ SHA3_absorb(A, rest) \in Seq(Block)
      /\ Bytes(SHA3_absorb(A, rest)) = Bytes(A) \o h
  BY AbsorbBytes DEF e, n
<1>9. SubSeq(Written(buf, 0, tail), 1, Len(tail)) = tail
  <2>1. 0 + Len(tail) <= Rate /\ 0 \in Nat /\ 0 + Len(tail) = Len(tail)
    BY <1>2, <1>3, <1>5
  <2>2. SubSeq(Written(buf, 0, tail), 1, 0 + Len(tail)) = SubSeq(buf, 1, 0) \o tail
    BY <2>1, <1>5, KeepBytes
  <2>3. SubSeq(buf, 1, 0) = <<>>
    BY SubSeqEmpty
  <2> QED  BY <2>1, <2>2, <2>3, <1>5, ConcatEmptySeq
<1>10. Written(buf, 0, tail) \in [1..BufSize -> Values]
  BY <1>5, WrittenBytes
<1> HIDE DEF h
<1>11. Bytes(A) \in Seq(Values)
  BY BytesType
<1>12. (Bytes(A) \o h) \o tail = Bytes(A) \o (h \o tail)
  BY <1>5, <1>7, <1>11, Associative, Zenon
<1>13. Len(tail) \in 0..(Rate - 1)
  BY <1>2, <1>5
<1> QED  BY <1>5, <1>6, <1>8, <1>9, <1>10, <1>12, <1>13 DEF tail

\* The used part of the buffer and the blocks are sequences of bytes.
LEMMA StreamType ==
  ASSUME NEW c \in Ctx
  PROVE  /\ Bytes(c.A) \in Seq(Values) /\ Len(Bytes(c.A)) = Len(c.A) * Rate
         /\ SubSeq(c.buf, 1, c.num) \in Seq(Values) /\ Len(SubSeq(c.buf, 1, c.num)) = c.num
         /\ Stream(c) \in Seq(Values)
         /\ c.num \in Nat /\ c.num < Rate
<1>1. c.A \in Seq(Block) /\ c.buf \in [1..BufSize -> Values] /\ c.num \in Nat /\ c.num < Rate
  BY RateAssumption DEF Ctx
<1>2. Bytes(c.A) \in Seq(Values) /\ Len(Bytes(c.A)) = Len(c.A) * Rate
  BY <1>1, BytesType
<1>3. SubSeq(c.buf, 1, c.num) \in Seq(Values) /\ Len(SubSeq(c.buf, 1, c.num)) = c.num
  <2>1. Rate \in Nat
    BY RateAssumption
  <2>2. c.num \in Nat /\ c.num < Rate
    BY <1>1
  <2>3. c.num <= Rate
    BY <2>1, <2>2
  <2> QED  BY <1>1, <2>3, PrefixType, Zenon
<1>4. Stream(c) \in Seq(Values)
  BY <1>2, <1>3, ConcatProperties DEF Stream
<1> QED  BY <1>1, <1>2, <1>3, <1>4

\* From an empty buffer, the data follow the bytes absorbed before.
LEMMA FromEmptyBufferStream ==
  ASSUME NEW c \in Ctx, c.num = 0, NEW data \in Seq(Values)
  PROVE  /\ FromEmptyBuffer(c, data) \in Ctx
         /\ Stream(FromEmptyBuffer(c, data)) = Bytes(c.A) \o data
         /\ FromEmptyBuffer(c, data).pad = c.pad
         /\ FromEmptyBuffer(c, data).md_size = c.md_size
<1> DEFINE tail == Remainder(data)
           u == FromEmptyBuffer(c, data)
<1>1. c.A \in Seq(Block) /\ c.buf \in [1..BufSize -> Values]
  BY DEF Ctx
<1>2. u = [c EXCEPT !.A = SHA3_absorb(c.A, data), !.buf = Written(c.buf, 0, tail), !.num = Len(tail)]
  BY Zenon DEF FromEmptyBuffer, Remainder
<1>3. /\ SHA3_absorb(c.A, data) \in Seq(Block)
      /\ Len(tail) \in 0..(Rate - 1)
      /\ Written(c.buf, 0, tail) \in [1..BufSize -> Values]
      /\ Bytes(SHA3_absorb(c.A, data)) \o SubSeq(Written(c.buf, 0, tail), 1, Len(tail))
           = Bytes(c.A) \o data
  BY <1>1, AbsorbAndKeep
<1> HIDE DEF tail, u
<1>4. /\ u \in Ctx /\ u.A = SHA3_absorb(c.A, data) /\ u.buf = Written(c.buf, 0, tail)
      /\ u.num = Len(tail) /\ u.pad = c.pad /\ u.md_size = c.md_size
  BY <1>2, <1>3 DEF Ctx
<1>5. Stream(u) = Bytes(c.A) \o data
  BY <1>3, <1>4, Zenon DEF Stream
<1> QED  BY <1>4, <1>5 DEF u

\* Sha3Update adds the data to what the context was given: the data are kept, or
\* they complete the buffer, which is absorbed, or the buffer was empty.
LEMMA UpdateStream ==
  ASSUME NEW c \in Ctx, NEW data \in Seq(Values)
  PROVE  /\ Sha3Update(c, data) \in Ctx
         /\ Stream(Sha3Update(c, data)) = Stream(c) \o data
         /\ Sha3Update(c, data).pad = c.pad
         /\ Sha3Update(c, data).md_size = c.md_size
<1> DEFINE u == Sha3Update(c, data)
           Rem == Rate - c.num
           kept == SubSeq(c.buf, 1, c.num)
<1>1. /\ c.A \in Seq(Block) /\ c.buf \in [1..BufSize -> Values] /\ c.num \in 0..(Rate - 1)
      /\ c.pad \in {0, 4, 31} /\ c.md_size \in Nat
      /\ Rate \in Nat /\ BufSize \in Nat /\ Rate <= BufSize /\ Len(data) \in Nat /\ c.num \in Nat
  BY RateAssumption DEF Ctx
<1>2. /\ Bytes(c.A) \in Seq(Values) /\ kept \in Seq(Values) /\ Len(kept) = c.num
      /\ Stream(c) = Bytes(c.A) \o kept
  BY StreamType DEF Stream
<1> HIDE DEF kept
<1>3. CASE c.num # 0 /\ Len(data) < Rem
  <2>1. u = [c EXCEPT !.buf = Written(c.buf, c.num, data), !.num = c.num + Len(data)]
    BY <1>3, Zenon DEF Sha3Update
  <2> HIDE DEF u
  <2>2. c.num + Len(data) \in 0..(Rate - 1) /\ c.num + Len(data) <= Rate
    BY <1>1, <1>3
  <2>3. Written(c.buf, c.num, data) \in [1..BufSize -> Values]
    BY <1>1, WrittenBytes
  <2>4. SubSeq(Written(c.buf, c.num, data), 1, c.num + Len(data)) = kept \o data
    BY <1>1, <2>2, KeepBytes DEF kept
  <2>5. /\ u \in Ctx /\ u.A = c.A /\ u.buf = Written(c.buf, c.num, data)
        /\ u.num = c.num + Len(data) /\ u.pad = c.pad /\ u.md_size = c.md_size
    BY <2>1, <2>2, <2>3 DEF Ctx
  <2>6. Stream(u) = Bytes(c.A) \o (kept \o data)
    BY <2>4, <2>5, Zenon DEF Stream
  <2>7. Bytes(c.A) \o (kept \o data) = (Bytes(c.A) \o kept) \o data
    BY <1>2, Associative, Zenon
  <2> QED  BY <1>2, <2>5, <2>6, <2>7, Zenon DEF u
<1>4. CASE c.num # 0 /\ ~(Len(data) < Rem)
  <2> DEFINE head == SubSeq(data, 1, Rem)
             rest == SubSeq(data, Rem + 1, Len(data))
             buf == Written(c.buf, c.num, head)
             block == SubSeq(buf, 1, Rate)
             A == SHA3_absorb(c.A, block)
             d == [c EXCEPT !.A = A, !.buf = buf, !.num = 0]
  <2>1. u = FromEmptyBuffer(d, rest)
    BY <1>4, Zenon DEF Sha3Update
  <2>2. /\ Rem \in 0..Len(data) /\ head \in Seq(Values) /\ Len(head) = Rem /\ rest \in Seq(Values)
        /\ c.num + Len(head) = Rate
    <3>1. Rem \in 0..Len(data) /\ c.num + Rem = Rate
      BY <1>1, <1>4
    <3> HIDE DEF Rem
    <3>2. head \in Seq(Values) /\ Len(head) = Rem /\ rest \in Seq(Values)
      BY <1>1, <3>1
    <3> QED  BY <3>1, <3>2
  <2>3. head \o rest = data
    BY <2>2, SplitSeq, Zenon
  <2> HIDE DEF u, head, rest
  <2>4. buf \in [1..BufSize -> Values] /\ block = kept \o head
    <3>1. buf \in [1..BufSize -> Values]
      BY <1>1, <2>2, WrittenBytes
    <3>2. SubSeq(buf, 1, c.num + Len(head)) = kept \o head
      <4>1. c.num + Len(head) <= Rate
        BY <1>1, <2>2
      <4> QED  BY <1>1, <2>2, <4>1, KeepBytes, Zenon DEF kept
    <3> QED  BY <2>2, <3>1, <3>2, Zenon
  <2> HIDE DEF buf, block
  <2>5. block \in Seq(Values) /\ Len(block) = Rate
    BY <1>2, <2>2, <2>4, ConcatProperties
  <2>6. A \in Seq(Block) /\ Bytes(A) = Bytes(c.A) \o block
    <3>1. (Len(block) \div Rate) * Rate = Rate
      <4>1. Rate \div Rate = 1
        BY RateAssumption
      <4> QED  BY <2>5, <4>1, RateAssumption
    <3>2. SubSeq(block, 1, Rate) = block
      BY <2>5, SubSeqFull
    <3>3. /\ A \in Seq(Block)
          /\ Bytes(A) = Bytes(c.A) \o SubSeq(block, 1, (Len(block) \div Rate) * Rate)
      BY <1>1, <2>5, AbsorbBytes, Zenon
    <3> QED  BY <3>1, <3>2, <3>3, Zenon
  <2> HIDE DEF A
  <2>7. /\ d \in Ctx /\ d.A = A /\ d.num = 0 /\ d.pad = c.pad /\ d.md_size = c.md_size
    <3>1. 0 \in 0..(Rate - 1) /\ A \in Seq(Block) /\ buf \in [1..BufSize -> Values]
      BY <1>1, <2>4, <2>6
    <3> QED  BY <3>1 DEF Ctx
  <2> HIDE DEF d
  <2>8. /\ u \in Ctx /\ u.pad = c.pad /\ u.md_size = c.md_size
        /\ Stream(u) = (Bytes(c.A) \o (kept \o head)) \o rest
    BY <2>1, <2>2, <2>4, <2>6, <2>7, FromEmptyBufferStream, Zenon
  <2>9. /\ Bytes(c.A) \o (kept \o head) = (Bytes(c.A) \o kept) \o head
        /\ Bytes(c.A) \o kept \in Seq(Values)
    BY <1>2, <2>2, Associative, ConcatProperties, Zenon
  <2>10. ((Bytes(c.A) \o kept) \o head) \o rest = (Bytes(c.A) \o kept) \o (head \o rest)
    BY <2>2, <2>9, Associative, Zenon
  <2> QED  BY <1>2, <2>3, <2>8, <2>9, <2>10, Zenon DEF u
<1>5. CASE c.num = 0
  <2>1. u = FromEmptyBuffer(c, data)
    BY <1>5, Zenon DEF Sha3Update
  <2> HIDE DEF u
  <2>2. kept = <<>> /\ Bytes(c.A) \o kept = Bytes(c.A)
    <3>1. kept = <<>>
      BY <1>5, SubSeqEmpty DEF kept
    <3> QED  BY <1>2, <3>1, ConcatEmptySeq, Zenon
  <2>3. /\ u \in Ctx /\ u.pad = c.pad /\ u.md_size = c.md_size
        /\ Stream(u) = Bytes(c.A) \o data
    BY <1>5, <2>1, FromEmptyBufferStream
  <2> QED  BY <1>2, <2>2, <2>3 DEF u
<1> QED  BY <1>3, <1>4, <1>5, Zenon

-----------------------------------------------------------------------------
(* What Sha3Final depends on.                                               *)

\* Where the elements of a concatenation are.
LEMMA ConcatAt ==
  ASSUME NEW x \in Seq(Values), NEW y \in Seq(Values)
  PROVE  /\ Len(x \o y) = Len(x) + Len(y)
         /\ \A i \in 1..Len(x) : (x \o y)[i] = x[i]
         /\ \A i \in 1..Len(y) : (x \o y)[Len(x) + i] = y[i]
OBVIOUS

\* Blocks are equal if their bytes are.
LEMMA BlockEqual ==
  ASSUME NEW f \in Block, NEW g \in Block, \A j \in 1..Rate : f[j] = g[j]
  PROVE  f = g
<1>1. f = [j \in 1..Rate |-> f[j]] /\ g = [j \in 1..Rate |-> g[j]]
  BY Zenon DEF Block
<1>2. [j \in 1..Rate |-> f[j]] = [j \in 1..Rate |-> g[j]]
  BY Zenon
<1> QED  BY <1>1, <1>2, Zenon

\* The blocks and the used part of the buffer are determined by the bytes given.
LEMMA StreamDetermines ==
  ASSUME NEW c \in Ctx, NEW d \in Ctx, Stream(c) = Stream(d)
  PROVE  c.A = d.A /\ c.num = d.num /\ \A i \in 1..c.num : c.buf[i] = d.buf[i]
<1> DEFINE n == Len(c.A) * Rate
           m == Len(d.A) * Rate
           x == SubSeq(c.buf, 1, c.num)
           y == SubSeq(d.buf, 1, d.num)
<1>1. /\ c.A \in Seq(Block) /\ d.A \in Seq(Block)
      /\ c.num \in 0..(Rate - 1) /\ d.num \in 0..(Rate - 1)
      /\ c.buf \in [1..BufSize -> Values] /\ d.buf \in [1..BufSize -> Values]
  BY DEF Ctx
<1>2. /\ Bytes(c.A) \in Seq(Values) /\ Len(Bytes(c.A)) = n /\ x \in Seq(Values) /\ Len(x) = c.num
      /\ Bytes(d.A) \in Seq(Values) /\ Len(Bytes(d.A)) = m /\ y \in Seq(Values) /\ Len(y) = d.num
      /\ c.num \in Nat /\ d.num \in Nat
  BY StreamType
<1>3. Bytes(c.A) \o x = Bytes(d.A) \o y
  BY DEF Stream
<1>x. /\ \A i \in 1..c.num : x[i] = c.buf[i]
      /\ \A i \in 1..d.num : y[i] = d.buf[i]
  BY <1>1, RateAssumption
<1> HIDE DEF x, y, n, m
<1>4. Len(Bytes(c.A) \o x) = n + c.num /\ Len(Bytes(d.A) \o y) = m + d.num
  <2>1. Len(Bytes(c.A) \o x) = Len(Bytes(c.A)) + Len(x)
    BY <1>2, ConcatAt, Zenon
  <2>2. Len(Bytes(d.A) \o y) = Len(Bytes(d.A)) + Len(y)
    BY <1>2, ConcatAt, Zenon
  <2> QED  BY <1>2, <2>1, <2>2, Zenon
<1>5. n + c.num = m + d.num
  BY <1>3, <1>4
<1>6. Len(c.A) \in Nat /\ Len(d.A) \in Nat
  BY <1>1, LenProperties
<1>7. /\ (n + c.num) \div Rate = Len(c.A) /\ (n + c.num) % Rate = c.num
      /\ (m + d.num) \div Rate = Len(d.A) /\ (m + d.num) % Rate = d.num
  BY <1>1, <1>6, DivModUnique DEF n, m
<1>8. Len(c.A) = Len(d.A) /\ c.num = d.num
  BY <1>5, <1>7, Zenon
<1>9. n \in Nat /\ n = m
  BY <1>6, <1>8, RateAssumption DEF n, m
<1>10. \A i \in 1..n : Bytes(c.A)[i] = Bytes(d.A)[i]
  <2> SUFFICES ASSUME NEW i \in 1..n PROVE Bytes(c.A)[i] = Bytes(d.A)[i]
    OBVIOUS
  <2>1. (Bytes(c.A) \o x)[i] = Bytes(c.A)[i]
    BY <1>2, ConcatAt
  <2>2. i \in 1..m /\ (Bytes(d.A) \o y)[i] = Bytes(d.A)[i]
    BY <1>2, <1>9, ConcatAt
  <2> QED  BY <1>3, <2>1, <2>2, Zenon
<1>11. \A i \in 1..c.num : x[i] = y[i]
  <2> SUFFICES ASSUME NEW i \in 1..c.num PROVE x[i] = y[i]
    OBVIOUS
  <2>1. (Bytes(c.A) \o x)[n + i] = x[i]
    BY <1>2, ConcatAt
  <2>2. (Bytes(d.A) \o y)[m + i] = y[i]
    BY <1>2, <1>8, ConcatAt
  <2> QED  BY <1>3, <1>9, <2>1, <2>2, Zenon
<1>12. ASSUME NEW k \in 1..Len(c.A) PROVE c.A[k] = d.A[k]
  <2>1. k \in 1..Len(d.A)
    BY <1>8
  <2>2. c.A[k] \in Block /\ d.A[k] \in Block
    BY <1>1, <2>1, ElementOfSeq
  <2>3. ASSUME NEW j \in 1..Rate PROVE c.A[k][j] = d.A[k][j]
    <3>1. (k - 1) * Rate + j \in 1..n /\ Bytes(c.A)[(k - 1) * Rate + j] = c.A[k][j]
      BY <1>1, BytesAt DEF n
    <3>2. Bytes(d.A)[(k - 1) * Rate + j] = d.A[k][j]
      BY <1>1, <2>1, BytesAt
    <3> QED  BY <1>10, <3>1, <3>2, Zenon
  <2> QED  BY <2>2, <2>3, BlockEqual
<1>13. c.A = d.A
  BY <1>1, <1>8, <1>12, SeqEqual
<1> QED  BY <1>x, <1>8, <1>11, <1>13

\* The block Sha3Final absorbs, byte by byte.
LastBlock(buf, num, pad) ==
  LET padded == Written(Written(buf, num, Zeros(Rate - num)), num, <<pad>>)
  IN  SubSeq([padded EXCEPT ![Rate] = WithTopBit(padded[Rate])], 1, Rate)

\* It is the used part of the buffer, the padding byte, zeros, and the last bit.
LEMMA LastBlockBytes ==
  ASSUME NEW buf \in [1..BufSize -> Values], NEW num \in 0..(Rate - 1), NEW pad \in {0, 4, 31}
  PROVE  /\ LastBlock(buf, num, pad) \in Block
         /\ LastBlock(buf, num, pad) \in Seq(Values)
         /\ Len(LastBlock(buf, num, pad)) = Rate
         /\ \A i \in 1..Rate :
              LET b == IF i <= num THEN buf[i] ELSE IF i = num + 1 THEN pad ELSE 0
              IN  LastBlock(buf, num, pad)[i] = IF i = Rate THEN WithTopBit(b) ELSE b
<1> DEFINE zeros == Zeros(Rate - num)
           zeroed == Written(buf, num, zeros)
           padded == Written(zeroed, num, <<pad>>)
           topped == [padded EXCEPT ![Rate] = WithTopBit(padded[Rate])]
           byte(i) == IF i <= num THEN buf[i] ELSE IF i = num + 1 THEN pad ELSE 0
<1>1. Rate \in Nat \ {0} /\ BufSize \in Nat /\ Rate <= BufSize /\ num \in Nat /\ num < Rate
  BY RateAssumption
<1>v. \A b \in 0..255 : b \in Values
  BY DEF Values
<1>2. zeros \in Seq(Values) /\ Len(zeros) = Rate - num /\ \A i \in 1..(Rate - num) : zeros[i] = 0
  <2>1. Rate - num \in Nat /\ 0 \in Values
    BY <1>1, <1>v
  <2> QED  BY <2>1 DEF Zeros
<1> HIDE DEF zeros
<1>3. <<pad>> \in Seq(Values) /\ Len(<<pad>>) = 1 /\ <<pad>>[1] = pad
  <2>1. pad \in 0..255
    OBVIOUS
  <2>2. pad \in Values
    BY <1>v, <2>1, Zenon
  <2> QED  BY <2>2
<1>4. /\ zeroed \in [1..BufSize -> Values]
      /\ \A i \in 1..BufSize : zeroed[i] = IF i - num \in 1..(Rate - num) THEN 0 ELSE buf[i]
  <2>1. /\ zeroed \in [1..BufSize -> Values]
        /\ \A i \in 1..BufSize :
             zeroed[i] = IF i - num \in 1..Len(zeros) THEN zeros[i - num] ELSE buf[i]
    BY <1>1, <1>2, WrittenBytes
  <2> QED  BY <1>2, <2>1
<1> HIDE DEF zeroed
<1>5. /\ padded \in [1..BufSize -> Values]
      /\ \A i \in 1..BufSize : padded[i] = IF i - num \in 1..1 THEN pad ELSE zeroed[i]
  <2>1. /\ padded \in [1..BufSize -> Values]
        /\ \A i \in 1..BufSize :
             padded[i] = IF i - num \in 1..Len(<<pad>>) THEN <<pad>>[i - num] ELSE zeroed[i]
    BY <1>1, <1>3, <1>4, WrittenBytes, Zenon
  <2>2. \A i \in 1..BufSize : i - num \in 1..1 => <<pad>>[i - num] = pad
    BY <1>1, <1>3
  <2> QED  BY <1>3, <2>1, <2>2
<1> HIDE DEF padded
<1>6. \A i \in 1..Rate : padded[i] = byte(i)
  BY <1>1, <1>4, <1>5
<1>7. Rate \in 1..BufSize /\ padded[Rate] \in {pad, 0}
  <2>1. Rate \in 1..BufSize /\ Rate \in 1..Rate /\ ~(Rate <= num)
    BY <1>1
  <2>2. padded[Rate] = byte(Rate)
    BY <2>1, <1>6, Zenon
  <2> QED  BY <2>1, <2>2, Zenon
<1>8. WithTopBit(padded[Rate]) \in Values
  <2>1. WithTopBit(padded[Rate]) \in 0..255
    <3>0. pad \in 0..31 /\ 0 \in 0..31
      OBVIOUS
    <3>1. padded[Rate] \in 0..31
      BY <1>7, <3>0, Zenon
    <3>2. \A b \in 0..31 : WithTopBit(b) \in 0..255
      BY DEF WithTopBit
    <3> QED  BY <3>1, <3>2, Zenon
  <2> QED  BY <2>1, <1>v, Zenon
<1>9. /\ topped \in [1..BufSize -> Values]
      /\ \A i \in 1..BufSize : topped[i] = IF i = Rate THEN WithTopBit(padded[Rate]) ELSE padded[i]
  BY <1>5, <1>7, <1>8
<1> HIDE DEF topped
<1>10. LastBlock(buf, num, pad) = SubSeq(topped, 1, Rate)
  BY Zenon DEF LastBlock, topped, padded, zeroed, zeros
<1>11. /\ LastBlock(buf, num, pad) \in Seq(Values) /\ Len(LastBlock(buf, num, pad)) = Rate
       /\ \A i \in 1..Rate : LastBlock(buf, num, pad)[i] = topped[i]
  BY <1>1, <1>9, <1>10
<1>12. LastBlock(buf, num, pad) \in Block
  BY <1>11, LenProperties DEF Block
<1>13. \A i \in 1..Rate :
         LastBlock(buf, num, pad)[i] = IF i = Rate THEN WithTopBit(byte(i)) ELSE byte(i)
  BY <1>1, <1>6, <1>9, <1>11
<1> QED  BY <1>11, <1>12, <1>13

\* The digest depends on the bytes given, the padding byte and the length asked for.
LEMMA FinalDetermined ==
  ASSUME NEW c \in Ctx, NEW d \in Ctx, Stream(c) = Stream(d), c.pad = d.pad, c.md_size = d.md_size
  PROVE  Sha3Final(c) = Sha3Final(d)
<1> DEFINE f == LastBlock(c.buf, c.num, c.pad)
           g == LastBlock(d.buf, d.num, d.pad)
<1>1. /\ c.buf \in [1..BufSize -> Values] /\ c.num \in 0..(Rate - 1) /\ c.pad \in {0, 4, 31}
      /\ d.buf \in [1..BufSize -> Values] /\ d.num \in 0..(Rate - 1) /\ d.pad \in {0, 4, 31}
  BY DEF Ctx
<1>2. c.A = d.A /\ c.num = d.num /\ \A i \in 1..c.num : c.buf[i] = d.buf[i]
  BY StreamDetermines
<1>3. f \in Block /\ g \in Block
  BY <1>1, LastBlockBytes
<1>4. ASSUME NEW i \in 1..Rate PROVE f[i] = g[i]
  <2> DEFINE b == IF i <= c.num THEN c.buf[i] ELSE IF i = c.num + 1 THEN c.pad ELSE 0
             e == IF i <= d.num THEN d.buf[i] ELSE IF i = d.num + 1 THEN d.pad ELSE 0
  <2>1. f[i] = IF i = Rate THEN WithTopBit(b) ELSE b
    BY <1>1, LastBlockBytes
  <2>2. g[i] = IF i = Rate THEN WithTopBit(e) ELSE e
    BY <1>1, LastBlockBytes
  <2>3. i <= c.num => i \in 1..c.num
    BY <1>1, RateAssumption
  <2>4. b = e
    BY <1>2, <2>3, Zenon
  <2> HIDE DEF b, e, f, g
  <2> QED  BY <2>1, <2>2, <2>4, Zenon
<1> HIDE DEF f, g
<1>5. f = g
  BY <1>3, <1>4, BlockEqual
<1>6. /\ Sha3Final(c) = [blocks |-> SHA3_absorb(c.A, f), len |-> c.md_size]
      /\ Sha3Final(d) = [blocks |-> SHA3_absorb(d.A, g), len |-> d.md_size]
  BY Zenon DEF Sha3Final, LastBlock, f, g
<1> QED  BY <1>2, <1>5, <1>6, Zenon

\* The padded block is the last of the digest's blocks.
LEMMA FinalType ==
  ASSUME NEW c \in Ctx
  PROVE  /\ Sha3Final(c).blocks \in Seq(Block)
         /\ Sha3Final(c).blocks # <<>>
<1> DEFINE f == LastBlock(c.buf, c.num, c.pad)
           A == SHA3_absorb(c.A, f)
<1>1. /\ c.buf \in [1..BufSize -> Values] /\ c.num \in 0..(Rate - 1) /\ c.pad \in {0, 4, 31}
      /\ c.A \in Seq(Block)
  BY DEF Ctx
<1>2. f \in Seq(Values) /\ Len(f) = Rate
  BY <1>1, LastBlockBytes
<1>3. Rate \div Rate = 1
  BY RateAssumption
<1> HIDE DEF f
<1>4. A \in Seq(Block) /\ Len(A) = Len(c.A) + 1
  BY <1>1, <1>2, <1>3, AbsorbBytes
<1>5. A # <<>>
  BY <1>1, <1>4
<1>6. Sha3Final(c).blocks = A
  BY DEF Sha3Final, LastBlock, f
<1> QED  BY <1>4, <1>5, <1>6, Zenon

-----------------------------------------------------------------------------
(* Lengths, strings and the preamble.                                       *)

\* Whether n bytes are all a value may take, or are enough for it.
Few(v, n) == n = UintnBytes \/ ~Exceeds(v, n)

\* The bytes of a value are as few as can be.
Fits(v, n) == Few(v, n) /\ (n = 1 \/ Exceeds(v, n - 1))

\* The number of bytes LeftEncode needs.
BytesOf(v) == CHOOSE n \in 1..UintnBytes : Fits(v, n)

\* There is such a number.
LEMMA BytesOfFits ==
  ASSUME NEW v
  PROVE  BytesOf(v) \in 1..UintnBytes /\ Fits(v, BytesOf(v))
<1>1. \E n \in 1..UintnBytes : Fits(v, n)
  <2> SUFFICES ASSUME \A n \in 1..UintnBytes : ~Fits(v, n) PROVE FALSE
    OBVIOUS
  <2>1. ASSUME NEW n \in 1..UintnBytes, n = 1 \/ Exceeds(v, n - 1)
        PROVE  n + 1 \in 1..UintnBytes /\ Exceeds(v, (n + 1) - 1)
    <3>1. ~Few(v, n)
      BY <2>1 DEF Fits
    <3>2. n # UintnBytes /\ Exceeds(v, n) /\ (n + 1) - 1 = n
      BY <3>1 DEF Few
    <3> QED  BY <3>2, UintnAssumption
  <2> DEFINE long(n) == n \in 1..UintnBytes /\ (n = 1 \/ Exceeds(v, n - 1))
  <2>2. ASSUME NEW n \in Nat, long(n) PROVE long(n + 1)
    BY <2>1, <2>2
  <2>3. long(1)
    BY UintnAssumption
  <2> HIDE DEF long
  <2>4. long(9)
    <3>1. long(2)
      <4>1. 1 + 1 = 2
        OBVIOUS
      <4> QED  BY <2>2, <2>3, <4>1
    <3>2. long(3)
      BY <2>2, <3>1, 2 + 1 = 3
    <3>3. long(4)
      BY <2>2, <3>2, 3 + 1 = 4
    <3>4. long(5)
      BY <2>2, <3>3, 4 + 1 = 5
    <3>5. long(6)
      BY <2>2, <3>4, 5 + 1 = 6
    <3>6. long(7)
      BY <2>2, <3>5, 6 + 1 = 7
    <3>7. long(8)
      BY <2>2, <3>6, 7 + 1 = 8
    <3> QED  BY <2>2, <3>7, 8 + 1 = 9
  <2> QED  BY <2>4, UintnAssumption DEF long
<1> QED  BY <1>1, Zenon DEF BytesOf

\* A length is encoded as a sequence of bytes.
LEMMA LeftEncodeType ==
  ASSUME NEW v \in Nat
  PROVE  LeftEncode(v) \in Seq(Values)
<1> DEFINE BlockNum == BytesOf(v)
           byte(i) == ShiftedBytes(v)[BlockNum - i] % 256
           T == {BlockNum} \cup {byte(i) : i \in 1..BlockNum}
<1>2. BlockNum \in 1..UintnBytes
  BY BytesOfFits
<1>3. LeftEncode(v) = <<BlockNum>> \o [i \in 1..BlockNum |-> byte(i)]
  BY Zenon DEF LeftEncode, BytesOf, Fits, Few
<1>4. BlockNum \in Nat
  BY <1>2, UintnAssumption
<1> HIDE DEF BlockNum, byte
<1>5. <<BlockNum>> \in Seq(T) /\ [i \in 1..BlockNum |-> byte(i)] \in Seq(T)
  BY <1>4
<1>6. LeftEncode(v) \in Seq(T)
  BY <1>3, <1>5, ConcatProperties
<1> HIDE DEF T
<1>7. /\ Len(LeftEncode(v)) \in Nat
      /\ LeftEncode(v) = [i \in 1..Len(LeftEncode(v)) |-> LeftEncode(v)[i]]
  BY <1>6
<1>8. \A i \in Nat : LeftEncode(v)[i] \in Values
  BY DEF Values
<1> QED  BY <1>7, <1>8

\* Zeros are bytes.
LEMMA ZerosType ==
  ASSUME NEW n \in Nat
  PROVE  Zeros(n) \in Seq(Values)
<1>1. 0 \in Values
  BY DEF Values
<1> QED  BY <1>1 DEF Zeros

\* An initialised context was given nothing, whatever its buffer holds.
LEMMA FreshStream ==
  ASSUME NEW c \in Ctx, NEW pad \in {0, 4, 31}, NEW len \in Nat
  PROVE  /\ KeccakInit(c, pad, len) \in Ctx
         /\ Stream(KeccakInit(c, pad, len)) = <<>>
         /\ KeccakInit(c, pad, len).pad = pad
         /\ KeccakInit(c, pad, len).md_size = len
<1> DEFINE u == KeccakInit(c, pad, len)
<1>1. 0 \in 0..(Rate - 1) /\ <<>> \in Seq(Block) /\ Len(<<>>) = 0 /\ 0 * Rate = 0
  BY RateAssumption
<1>2. u \in Ctx /\ u.A = <<>> /\ u.num = 0 /\ u.pad = pad /\ u.md_size = len
  BY <1>1 DEF KeccakInit, Ctx
<1> HIDE DEF u
<1>3. Bytes(u.A) \in Seq(Values) /\ Len(Bytes(u.A)) = 0
  BY <1>1, <1>2, BytesType
<1>4. Bytes(u.A) = <<>>
  BY <1>3, EmptySeq
<1>5. SubSeq(u.buf, 1, u.num) = <<>>
  BY <1>2, SubSeqEmpty
<1>6. Stream(u) = <<>> \o <<>>
  BY <1>4, <1>5, Zenon DEF Stream
<1>7. <<>> \o <<>> = <<>>
  BY <1>1, ConcatEmptySeq
<1> QED  BY <1>2, <1>6, <1>7, Zenon DEF u

\* A string is absorbed behind its length.
LEMMA StringStream ==
  ASSUME NEW c \in Ctx, NEW string \in Seq(Values)
  PROVE  /\ AbsorbString(c, string) \in Ctx
         /\ Stream(AbsorbString(c, string)) = (Stream(c) \o LeftEncode(Len(string) * 8)) \o string
         /\ AbsorbString(c, string).pad = c.pad
         /\ AbsorbString(c, string).md_size = c.md_size
<1> DEFINE e == LeftEncode(Len(string) * 8)
           d == Sha3Update(c, e)
<1>1. Len(string) * 8 \in Nat
  BY LenProperties
<1>2. e \in Seq(Values)
  BY <1>1, LeftEncodeType
<1> HIDE DEF e
<1>3. d \in Ctx /\ Stream(d) = Stream(c) \o e /\ d.pad = c.pad /\ d.md_size = c.md_size
  BY <1>2, UpdateStream
<1> HIDE DEF d
<1>4. /\ Sha3Update(d, string) \in Ctx /\ Stream(Sha3Update(d, string)) = Stream(d) \o string
      /\ Sha3Update(d, string).pad = d.pad /\ Sha3Update(d, string).md_size = d.md_size
  BY <1>3, UpdateStream
<1>5. AbsorbString(c, string) = Sha3Update(d, string)
  BY Zenon DEF AbsorbString, d, e
<1> QED  BY <1>3, <1>4, <1>5, Zenon DEF e

\* The padding byte tells cSHAKE from SHAKE.
PadOf(name, custom) == IF name = <<>> /\ custom = <<>> THEN 31 ELSE 4

\* Everything that CShake256HashAll may be asked.
Question == [name : Seq(Values), custom : Seq(Values), data : Seq(Values), len : Nat]

\* CShake256Init absorbs the header of what is asked.
LEMMA InitStream ==
  ASSUME NEW c \in Ctx, NEW q \in Question
  PROVE  /\ InitContext(c, q.len, q.name, q.custom) \in Ctx
         /\ Stream(InitContext(c, q.len, q.name, q.custom)) = Header(q)
         /\ InitContext(c, q.len, q.name, q.custom).pad = PadOf(q.name, q.custom)
         /\ InitContext(c, q.len, q.name, q.custom).md_size = q.len
<1> DEFINE u == InitContext(c, q.len, q.name, q.custom)
<1>0. q.len \in Nat /\ q.name \in Seq(Values) /\ q.custom \in Seq(Values)
  BY DEF Question
<1>1. CASE q.name = <<>> /\ q.custom = <<>>
  <2>1. u = KeccakInit(c, 31, q.len) /\ Header(q) = <<>> /\ PadOf(q.name, q.custom) = 31
    BY <1>1 DEF InitContext, Header, PadOf
  <2> HIDE DEF u
  <2>2. 31 \in {0, 4, 31}
    OBVIOUS
  <2>3. /\ KeccakInit(c, 31, q.len) \in Ctx /\ Stream(KeccakInit(c, 31, q.len)) = <<>>
        /\ KeccakInit(c, 31, q.len).pad = 31 /\ KeccakInit(c, 31, q.len).md_size = q.len
    BY <1>0, <2>2, FreshStream, Zenon
  <2> QED  BY <2>1, <2>3, Zenon DEF u
<1>2. CASE ~(q.name = <<>> /\ q.custom = <<>>)
  <2> DEFINE k == KeccakInit(c, 4, q.len)
             r == LeftEncode(Rate)
             ln == LeftEncode(Len(q.name) * 8)
             lc == LeftEncode(Len(q.custom) * 8)
             first == Sha3Update(k, r)
             name == AbsorbString(first, q.name)
             both == AbsorbString(name, q.custom)
             preamble == Preamble(q.name, q.custom)
             zeros == Zeros(PadLen(Len(preamble)))
  <2>1. u = Sha3Update(both, zeros) /\ Header(q) = preamble \o zeros /\ PadOf(q.name, q.custom) = 4
    BY <1>2, Zenon DEF InitContext, Header, PadOf
  <2>2. preamble = (((r \o ln) \o q.name) \o lc) \o q.custom
    BY Zenon DEF Preamble
  <2>3. r \in Seq(Values) /\ ln \in Seq(Values) /\ lc \in Seq(Values)
    <3>1. Rate \in Nat /\ Len(q.name) * 8 \in Nat /\ Len(q.custom) * 8 \in Nat
      BY <1>0, RateAssumption, LenProperties
    <3> QED  BY <3>1, LeftEncodeType
  <2> HIDE DEF u, preamble, r, ln, lc
  <2>4. preamble \in Seq(Values)
    BY <1>0, <2>2, <2>3, ConcatProperties
  <2>5. zeros \in Seq(Values)
    <3>1. Len(preamble) \in Nat
      BY <2>4, LenProperties
    <3>2. PadLen(Len(preamble)) \in Nat
      BY <3>1, DivMod, RateAssumption DEF PadLen
    <3> QED  BY <3>2, ZerosType
  <2> HIDE DEF zeros
  <2>6. 4 \in {0, 4, 31}
    OBVIOUS
  <2>7. k \in Ctx /\ Stream(k) = <<>> /\ k.pad = 4 /\ k.md_size = q.len
    BY <1>0, <2>6, FreshStream, Zenon
  <2> HIDE DEF k
  <2>8. /\ first \in Ctx /\ Stream(first) = r /\ first.pad = 4 /\ first.md_size = q.len
    <3>1. first \in Ctx /\ Stream(first) = <<>> \o r /\ first.pad = 4 /\ first.md_size = q.len
      BY <2>3, <2>7, UpdateStream, Zenon
    <3>2. <<>> \o r = r
      BY <2>3, ConcatEmptySeq
    <3> QED  BY <3>1, <3>2, Zenon
  <2> HIDE DEF first
  <2>9. /\ name \in Ctx /\ Stream(name) = (r \o ln) \o q.name /\ name.pad = 4 /\ name.md_size = q.len
    BY <1>0, <2>8, StringStream, Zenon DEF ln
  <2> HIDE DEF name
  <2>10. /\ both \in Ctx /\ Stream(both) = preamble /\ both.pad = 4 /\ both.md_size = q.len
    BY <1>0, <2>2, <2>9, StringStream, Zenon DEF lc
  <2> HIDE DEF both
  <2>11. /\ u \in Ctx /\ Stream(u) = preamble \o zeros /\ u.pad = 4 /\ u.md_size = q.len
    BY <2>1, <2>5, <2>10, UpdateStream, Zenon
  <2> QED  BY <2>1, <2>11, Zenon DEF u
<1> QED  BY <1>1, <1>2

-----------------------------------------------------------------------------
(* The invariant of a context.                                              *)

\* An open context was given the header and the data of what is asked, and knows
\* the padding and the length that belong to it.
OpenInv ==
  stage = "open" =>
    /\ Stream(ctx) = Header(asked) \o asked.data
    /\ ctx.pad = PadOf(asked.name, asked.custom)
    /\ ctx.md_size = asked.len

ContextInv == ctx \in Ctx /\ asked \in Question /\ OpenInv /\ PiecesDoNotMatter

\* A context on the stack, before its first use.
JunkCtx ==
  [A |-> <<>>, num |-> 0, buf |-> [i \in 1..BufSize |-> Junk], pad |-> 0, md_size |-> 0]

\* It is a context like any other.
LEMMA JunkContext == JunkCtx \in Ctx
<1>1. Junk \in Values /\ 0 \in 0..(Rate - 1) /\ <<>> \in Seq(Block)
  BY RateAssumption DEF Values
<1> QED  BY <1>1 DEF Ctx, JunkCtx

\* The header is a sequence of bytes.
LEMMA HeaderType ==
  ASSUME NEW q \in Question
  PROVE  Header(q) \in Seq(Values)
<1> DEFINE u == InitContext(JunkCtx, q.len, q.name, q.custom)
<1>1. u \in Ctx /\ Stream(u) = Header(q)
  BY JunkContext, InitStream
<1> QED  BY <1>1, StreamType

\* Strings and data are sequences of bytes.
LEMMA InputsAreBytes ==
  /\ Strings \subseteq Seq(Values)
  /\ \A n \in Nat : Data(n) \subseteq Seq(Values)
  /\ OutputLens \subseteq Nat
<1>1. 0..255 \subseteq Values /\ DataBytes \subseteq Values
  BY DEF Values
<1>2. ASSUME NEW s \in Strings PROVE s \in Seq(Values)
  <2>1. s \in Seq(0..255)
    BY StringsAssumption
  <2> QED  BY <1>1, <2>1, SeqMonotonic
<1>3. ASSUME NEW n \in Nat, NEW d \in Data(n) PROVE d \in Seq(Values)
  <2>1. PICK k \in 0..n : d \in [1..k -> DataBytes]
    BY DEF Data
  <2>2. k \in Nat /\ d \in [1..k -> Values]
    BY <1>1, <2>1
  <2> QED  BY <2>2
<1> QED  BY <1>2, <1>3, OutputLensAssumption

\* The invariant before the first call.
LEMMA ContextInit == Init => ContextInv
<1> SUFFICES ASSUME Init PROVE ContextInv
  OBVIOUS
<1>1. ctx \in Ctx
  BY JunkContext DEF Init, JunkCtx
<1>2. asked \in Question
  BY DEF Init, Question
<1>3. OpenInv /\ PiecesDoNotMatter
  BY DEF Init, OpenInv, PiecesDoNotMatter
<1> QED  BY <1>1, <1>2, <1>3 DEF ContextInv

\* CShake256Init keeps the invariant, whatever state the context is in.
LEMMA InitKeeps ==
  ASSUME ContextInv, NEW l \in OutputLens, NEW n \in Strings, NEW c \in Strings, CShake256Init(l, n, c)
  PROVE  ContextInv'
<1> DEFINE q == [name |-> n, custom |-> c, data |-> <<>>, len |-> l]
<1>1. ctx \in Ctx /\ n \in Seq(Values) /\ c \in Seq(Values) /\ l \in Nat
  BY InputsAreBytes DEF ContextInv
<1>2. q \in Question /\ q.name = n /\ q.custom = c /\ q.len = l /\ q.data = <<>>
  BY <1>1 DEF Question
<1>3. ctx' = InitContext(ctx, l, n, c) /\ asked' = q /\ stage' = "open"
  BY DEF CShake256Init
<1> HIDE DEF q
<1>4. /\ ctx' \in Ctx /\ Stream(ctx') = Header(q) /\ ctx'.pad = PadOf(n, c) /\ ctx'.md_size = l
  BY <1>1, <1>2, <1>3, InitStream
<1>5. Header(q) \o <<>> = Header(q)
  <2>1. Stream(ctx') \in Seq(Values)
    BY <1>4, StreamType
  <2> QED  BY <1>4, <2>1, ConcatEmptySeq
<1>6. Stream(ctx)' = Stream(ctx')
  BY DEF Stream, Bytes
<1>7. Header(asked)' = Header(q)
  BY <1>3 DEF Header, Preamble, Zeros, PadLen, LeftEncode, Exceeds
<1>8. OpenInv'
  BY <1>2, <1>3, <1>4, <1>5, <1>6, <1>7 DEF OpenInv, PadOf
<1>9. PiecesDoNotMatter'
  BY <1>3 DEF PiecesDoNotMatter
<1> QED  BY <1>2, <1>3, <1>4, <1>8, <1>9 DEF ContextInv

\* CShake256Update keeps the invariant, whatever the size of the piece.
LEMMA UpdateKeeps ==
  ASSUME ContextInv, NEW piece \in Data(MaxPiece), CShake256Update(piece)
  PROVE  ContextInv'
<1>1. /\ ctx \in Ctx /\ asked \in Question /\ stage = "open" /\ piece \in Seq(Values)
      /\ Stream(ctx) = Header(asked) \o asked.data
      /\ ctx.pad = PadOf(asked.name, asked.custom) /\ ctx.md_size = asked.len
  BY InputsAreBytes, BoundsAssumption DEF ContextInv, OpenInv, CShake256Update
<1>2. /\ ctx' = Sha3Update(ctx, piece) /\ stage' = "open"
      /\ asked' = [asked EXCEPT !.data = asked.data \o piece]
  BY <1>1 DEF CShake256Update
<1>3. /\ asked' \in Question /\ asked'.name = asked.name /\ asked'.custom = asked.custom
      /\ asked'.len = asked.len /\ asked'.data = asked.data \o piece
  <2>1. asked.data \in Seq(Values)
    BY <1>1 DEF Question
  <2>2. asked.data \o piece \in Seq(Values)
    BY <1>1, <2>1, ConcatProperties
  <2> QED  BY <1>1, <1>2, <2>2 DEF Question
<1>4. /\ ctx' \in Ctx /\ Stream(ctx') = Stream(ctx) \o piece
      /\ ctx'.pad = ctx.pad /\ ctx'.md_size = ctx.md_size
  BY <1>1, <1>2, UpdateStream
<1>5. (Header(asked) \o asked.data) \o piece = Header(asked) \o (asked.data \o piece)
  <2>1. Header(asked) \in Seq(Values)
    BY <1>1, HeaderType
  <2>2. asked.data \in Seq(Values)
    BY <1>1 DEF Question
  <2> QED  BY <1>1, <2>1, <2>2, Associative, Zenon
<1>6. Header(asked') = Header(asked)
  BY <1>3, Zenon DEF Header
<1>7. Stream(ctx') = Header(asked') \o asked'.data
  BY <1>1, <1>3, <1>4, <1>5, <1>6, Zenon
<1>8. OpenInv'
  BY <1>1, <1>3, <1>4, <1>7 DEF OpenInv
<1>9. PiecesDoNotMatter'
  BY <1>2 DEF PiecesDoNotMatter
<1> QED  BY <1>3, <1>4, <1>8, <1>9 DEF ContextInv

\* CShake256Final gives the digest CShake256HashAll gives, and keeps the invariant.
LEMMA FinalKeeps ==
  ASSUME ContextInv, CShake256Final
  PROVE  ContextInv'
<1> DEFINE onStack == JunkCtx
           start == InitContext(onStack, asked.len, asked.name, asked.custom)
           whole == Sha3Update(start, asked.data)
           blocks == Sha3Final(ctx).blocks
           last == blocks[Len(blocks)]
<1>1. /\ ctx \in Ctx /\ asked \in Question /\ stage = "open"
      /\ Stream(ctx) = Header(asked) \o asked.data
      /\ ctx.pad = PadOf(asked.name, asked.custom) /\ ctx.md_size = asked.len
      /\ asked.data \in Seq(Values)
  BY DEF ContextInv, OpenInv, CShake256Final, Question
<1>2. /\ digest' = Sha3Final(ctx) /\ stage' = "done" /\ asked' = asked
      /\ ctx' = [ctx EXCEPT !.A = blocks, !.buf = Written(ctx.buf, 0, last)]
  BY <1>1 DEF CShake256Final
<1>3. CShake256HashAll(asked) = Sha3Final(whole)
  BY Zenon DEF CShake256HashAll, JunkCtx
<1>4. onStack \in Ctx
  BY JunkContext
<1> HIDE DEF onStack
<1>5. /\ start \in Ctx /\ Stream(start) = Header(asked)
      /\ start.pad = PadOf(asked.name, asked.custom) /\ start.md_size = asked.len
  BY <1>1, <1>4, InitStream
<1> HIDE DEF start
<1>6. /\ whole \in Ctx /\ Stream(whole) = Header(asked) \o asked.data
      /\ whole.pad = start.pad /\ whole.md_size = start.md_size
  <2>1. /\ whole \in Ctx /\ Stream(whole) = Stream(start) \o asked.data
        /\ whole.pad = start.pad /\ whole.md_size = start.md_size
    BY <1>1, <1>5, UpdateStream
  <2> QED  BY <1>5, <2>1, Zenon
<1> HIDE DEF whole
<1>7. digest' = CShake256HashAll(asked)
  BY <1>1, <1>2, <1>3, <1>5, <1>6, FinalDetermined
<1>8. PiecesDoNotMatter' /\ OpenInv'
  BY <1>2, <1>7 DEF PiecesDoNotMatter, OpenInv
<1>9. blocks \in Seq(Block) /\ last \in Seq(Values)
  <2>1. blocks \in Seq(Block) /\ blocks # <<>>
    BY <1>1, FinalType
  <2> HIDE DEF blocks
  <2>2. last \in Block
    BY <2>1
  <2> HIDE DEF last
  <2>3. last \in Seq(Values)
    BY <2>2, RateAssumption DEF Block
  <2> QED  BY <2>1, <2>3
<1> HIDE DEF blocks, last
<1>10. ctx' \in Ctx
  <2>1. ctx.buf \in [1..BufSize -> Values]
    BY <1>1 DEF Ctx
  <2>2. Written(ctx.buf, 0, last) \in [1..BufSize -> Values]
    BY <1>9, <2>1, WrittenBytes
  <2> QED  BY <1>1, <1>2, <1>9, <2>2 DEF Ctx
<1> QED  BY <1>1, <1>2, <1>8, <1>10 DEF ContextInv

\* A call keeps the invariant.
LEMMA ContextStep == ContextInv /\ [Next]_vars => ContextInv'
<1> SUFFICES ASSUME ContextInv, [Next]_vars PROVE ContextInv'
  OBVIOUS
<1>1. ASSUME NEW l \in OutputLens, NEW n \in Strings, NEW c \in Strings, CShake256Init(l, n, c)
      PROVE  ContextInv'
  BY <1>1, InitKeeps
<1>2. ASSUME NEW d \in Data(MaxPiece), CShake256Update(d)
      PROVE  ContextInv'
  BY <1>2, UpdateKeeps
<1>3. CASE CShake256Final
  BY <1>3, FinalKeeps
<1>4. CASE UNCHANGED vars
  BY <1>4 DEF vars, ContextInv, OpenInv, PiecesDoNotMatter
<1> QED  BY <1>1, <1>2, <1>3, <1>4 DEF Next

\* The inductive invariant of a cSHAKE256 context.
THEOREM ContextInvariant == Spec => []ContextInv
BY ContextInit, ContextStep, PTL DEF Spec

\* Sha3Update and CShake256Init lose, repeat and reorder no byte: what was absorbed
\* and what waits in the buffer is the header and the data, for pieces of any size.
THEOREM StreamAlwaysKept == Spec => []StreamIsKept
<1>1. ContextInv => StreamIsKept
  <2> SUFFICES ASSUME ContextInv, stage = "open"
               PROVE  /\ ctx.num < Rate
                      /\ Bytes(ctx.A) \o SubSeq(ctx.buf, 1, ctx.num) = Header(asked) \o asked.data
    BY DEF StreamIsKept
  <2>1. ctx \in Ctx /\ Stream(ctx) = Header(asked) \o asked.data
    BY DEF ContextInv, OpenInv
  <2> QED  BY <2>1, StreamType DEF Stream
<1> QED  BY <1>1, ContextInvariant, PTL

\* The digest of data given in pieces to a context that was used before is the one
\* CShake256HashAll computes in one call on a context of its own.
THEOREM PiecesNeverMatter == Spec => []PiecesDoNotMatter
<1>1. ContextInv => PiecesDoNotMatter
  BY DEF ContextInv
<1> QED  BY <1>1, ContextInvariant, PTL
-----------------------------------------------------------------------------
(* What a digest tells.                                                     *)

\* Sequences that begin with parts of the same length have equal parts.
LEMMA Cancel ==
  ASSUME NEW s \in Seq(Values), NEW t \in Seq(Values), NEW x \in Seq(Values), NEW y \in Seq(Values),
         s \o x = t \o y, Len(s) = Len(t)
  PROVE  s = t /\ x = y
<1>1. /\ Len(s \o x) = Len(s) + Len(x) /\ Len(t \o y) = Len(t) + Len(y)
      /\ Len(s) \in Nat /\ Len(x) \in Nat /\ Len(y) \in Nat
  <2>1. Len(s \o x) = Len(s) + Len(x)
    BY ConcatAt
  <2>2. Len(t \o y) = Len(t) + Len(y)
    BY ConcatAt
  <2> QED  BY <2>1, <2>2, LenProperties
<1>2. Len(x) = Len(y)
  BY <1>1
<1>3. ASSUME NEW i \in 1..Len(s) PROVE s[i] = t[i]
  <2>1. (s \o x)[i] = s[i]
    BY ConcatAt
  <2>2. (t \o y)[i] = t[i]
    BY ConcatAt
  <2> QED  BY <2>1, <2>2, Zenon
<1>4. ASSUME NEW i \in 1..Len(x) PROVE x[i] = y[i]
  <2>1. (s \o x)[Len(s) + i] = x[i]
    BY ConcatAt
  <2>2. (t \o y)[Len(t) + i] = y[i]
    BY <1>2, ConcatAt
  <2> QED  BY <2>1, <2>2, Zenon
<1>5. s = t
  BY <1>3, SeqEqual
<1>6. x = y
  BY <1>2, <1>4, SeqEqual
<1> QED  BY <1>5, <1>6

\* The used part of the buffer and the padding byte can be read off the last block:
\* what follows the padding byte is zero up to the last bit.
LEMMA LastBlockTells ==
  ASSUME NEW buf \in [1..BufSize -> Values], NEW num \in 0..(Rate - 1), NEW pad \in {4, 31},
         NEW buf2 \in [1..BufSize -> Values], NEW num2 \in 0..(Rate - 1), NEW pad2 \in {4, 31},
         LastBlock(buf, num, pad) = LastBlock(buf2, num2, pad2)
  PROVE  num = num2 /\ pad = pad2 /\ \A i \in 1..num : buf[i] = buf2[i]
<1> DEFINE byte(i) == IF i <= num THEN buf[i] ELSE IF i = num + 1 THEN pad ELSE 0
           byte2(i) == IF i <= num2 THEN buf2[i] ELSE IF i = num2 + 1 THEN pad2 ELSE 0
           f == LastBlock(buf, num, pad)
           g == LastBlock(buf2, num2, pad2)
<1>0. pad \in {0, 4, 31} /\ pad2 \in {0, 4, 31}
  OBVIOUS
<1>1. Rate \in Nat /\ Rate >= 2 /\ num \in Nat /\ num < Rate /\ num2 \in Nat /\ num2 < Rate
  BY RateAssumption
<1>2. \A i \in 1..Rate : f[i] = IF i = Rate THEN WithTopBit(byte(i)) ELSE byte(i)
  BY <1>0, LastBlockBytes, Zenon
<1>3. \A i \in 1..Rate : g[i] = IF i = Rate THEN WithTopBit(byte2(i)) ELSE byte2(i)
  BY <1>0, LastBlockBytes, Zenon
<1>4. f = g
  OBVIOUS
<1> HIDE DEF f, g, byte, byte2
<1>5. \A i \in 1..Rate : /\ i # Rate => byte(i) = byte2(i)
                         /\ i = Rate => WithTopBit(byte(i)) = WithTopBit(byte2(i))
  BY <1>2, <1>3, <1>4
<1>6. \A b, c \in {0, 4, 31} : WithTopBit(b) = WithTopBit(c) => b = c
  BY DEF WithTopBit
<1>7. num = num2
  <2>1. CASE num < num2
    <3>1. num2 + 1 \in 1..Rate /\ byte(num2 + 1) = 0 /\ byte2(num2 + 1) = pad2
      BY <1>1, <2>1 DEF byte, byte2
    <3>2. pad2 = 0
      BY <1>5, <1>6, <3>1
    <3> QED  BY <3>2
  <2>2. CASE num2 < num
    <3>1. num + 1 \in 1..Rate /\ byte2(num + 1) = 0 /\ byte(num + 1) = pad
      BY <1>1, <2>2 DEF byte, byte2
    <3>2. pad = 0
      BY <1>5, <1>6, <3>1
    <3> QED  BY <3>2
  <2> QED  BY <1>1, <2>1, <2>2
<1>8. pad = pad2
  <2>1. num + 1 \in 1..Rate /\ byte(num + 1) = pad /\ byte2(num + 1) = pad2
    BY <1>1, <1>7 DEF byte, byte2
  <2> QED  BY <1>5, <1>6, <2>1
<1>9. ASSUME NEW i \in 1..num PROVE buf[i] = buf2[i]
  <2>1. i \in 1..Rate /\ i # Rate /\ byte(i) = buf[i] /\ byte2(i) = buf2[i]
    BY <1>1, <1>7 DEF byte, byte2
  <2> QED  BY <1>5, <2>1
<1> QED  BY <1>7, <1>8, <1>9

\* The last block follows the blocks absorbed before.
LEMMA FinalBytes ==
  ASSUME NEW c \in Ctx
  PROVE  LET f == LastBlock(c.buf, c.num, c.pad)
         IN  /\ f \in Seq(Values) /\ Len(f) = Rate
             /\ Bytes(Sha3Final(c).blocks) = Bytes(c.A) \o f
             /\ Len(Bytes(c.A) \o f) = Len(Bytes(c.A)) + Rate
             /\ Sha3Final(c).len = c.md_size
<1> DEFINE f == LastBlock(c.buf, c.num, c.pad)
           A == SHA3_absorb(c.A, f)
<1>1. /\ c.buf \in [1..BufSize -> Values] /\ c.num \in 0..(Rate - 1) /\ c.pad \in {0, 4, 31}
      /\ c.A \in Seq(Block)
  BY DEF Ctx
<1>2. f \in Seq(Values) /\ Len(f) = Rate
  BY <1>1, LastBlockBytes
<1>3. Sha3Final(c).blocks = A /\ Sha3Final(c).len = c.md_size
  BY DEF Sha3Final, LastBlock
<1> HIDE DEF f
<1>4. (Len(f) \div Rate) * Rate = Rate
  <2>1. Rate \div Rate = 1
    BY RateAssumption
  <2> QED  BY <1>2, <2>1, RateAssumption
<1>5. SubSeq(f, 1, Rate) = f
  BY <1>2, SubSeqFull
<1>6. Bytes(A) = Bytes(c.A) \o SubSeq(f, 1, (Len(f) \div Rate) * Rate)
  BY <1>1, <1>2, AbsorbBytes, Zenon
<1>7. Bytes(A) = Bytes(c.A) \o f
  BY <1>4, <1>5, <1>6, Zenon
<1>8. Bytes(c.A) \in Seq(Values)
  BY <1>1, BytesType
<1>9. Len(Bytes(c.A) \o f) = Len(Bytes(c.A)) + Len(f)
  BY <1>2, <1>8, ConcatAt
<1> QED  BY <1>2, <1>3, <1>7, <1>9, Zenon DEF f

\* The blocks absorbed tell the bytes given and the padding byte.
LEMMA FinalTells ==
  ASSUME NEW c \in Ctx, NEW d \in Ctx, c.pad \in {4, 31}, d.pad \in {4, 31},
         Sha3Final(c).blocks = Sha3Final(d).blocks
  PROVE  Stream(c) = Stream(d) /\ c.pad = d.pad
<1> DEFINE f == LastBlock(c.buf, c.num, c.pad)
           g == LastBlock(d.buf, d.num, d.pad)
           x == SubSeq(c.buf, 1, c.num)
           y == SubSeq(d.buf, 1, d.num)
           B == Bytes(c.A)
           D == Bytes(d.A)
<1>1. /\ c.buf \in [1..BufSize -> Values] /\ c.num \in 0..(Rate - 1)
      /\ d.buf \in [1..BufSize -> Values] /\ d.num \in 0..(Rate - 1)
  BY DEF Ctx
<1>2. /\ f \in Seq(Values) /\ Len(f) = Rate /\ Len(B \o f) = Len(B) + Rate
      /\ Bytes(Sha3Final(c).blocks) = B \o f
  BY FinalBytes, Zenon
<1>3. /\ g \in Seq(Values) /\ Len(g) = Rate /\ Len(D \o g) = Len(D) + Rate
      /\ Bytes(Sha3Final(d).blocks) = D \o g
  BY FinalBytes, Zenon
<1>4. B \in Seq(Values) /\ x \in Seq(Values) /\ Len(x) = c.num /\ Stream(c) = B \o x
  BY StreamType DEF Stream
<1>5. D \in Seq(Values) /\ y \in Seq(Values) /\ Len(y) = d.num /\ Stream(d) = D \o y
  BY StreamType DEF Stream
<1>6. (\A i \in 1..c.num : x[i] = c.buf[i]) /\ (\A i \in 1..d.num : y[i] = d.buf[i])
  BY <1>1, RateAssumption
<1> HIDE DEF f, g, x, y, B, D
<1>7. B \o f = D \o g
  BY <1>2, <1>3, Zenon
<1>8. Len(B) = Len(D)
  <2>1. Len(B) \in Nat /\ Len(D) \in Nat /\ Rate \in Nat
    BY <1>4, <1>5, LenProperties, RateAssumption
  <2>2. Len(B) + Rate = Len(D) + Rate
    BY <1>2, <1>3, <1>7, Zenon
  <2> QED  BY <2>1, <2>2
<1>9. B = D /\ f = g
  <2>1. f \in Seq(Values) /\ g \in Seq(Values) /\ B \in Seq(Values) /\ D \in Seq(Values)
    BY <1>2, <1>3, <1>4, <1>5
  <2> QED  BY <2>1, <1>7, <1>8, Cancel
<1>10. c.num = d.num /\ c.pad = d.pad /\ \A i \in 1..c.num : c.buf[i] = d.buf[i]
  <2>1. LastBlock(c.buf, c.num, c.pad) = LastBlock(d.buf, d.num, d.pad)
    BY <1>9 DEF f, g
  <2> QED  BY <1>1, <2>1, LastBlockTells
<1>11. x = y
  <2>1. Len(x) = Len(y) /\ \A i \in 1..Len(x) : x[i] = y[i]
    BY <1>4, <1>5, <1>6, <1>10
  <2> QED  BY <1>4, <1>5, <2>1, SeqEqual
<1> QED  BY <1>4, <1>5, <1>9, <1>10, <1>11, Zenon

\* Shifting a value byte by byte.
LEMMA Shifts ==
  ASSUME NEW v \in Nat
  PROVE  /\ ShiftedBytes(v)[0] = v
         /\ \A n \in 1..8 : ShiftedBytes(v)[n] = ShiftedBytes(v)[n - 1] \div 256
         /\ \A n \in 0..8 : ShiftedBytes(v)[n] \in Nat
<1> DEFINE IsShift(F) == F = [n \in 0..8 |-> IF n = 0 THEN v ELSE F[n - 1] \div 256]
           d1 == v \div 256
           d2 == d1 \div 256
           d3 == d2 \div 256
           d4 == d3 \div 256
           d5 == d4 \div 256
           d6 == d5 \div 256
           d7 == d6 \div 256
           d8 == d7 \div 256
           G == [n \in 0..8 |-> IF n = 0 THEN v ELSE IF n = 1 THEN d1 ELSE IF n = 2 THEN d2
                                ELSE IF n = 3 THEN d3 ELSE IF n = 4 THEN d4 ELSE IF n = 5 THEN d5
                                ELSE IF n = 6 THEN d6 ELSE IF n = 7 THEN d7 ELSE d8]
<1>1. IsShift(G)
  <2>1. ASSUME NEW n \in 0..8
        PROVE  G[n] = IF n = 0 THEN v ELSE G[n - 1] \div 256
    <3> HIDE DEF d1, d2, d3, d4, d5, d6, d7, d8
    <3>1. CASE n \in 0..4
      BY <3>1, SMT DEF d1, d2, d3, d4
    <3>2. CASE n \in 5..8
      BY <3>2, SMT DEF d5, d6, d7, d8
    <3> QED  BY <3>1, <3>2
  <2> HIDE DEF G
  <2>2. [n \in 0..8 |-> G[n]] = [n \in 0..8 |-> IF n = 0 THEN v ELSE G[n - 1] \div 256]
    BY <2>1
  <2>3. G = [n \in 0..8 |-> G[n]]
    BY DEF G
  <2> QED  BY <2>2, <2>3
<1> HIDE DEF G
<1>2. IsShift(CHOOSE F : IsShift(F))
  <2> HIDE DEF IsShift
  <2> QED  BY <1>1, Zenon
<1>3. ShiftedBytes(v) = CHOOSE F : IsShift(F)
  BY Zenon DEF ShiftedBytes
<1>4. IsShift(ShiftedBytes(v))
  <2> HIDE DEF IsShift
  <2> QED  BY <1>2, <1>3, Zenon
<1> DEFINE S == ShiftedBytes(v)
<1>5. S[0] = v /\ \A n \in 1..8 : S[n] = S[n - 1] \div 256
  <2>1. \A n \in 0..8 : S[n] = IF n = 0 THEN v ELSE S[n - 1] \div 256
    BY <1>4
  <2> HIDE DEF S
  <2> QED  BY <2>1
<1>6. \A n \in 0..8 : S[n] \in Nat
  <2> HIDE DEF S
  <2>1. S[1] \in Nat /\ S[2] \in Nat /\ S[3] \in Nat /\ S[4] \in Nat
    BY <1>5
  <2>2. S[5] \in Nat /\ S[6] \in Nat /\ S[7] \in Nat /\ S[8] \in Nat
    BY <1>5, <2>1
  <2> QED  BY <1>5, <2>1, <2>2
<1> QED  BY <1>5, <1>6

\* Numbers that fit into b bytes and have the same ones are equal.
LEMMA BytesTell ==
  ASSUME NEW v \in Nat, NEW w \in Nat, NEW b \in 1..8, ~Exceeds(v, b), ~Exceeds(w, b),
         \A k \in 0..(b - 1) : ShiftedBytes(v)[k] % 256 = ShiftedBytes(w)[k] % 256
  PROVE  v = w
<1> DEFINE S == ShiftedBytes(v)
           T == ShiftedBytes(w)
           Same(k) == S[k] = T[k]
<1>1. /\ S[0] = v /\ T[0] = w
      /\ \A n \in 1..8 : S[n] = S[n - 1] \div 256 /\ T[n] = T[n - 1] \div 256
      /\ \A n \in 0..8 : S[n] \in Nat /\ T[n] \in Nat
  BY Shifts
<1>2. S[b] = 0 /\ T[b] = 0
  BY DEF Exceeds
<1>3. \A k \in 0..(b - 1) : S[k] % 256 = T[k] % 256
  OBVIOUS
<1> HIDE DEF S, T
<1>4. ASSUME NEW k \in 0..7, k < b, Same(k + 1) PROVE Same(k)
  <2>1. (k + 1) \in 1..8 /\ (k + 1) - 1 = k /\ k \in 0..(b - 1) /\ k \in 0..8
    BY <1>4
  <2>2. S[k] \div 256 = T[k] \div 256
    BY <1>1, <1>4, <2>1
  <2>3. S[k] % 256 = T[k] % 256 /\ S[k] \in Nat /\ T[k] \in Nat
    BY <1>1, <1>3, <2>1
  <2> QED  BY <2>2, <2>3
<1> DEFINE Down(k) == k <= b => Same(k)
<1>5. ASSUME NEW k \in 0..7, Down(k + 1) PROVE Down(k)
  <2>1. CASE k < b
    <3>1. k + 1 <= b
      BY <2>1
    <3> QED  BY <1>4, <1>5, <2>1, <3>1
  <2>2. CASE k = b
    BY <1>2, <2>2
  <2> QED  BY <2>1, <2>2
<1> HIDE DEF Down, Same
<1>6. Down(8)
  BY <1>2 DEF Down, Same
<1>7. Down(4)
  <2>1. Down(7)
    <3>1. 7 \in 0..7 /\ 7 + 1 = 8
      BY SMT
    <3>2. Down(7 + 1)
      BY <1>6, <3>1
    <3> QED  BY <1>5, <3>1, <3>2
  <2>2. Down(6)
    BY <1>5, <2>1, 6 + 1 = 7
  <2>3. Down(5)
    BY <1>5, <2>2, 5 + 1 = 6
  <2> QED  BY <1>5, <2>3, 4 + 1 = 5
<1>8. Down(0)
  <2>1. Down(3)
    BY <1>5, <1>7, 3 + 1 = 4
  <2>2. Down(2)
    BY <1>5, <2>1, 2 + 1 = 3
  <2>3. Down(1)
    BY <1>5, <2>2, 1 + 1 = 2
  <2> QED  BY <1>5, <2>3, 0 + 1 = 1
<1> QED  BY <1>1, <1>8 DEF Down, Same

\* LeftEncode can be read off the front of what it stands before.
LEMMA LeftEncodeTells ==
  ASSUME NEW v \in Nat, NEW w \in Nat, ~Exceeds(v, UintnBytes), ~Exceeds(w, UintnBytes),
         NEW x \in Seq(Values), NEW y \in Seq(Values), LeftEncode(v) \o x = LeftEncode(w) \o y
  PROVE  v = w /\ x = y
<1> DEFINE b == BytesOf(v)
           c == BytesOf(w)
           e == LeftEncode(v)
           f == LeftEncode(w)
           byte(i) == ShiftedBytes(v)[b - i] % 256
           byte2(i) == ShiftedBytes(w)[c - i] % 256
<1>1. e = <<b>> \o [i \in 1..b |-> byte(i)] /\ f = <<c>> \o [i \in 1..c |-> byte2(i)]
  BY Zenon DEF LeftEncode, BytesOf, Fits, Few
<1>2. /\ b \in 1..UintnBytes /\ Fits(v, b) /\ c \in 1..UintnBytes /\ Fits(w, c)
      /\ b \in 1..8 /\ c \in 1..8
  <2>1. b \in 1..UintnBytes /\ Fits(v, b)
    BY BytesOfFits
  <2>2. c \in 1..UintnBytes /\ Fits(w, c)
    BY BytesOfFits
  <2> HIDE DEF b, c
  <2> QED  BY <2>1, <2>2, UintnAssumption
<1>3. e \in Seq(Values) /\ f \in Seq(Values)
  BY LeftEncodeType
<1>4. ~Exceeds(v, b) /\ ~Exceeds(w, c)
  BY <1>2 DEF Fits, Few
<1> HIDE DEF b, c, byte, byte2, e, f
<1>5. /\ Len(e) = b + 1 /\ e[1] = b /\ \A i \in 1..b : e[i + 1] = byte(i)
      /\ Len(f) = c + 1 /\ f[1] = c /\ \A i \in 1..c : f[i + 1] = byte2(i)
  BY <1>1, <1>2
<1>6. b = c
  <2>1. (e \o x)[1] = e[1] /\ (f \o y)[1] = f[1]
    BY <1>2, <1>3, <1>5, ConcatAt
  <2>2. e \o x = f \o y
    BY DEF e, f
  <2> QED  BY <1>5, <2>1, <2>2
<1>7. e = f /\ x = y
  <2>1. e \o x = f \o y
    BY DEF e, f
  <2>2. Len(e) = Len(f)
    BY <1>5, <1>6
  <2> QED  BY <1>3, <2>1, <2>2, Cancel
<1>8. ASSUME NEW k \in 0..(b - 1) PROVE ShiftedBytes(v)[k] % 256 = ShiftedBytes(w)[k] % 256
  <2>1. b - k \in 1..b /\ b - (b - k) = k
    BY <1>2
  <2>2. byte(b - k) = byte2(b - k)
    BY <1>5, <1>6, <1>7, <2>1
  <2>3. byte(b - k) = ShiftedBytes(v)[b - (b - k)] % 256
    BY DEF byte
  <2>4. byte2(b - k) = ShiftedBytes(w)[c - (b - k)] % 256
    BY DEF byte2
  <2>5. ShiftedBytes(w)[c - (b - k)] % 256 = ShiftedBytes(w)[k] % 256
    BY <1>6, <2>1, Zenon
  <2> QED  BY <2>1, <2>2, <2>3, <2>4, <2>5
<1>9. v = w
  BY <1>2, <1>4, <1>6, <1>8, BytesTell
<1> QED  BY <1>7, <1>9

\* A string behind its encoded length can be read off the front of what it stands before.
LEMMA PartTells ==
  ASSUME NEW s \in Seq(Values), NEW t \in Seq(Values), NEW x \in Seq(Values), NEW y \in Seq(Values),
         ~Exceeds(Len(s) * 8, UintnBytes), ~Exceeds(Len(t) * 8, UintnBytes),
         LeftEncode(Len(s) * 8) \o (s \o x) = LeftEncode(Len(t) * 8) \o (t \o y)
  PROVE  s = t /\ x = y
<1> DEFINE v == Len(s) * 8
           w == Len(t) * 8
           sx == s \o x
           ty == t \o y
<1>1. v \in Nat
  BY LenProperties
<1>2. w \in Nat
  BY LenProperties
<1>3. sx \in Seq(Values)
  BY ConcatProperties
<1>4. ty \in Seq(Values)
  BY ConcatProperties
<1>5. ~Exceeds(v, UintnBytes)
  OBVIOUS
<1>6. ~Exceeds(w, UintnBytes)
  OBVIOUS
<1>7. LeftEncode(v) \o sx = LeftEncode(w) \o ty
  OBVIOUS
<1> HIDE DEF v, w, sx, ty
<1>8. v = w
  BY <1>1, <1>2, <1>3, <1>4, <1>5, <1>6, <1>7, LeftEncodeTells, Zenon
<1>9. Len(s) = Len(t)
  BY <1>8, LenProperties DEF v, w
<1>10. s \o x = t \o y
  <2> DEFINE e == LeftEncode(v)
  <2>1. e \in Seq(Values)
    BY <1>1, LeftEncodeType
  <2>2. e \o sx = e \o ty
    BY <1>7, <1>8, Zenon
  <2> HIDE DEF e
  <2>3. sx = ty
    BY <1>3, <1>4, <2>1, <2>2, Cancel
  <2> QED  BY <2>3, Zenon DEF sx, ty
<1> QED  BY <1>9, <1>10, Cancel

\* The zeros behind the preamble of a question.
Padding(q) == Zeros(PadLen(Len(Preamble(q.name, q.custom))))

\* What is given to the context, part by part.
LEMMA HeaderParts ==
  ASSUME NEW q \in Question, ~(q.name = <<>> /\ q.custom = <<>>)
  PROVE  /\ LeftEncode(Rate) \in Seq(Values)
         /\ LeftEncode(Len(q.name) * 8) \in Seq(Values) /\ LeftEncode(Len(q.custom) * 8) \in Seq(Values)
         /\ Padding(q) \in Seq(Values)
         /\ Header(q) \o q.data
              = LeftEncode(Rate) \o (LeftEncode(Len(q.name) * 8) \o (q.name \o
                  (LeftEncode(Len(q.custom) * 8) \o (q.custom \o (Padding(q) \o q.data)))))
<1> DEFINE r == LeftEncode(Rate)
           ln == LeftEncode(Len(q.name) * 8)
           lc == LeftEncode(Len(q.custom) * 8)
           n == q.name
           c == q.custom
           z == Padding(q)
           d == q.data
           preamble == Preamble(n, c)
<1>1. n \in Seq(Values) /\ c \in Seq(Values) /\ d \in Seq(Values)
  BY DEF Question
<1>2. r \in Seq(Values) /\ ln \in Seq(Values) /\ lc \in Seq(Values)
  <2>1. Rate \in Nat /\ Len(q.name) * 8 \in Nat /\ Len(q.custom) * 8 \in Nat
    BY <1>1, RateAssumption, LenProperties
  <2> QED  BY <2>1, LeftEncodeType
<1>3. preamble = (((r \o ln) \o n) \o lc) \o c
  BY Zenon DEF Preamble
<1>4. Header(q) = preamble \o z
  BY Zenon DEF Header, Padding
<1> HIDE DEF preamble, r, ln, lc
<1>5. preamble \in Seq(Values)
  BY <1>1, <1>2, <1>3, ConcatProperties
<1>6. z \in Seq(Values)
  <2>1. Len(preamble) \in Nat
    BY <1>5, LenProperties
  <2>2. PadLen(Len(preamble)) \in Nat
    BY <2>1, DivMod, RateAssumption DEF PadLen
  <2> QED  BY <2>2, ZerosType DEF Padding, preamble
<1> HIDE DEF z, n, c, d
<1> DEFINE p1 == r \o ln
           p2 == p1 \o n
           p3 == p2 \o lc
           p4 == p3 \o c
           t1 == z \o d
           t2 == c \o t1
           t3 == lc \o t2
           t4 == n \o t3
<1>7. \A x, y \in Seq(Values) : x \o y \in Seq(Values)
  BY ConcatProperties
<1>8. p1 \in Seq(Values) /\ p2 \in Seq(Values) /\ p3 \in Seq(Values) /\ p4 \in Seq(Values)
  BY <1>1, <1>2, <1>7, Zenon
<1>9. t1 \in Seq(Values) /\ t2 \in Seq(Values) /\ t3 \in Seq(Values) /\ t4 \in Seq(Values)
  BY <1>1, <1>2, <1>6, <1>7, Zenon
<1>10. preamble = p4
  BY <1>3, Zenon
<1> HIDE DEF p1, p2, p3, p4, t1, t2, t3, t4
<1>11. (p4 \o z) \o d = p4 \o t1
  <2>1. p4 \in Seq(Values)
    BY <1>8
  <2>2. d \in Seq(Values)
    BY <1>1
  <2> QED  BY <1>6, <2>1, <2>2, Associative, Zenon DEF t1
<1>12. (p3 \o c) \o t1 = p3 \o (c \o t1)
  <2>1. p3 \in Seq(Values)
    BY <1>8
  <2>2. c \in Seq(Values)
    BY <1>1
  <2>3. t1 \in Seq(Values)
    BY <1>9
  <2> QED  BY <2>1, <2>2, <2>3, Associative, Zenon
<1>13. (p2 \o lc) \o t2 = p2 \o (lc \o t2)
  <2>1. p2 \in Seq(Values)
    BY <1>8
  <2>2. lc \in Seq(Values)
    BY <1>2
  <2>3. t2 \in Seq(Values)
    BY <1>9
  <2> QED  BY <2>1, <2>2, <2>3, Associative, Zenon
<1>14. (p1 \o n) \o t3 = p1 \o (n \o t3)
  <2>1. p1 \in Seq(Values)
    BY <1>8
  <2>2. n \in Seq(Values)
    BY <1>1
  <2>3. t3 \in Seq(Values)
    BY <1>9
  <2> QED  BY <2>1, <2>2, <2>3, Associative, Zenon
<1>15. (r \o ln) \o t4 = r \o (ln \o t4)
  <2>1. r \in Seq(Values)
    BY <1>2
  <2>2. ln \in Seq(Values)
    BY <1>2
  <2>3. t4 \in Seq(Values)
    BY <1>9
  <2> QED  BY <2>1, <2>2, <2>3, Associative, Zenon
<1>16. p4 \o t1 = p3 \o t2
  BY <1>12, Zenon DEF p4, t2
<1>17. p3 \o t2 = p2 \o t3
  BY <1>13, Zenon DEF p3, t3
<1>18. p2 \o t3 = p1 \o t4
  BY <1>14, Zenon DEF p2, t4
<1>19. p1 \o t4 = r \o (ln \o t4)
  BY <1>15, Zenon DEF p1
<1>20. Header(q) \o d = (p4 \o z) \o d
  BY <1>4, <1>10, Zenon
<1>21. Header(q) \o d = r \o (ln \o t4)
  BY <1>11, <1>16, <1>17, <1>18, <1>19, <1>20, Zenon
<1> QED  BY <1>2, <1>6, <1>21, Zenon DEF t1, t2, t3, t4, n, c, d, z, r, ln, lc

\* Strings whose lengths LeftEncode can hold.
Encodable(q) == ~Exceeds(Len(q.name) * 8, UintnBytes) /\ ~Exceeds(Len(q.custom) * 8, UintnBytes)

\* What was given to the context tells name, customization and data.
LEMMA HeaderTells ==
  ASSUME NEW q \in Question, NEW r \in Question, Encodable(q), Encodable(r),
         PadOf(q.name, q.custom) = PadOf(r.name, r.custom),
         Header(q) \o q.data = Header(r) \o r.data
  PROVE  q.name = r.name /\ q.custom = r.custom /\ q.data = r.data
<1>1. /\ q.name \in Seq(Values) /\ q.custom \in Seq(Values) /\ q.data \in Seq(Values)
      /\ r.name \in Seq(Values) /\ r.custom \in Seq(Values) /\ r.data \in Seq(Values)
  BY DEF Question
<1>2. (q.name = <<>> /\ q.custom = <<>>) <=> (r.name = <<>> /\ r.custom = <<>>)
  BY DEF PadOf
<1>3. CASE q.name = <<>> /\ q.custom = <<>>
  <2>1. Header(q) = <<>> /\ Header(r) = <<>>
    BY <1>2, <1>3 DEF Header
  <2>2. <<>> \o q.data = q.data /\ <<>> \o r.data = r.data
    BY <1>1, ConcatEmptySeq
  <2> QED  BY <1>2, <1>3, <2>1, <2>2, Zenon
<1>4. CASE ~(q.name = <<>> /\ q.custom = <<>>)
  <2> DEFINE e == LeftEncode(Rate)
             qn == LeftEncode(Len(q.name) * 8)
             qc == LeftEncode(Len(q.custom) * 8)
             rn == LeftEncode(Len(r.name) * 8)
             rc == LeftEncode(Len(r.custom) * 8)
             q1 == Padding(q) \o q.data
             q2 == q.custom \o q1
             q3 == qc \o q2
             q4 == q.name \o q3
             q5 == qn \o q4
             r1 == Padding(r) \o r.data
             r2 == r.custom \o r1
             r3 == rc \o r2
             r4 == r.name \o r3
             r5 == rn \o r4
  <2>1. /\ e \in Seq(Values) /\ qn \in Seq(Values) /\ qc \in Seq(Values) /\ Padding(q) \in Seq(Values)
        /\ Header(q) \o q.data = e \o q5
    BY <1>4, HeaderParts, Zenon
  <2>2. /\ rn \in Seq(Values) /\ rc \in Seq(Values) /\ Padding(r) \in Seq(Values)
        /\ Header(r) \o r.data = e \o r5
    BY <1>2, <1>4, HeaderParts, Zenon
  <2> HIDE DEF e, qn, qc, rn, rc
  <2>3. \A x, y \in Seq(Values) : x \o y \in Seq(Values)
    BY ConcatProperties
  <2>4. q1 \in Seq(Values) /\ q2 \in Seq(Values) /\ q3 \in Seq(Values) /\ q4 \in Seq(Values) /\ q5 \in Seq(Values)
    BY <1>1, <2>1, <2>3, Zenon
  <2>5. r1 \in Seq(Values) /\ r2 \in Seq(Values) /\ r3 \in Seq(Values) /\ r4 \in Seq(Values) /\ r5 \in Seq(Values)
    BY <1>1, <2>2, <2>3, Zenon
  <2> HIDE DEF q1, q2, q3, q4, q5, r1, r2, r3, r4, r5
  <2>6. q5 = r5
    <3>1. e \o q5 = e \o r5
      BY <2>1, <2>2, Zenon
    <3>2. e \in Seq(Values)
      BY <2>1
    <3>3. q5 \in Seq(Values) /\ r5 \in Seq(Values)
      BY <2>4, <2>5
    <3> QED  BY <3>1, <3>2, <3>3, Cancel
  <2>7. q.name = r.name /\ q3 = r3
    <3> DEFINE s == q.name
               t == r.name
    <3>1. LeftEncode(Len(s) * 8) \o (s \o q3) = LeftEncode(Len(t) * 8) \o (t \o r3)
      BY <2>6, Zenon DEF q4, q5, r4, r5, qn, rn
    <3>2. ~Exceeds(Len(s) * 8, UintnBytes)
      BY DEF Encodable
    <3>3. ~Exceeds(Len(t) * 8, UintnBytes)
      BY DEF Encodable
    <3>4. s \in Seq(Values)
      BY <1>1
    <3>5. t \in Seq(Values)
      BY <1>1
    <3>6. q3 \in Seq(Values)
      BY <2>4
    <3>7. r3 \in Seq(Values)
      BY <2>5
    <3> HIDE DEF s, t
    <3>8. s = t /\ q3 = r3
      BY <3>1, <3>2, <3>3, <3>4, <3>5, <3>6, <3>7, PartTells, Zenon
    <3> QED  BY <3>8, Zenon DEF s, t
  <2>8. q.custom = r.custom /\ q1 = r1
    <3> DEFINE s == q.custom
               t == r.custom
    <3>1. LeftEncode(Len(s) * 8) \o (s \o q1) = LeftEncode(Len(t) * 8) \o (t \o r1)
      BY <2>7, Zenon DEF q2, q3, r2, r3, qc, rc
    <3>2. ~Exceeds(Len(s) * 8, UintnBytes)
      BY DEF Encodable
    <3>3. ~Exceeds(Len(t) * 8, UintnBytes)
      BY DEF Encodable
    <3>4. s \in Seq(Values)
      BY <1>1
    <3>5. t \in Seq(Values)
      BY <1>1
    <3>6. q1 \in Seq(Values)
      BY <2>4
    <3>7. r1 \in Seq(Values)
      BY <2>5
    <3> HIDE DEF s, t
    <3>8. s = t /\ q1 = r1
      BY <3>1, <3>2, <3>3, <3>4, <3>5, <3>6, <3>7, PartTells, Zenon
    <3> QED  BY <3>8, Zenon DEF s, t
  <2>9. q.data = r.data
    <3>1. Padding(q) = Padding(r)
      BY <2>7, <2>8, Zenon DEF Padding
    <3>2. Padding(q) \o q.data = Padding(q) \o r.data
      BY <2>8, <3>1, Zenon DEF q1, r1
    <3>3. Padding(q) \in Seq(Values)
      BY <2>1
    <3>4. q.data \in Seq(Values) /\ r.data \in Seq(Values)
      BY <1>1
    <3> QED  BY <3>2, <3>3, <3>4, Cancel
  <2> QED  BY <2>7, <2>8, <2>9
<1> QED  BY <1>3, <1>4

\* Different names, customizations or data absorb different blocks.
LEMMA HashAllTells ==
  ASSUME NEW q \in Question, NEW r \in Question, Encodable(q), Encodable(r),
         CShake256HashAll(q).blocks = CShake256HashAll(r).blocks
  PROVE  q.name = r.name /\ q.custom = r.custom /\ q.data = r.data
<1>1. ASSUME NEW p \in Question
      PROVE  \E c \in Ctx : /\ CShake256HashAll(p) = Sha3Final(c)
                            /\ Stream(c) = Header(p) \o p.data
                            /\ c.pad = PadOf(p.name, p.custom)
  <2> DEFINE start == InitContext(JunkCtx, p.len, p.name, p.custom)
             whole == Sha3Update(start, p.data)
  <2>1. CShake256HashAll(p) = Sha3Final(whole)
    BY Zenon DEF CShake256HashAll, JunkCtx
  <2>2. /\ start \in Ctx /\ Stream(start) = Header(p)
        /\ start.pad = PadOf(p.name, p.custom)
    BY JunkContext, InitStream
  <2>3. p.data \in Seq(Values)
    BY DEF Question
  <2> HIDE DEF start
  <2>4. /\ whole \in Ctx /\ Stream(whole) = Stream(start) \o p.data
        /\ whole.pad = start.pad
    BY <2>2, <2>3, UpdateStream
  <2> HIDE DEF whole
  <2> QED  BY <2>1, <2>2, <2>4, Zenon
<1>2. PICK c \in Ctx : /\ CShake256HashAll(q) = Sha3Final(c)
                       /\ Stream(c) = Header(q) \o q.data
                       /\ c.pad = PadOf(q.name, q.custom)
  BY <1>1
<1>3. PICK d \in Ctx : /\ CShake256HashAll(r) = Sha3Final(d)
                       /\ Stream(d) = Header(r) \o r.data
                       /\ d.pad = PadOf(r.name, r.custom)
  BY <1>1
<1>4. c.pad \in {4, 31} /\ d.pad \in {4, 31}
  BY <1>2, <1>3 DEF PadOf
<1>5. Sha3Final(c).blocks = Sha3Final(d).blocks
  BY <1>2, <1>3, Zenon
<1>6. Stream(c) = Stream(d) /\ c.pad = d.pad
  BY <1>4, <1>5, FinalTells
<1>7. q.name = r.name /\ q.custom = r.custom /\ q.data = r.data
  <2>1. PadOf(q.name, q.custom) = PadOf(r.name, r.custom)
    BY <1>2, <1>3, <1>6, Zenon
  <2>2. Header(q) \o q.data = Header(r) \o r.data
    BY <1>2, <1>3, <1>6, Zenon
  <2> QED  BY <2>1, <2>2, HeaderTells
<1> QED  BY <1>7

\* What was asked last came from a caller.
AskedInv == stage # "none" => asked.name \in Strings /\ asked.custom \in Strings

\* It stays so.
LEMMA AskedInvariant == Spec => []AskedInv
<1>1. Init => AskedInv
  BY DEF Init, AskedInv
<1>2. AskedInv /\ [Next]_vars => AskedInv'
  <2> SUFFICES ASSUME AskedInv, [Next]_vars PROVE AskedInv'
    OBVIOUS
  <2>1. ASSUME NEW l \in OutputLens, NEW n \in Strings, NEW c \in Strings, CShake256Init(l, n, c)
        PROVE  AskedInv'
    BY <2>1 DEF CShake256Init, AskedInv
  <2>2. ASSUME NEW d \in Data(MaxPiece), CShake256Update(d)
        PROVE  AskedInv'
    <3>1. /\ stage = "open" /\ stage' = stage
          /\ asked' = [asked EXCEPT !.data = @ \o d]
      BY <2>2 DEF CShake256Update
    <3>2. asked'.name = asked.name /\ asked'.custom = asked.custom
      BY <3>1
    <3> QED  BY <3>1, <3>2 DEF AskedInv
  <2>3. CASE CShake256Final
    BY <2>3 DEF CShake256Final, AskedInv
  <2>4. CASE UNCHANGED vars
    BY <2>4 DEF vars, AskedInv
  <2> QED  BY <2>1, <2>2, <2>3, <2>4 DEF Next
<1> QED  BY <1>1, <1>2, PTL DEF Spec

\* Name, customization and data can be read off the blocks the sponge absorbs, whatever
\* the bytes of the data are and whatever length the digest is asked for in.
THEOREM DigestAlwaysTells == Spec => []DigestTellsQuestion
<1>1. ASSUME ContextInv, AskedInv PROVE DigestTellsQuestion
  <2> SUFFICES ASSUME stage = "done", NEW q \in Questions, DigestOf[q].blocks = digest.blocks
               PROVE  q.name = asked.name /\ q.custom = asked.custom /\ q.data = asked.data
    BY DEF DigestTellsQuestion
  <2>1. ASSUME NEW s \in Strings PROVE s \in Seq(Values) /\ ~Exceeds(Len(s) * 8, UintnBytes)
    BY InputsAreBytes, LengthsAssumption
  <2>2. asked \in Question /\ Encodable(asked)
    BY <1>1, <2>1 DEF ContextInv, AskedInv, Encodable
  <2>3. q \in Question /\ Encodable(q)
    <3>1. q.name \in Strings /\ q.custom \in Strings
      BY DEF Questions
    <3>2. Encodable(q)
      BY <2>1, <3>1 DEF Encodable
    <3>3. q \in Question
      BY InputsAreBytes, BoundsAssumption DEF Questions, Question
    <3> QED  BY <3>2, <3>3
  <2>4. CShake256HashAll(q).blocks = CShake256HashAll(asked).blocks
    <3>1. DigestOf[q] = CShake256HashAll(q)
      BY Zenon DEF DigestOf
    <3>2. digest = CShake256HashAll(asked)
      BY <1>1 DEF ContextInv, PiecesDoNotMatter
    <3> QED  BY <3>1, <3>2
  <2> QED  BY <2>2, <2>3, <2>4, HashAllTells
<1> QED  BY <1>1, ContextInvariant, AskedInvariant, PTL
=============================================================================
