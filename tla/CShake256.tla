----------------------------- MODULE CShake256 -----------------------------
(***************************************************************************)
(* cSHAKE256 and the Keccak sponge below it: a context that is initialised  *)
(* with a name and a customization string, is fed data in pieces of any     *)
(* size, and gives a digest.                                                 *)
(*                                                                         *)
(* The permutation is external.  Its state A stands for the sequence of the *)
(* blocks that went into it, so that digests are equal exactly if the blocks *)
(* and the length asked for are: no collision of Keccak itself is modelled.  *)
(***************************************************************************)
EXTENDS Naturals, Sequences

CONSTANTS
  Rate,         \* bytes of a block; CSHAKE256_RATE_IN_BYTES
  BufSize,      \* bytes of the buffer of a context
  UintnBytes,   \* sizeof (UINTN)
  Strings,      \* names and customization strings
  DataBytes,    \* bytes of data
  MaxPiece,     \* bound on the data of one update
  OutputLens,   \* lengths of digests
  MaxData,      \* bound on the data of one digest
  Junk          \* what memory holds that was not written

ASSUME RateAssumption == Rate \in 2..255 /\ BufSize \in Nat /\ Rate <= BufSize
ASSUME UintnAssumption == UintnBytes \in 1..8
ASSUME StringsAssumption == Strings \subseteq Seq(0..255)
ASSUME OutputLensAssumption == OutputLens \subseteq Nat \ {0}
ASSUME BoundsAssumption == MaxPiece \in Nat /\ MaxData \in Nat

VARIABLES
  ctx,      \* the Keccak1600_Ctx: A, num, buf, pad, md_size
  asked,    \* what the digest is to be of: name, customization, data, length
  stage,    \* "none", "open" or "done"
  digest    \* the digest: the blocks it depends on, and its length

vars == <<ctx, asked, stage, digest>>

Zeros(n) == [i \in 1..n |-> 0]
Data(n) == UNION {[1..k -> DataBytes] : k \in 0..n}

-----------------------------------------------------------------------------
(* Lengths.                                                                 *)

\* v >> 8 * n
ShiftedBytes(v) ==
  LET Shifted[n \in 0..8] == IF n = 0 THEN v ELSE Shifted[n - 1] \div 256
  IN  Shifted

\* The value needs more than n bytes.
Exceeds(v, n) == ShiftedBytes(v)[n] # 0

\* No string is so long that its length in bits overflows a UINTN.
ASSUME LengthsAssumption == \A s \in Strings : ~Exceeds(Len(s) * 8, UintnBytes)

\* The value in as few bytes as it needs, most significant first, behind their number.
LeftEncode(v) ==
  LET BlockNum == CHOOSE n \in 1..UintnBytes :
                    /\ n = UintnBytes \/ ~Exceeds(v, n)
                    /\ n = 1 \/ Exceeds(v, n - 1)
  IN  <<BlockNum>> \o [i \in 1..BlockNum |-> ShiftedBytes(v)[BlockNum - i] % 256]

-----------------------------------------------------------------------------
(* The sponge.                                                              *)

\* SHA3_absorb takes the whole blocks of inp.
SHA3_absorb(A, inp) ==
  A \o [i \in 1..(Len(inp) \div Rate) |-> SubSeq(inp, (i - 1) * Rate + 1, i * Rate)]

\* memcpy (buf + at, data)
Written(buf, at, data) ==
  [i \in 1..BufSize |-> IF i - at \in 1..Len(data) THEN data[i - at] ELSE buf[i]]

\* The buffer keeps what an earlier use has left in it.
KeccakInit(c, Pad, MessageDigestLen) ==
  [c EXCEPT !.A = <<>>, !.num = 0, !.pad = Pad, !.md_size = MessageDigestLen]

\* Variant: a buffer that is exactly full is not absorbed.
Sha3UpdateLate(c, data) ==
  LET Rem == Rate - c.num
      buf == Written(c.buf, c.num, SubSeq(data, 1, Rem))
      rest == SubSeq(data, Rem + 1, Len(data))
      tail == SubSeq(rest, (Len(rest) - (Len(rest) % Rate)) + 1, Len(rest))
  IN  IF Len(data) <= Rem
      THEN [c EXCEPT !.buf = Written(c.buf, c.num, data), !.num = c.num + Len(data)]
      ELSE [c EXCEPT !.A = SHA3_absorb(SHA3_absorb(c.A, SubSeq(buf, 1, Rate)), rest),
                     !.buf = Written(buf, 0, tail), !.num = Len(tail)]

\* With an empty buffer, the whole blocks are absorbed and the rest is kept.
FromEmptyBuffer(c, data) ==
  LET tail == SubSeq(data, (Len(data) - (Len(data) % Rate)) + 1, Len(data))
  IN  [c EXCEPT !.A = SHA3_absorb(c.A, data), !.buf = Written(c.buf, 0, tail), !.num = Len(tail)]

\* Data that do not fill a used buffer are kept in it; otherwise they complete
\* it, and it is absorbed first.
Sha3Update(c, data) ==
  LET Rem == Rate - c.num
      buf == Written(c.buf, c.num, SubSeq(data, 1, Rem))
  IN  IF c.num = 0 THEN FromEmptyBuffer(c, data)
      ELSE IF Len(data) < Rem
      THEN [c EXCEPT !.buf = Written(c.buf, c.num, data), !.num = c.num + Len(data)]
      ELSE FromEmptyBuffer(
             [c EXCEPT !.A = SHA3_absorb(c.A, SubSeq(buf, 1, Rate)), !.buf = buf, !.num = 0],
             SubSeq(data, Rem + 1, Len(data)))

\* |= 0x80
WithTopBit(b) == IF b >= 128 THEN b ELSE b + 128

\* Variant: the rest of the buffer keeps what was in it.
Sha3FinalKeepsBuffer(c) ==
  LET padded == Written(c.buf, c.num, <<c.pad>>)
      block == SubSeq([padded EXCEPT ![Rate] = WithTopBit(padded[Rate])], 1, Rate)
  IN  [blocks |-> SHA3_absorb(c.A, block), len |-> c.md_size]

\* Variant: only the last bit of the padding is set.
Sha3FinalWithoutPad(c) ==
  LET padded == Written(c.buf, c.num, Zeros(Rate - c.num))
      block == SubSeq([padded EXCEPT ![Rate] = WithTopBit(padded[Rate])], 1, Rate)
  IN  [blocks |-> SHA3_absorb(c.A, block), len |-> c.md_size]

\* The buffer is padded and absorbed, and md_size bytes are squeezed.
Sha3Final(c) ==
  LET padded == Written(Written(c.buf, c.num, Zeros(Rate - c.num)), c.num, <<c.pad>>)
      block == SubSeq([padded EXCEPT ![Rate] = WithTopBit(padded[Rate])], 1, Rate)
  IN  [blocks |-> SHA3_absorb(c.A, block), len |-> c.md_size]

-----------------------------------------------------------------------------
(* cSHAKE256.                                                               *)

\* The lengths and strings that come before the data.
Preamble(Name, Customization) ==
  LeftEncode(Rate) \o LeftEncode(Len(Name) * 8) \o Name
  \o LeftEncode(Len(Customization) * 8) \o Customization

\* A whole block of zeros when the preamble ends with a block.
PadLen(AbsorbLen) == Rate - (AbsorbLen % Rate)

\* encode_string: the length in bits, then the string.
AbsorbString(c, string) == Sha3Update(Sha3Update(c, LeftEncode(Len(string) * 8)), string)

InitContext(c, OutputLen, Name, Customization) ==
  IF Name = <<>> /\ Customization = <<>>
  THEN KeccakInit(c, 31, OutputLen)
  ELSE LET first == Sha3Update(KeccakInit(c, 4, OutputLen), LeftEncode(Rate))
           both == AbsorbString(AbsorbString(first, Name), Customization)
       IN  Sha3Update(both, Zeros(PadLen(Len(Preamble(Name, Customization)))))

\* A context of its own, used once.
CShake256HashAll(q) ==
  LET ctxOnStack == [A |-> <<>>, num |-> 0, buf |-> [i \in 1..BufSize |-> Junk], pad |-> 0, md_size |-> 0]
  IN  Sha3Final(Sha3Update(InitContext(ctxOnStack, q.len, q.name, q.custom), q.data))

NoDigest == [blocks |-> <<>>, len |-> 0]

Init ==
  /\ ctx = [A |-> <<>>, num |-> 0, buf |-> [i \in 1..BufSize |-> Junk], pad |-> 0, md_size |-> 0]
  /\ asked = [name |-> <<>>, custom |-> <<>>, data |-> <<>>, len |-> 0]
  /\ stage = "none"
  /\ digest = NoDigest

\* A context may be initialised again at any time.
CShake256Init(OutputLen, Name, Customization) ==
  /\ ctx' = InitContext(ctx, OutputLen, Name, Customization)
  /\ asked' = [name |-> Name, custom |-> Customization, data |-> <<>>, len |-> OutputLen]
  /\ stage' = "open"
  /\ digest' = NoDigest

CShake256Update(piece) ==
  /\ stage = "open"
  /\ Len(asked.data) + Len(piece) <= MaxData
  /\ ctx' = Sha3Update(ctx, piece)
  /\ asked' = [asked EXCEPT !.data = @ \o piece]
  /\ UNCHANGED <<stage, digest>>

\* The padding stays in the buffer.
CShake256Final ==
  /\ stage = "open"
  /\ digest' = Sha3Final(ctx)
  /\ ctx' = [ctx EXCEPT !.A = digest'.blocks,
                        !.buf = Written(@, 0, digest'.blocks[Len(digest'.blocks)])]
  /\ stage' = "done"
  /\ UNCHANGED asked

Next ==
  \/ \E l \in OutputLens, n, c \in Strings : CShake256Init(l, n, c)
  \/ \E d \in Data(MaxPiece) : CShake256Update(d)
  \/ CShake256Final

Spec == Init /\ [][Next]_vars

-----------------------------------------------------------------------------
(* Properties.                                                              *)

\* The bytes of absorbed blocks.
Bytes(A) == [i \in 1..Len(A) * Rate |-> A[((i - 1) \div Rate) + 1][((i - 1) % Rate) + 1]]

Header(q) ==
  IF q.name = <<>> /\ q.custom = <<>> THEN <<>>
  ELSE Preamble(q.name, q.custom) \o Zeros(PadLen(Len(Preamble(q.name, q.custom))))

\* Between calls the blocks that were absorbed and the used part of the buffer are,
\* in this order, all the bytes the context was given, whatever the sizes of the
\* pieces were, and the buffer is never full.
StreamIsKept ==
  stage = "open" =>
    /\ ctx.num < Rate
    /\ Bytes(ctx.A) \o SubSeq(ctx.buf, 1, ctx.num) = Header(asked) \o asked.data

\* Data given in pieces have the digest that CShake256HashAll gives for them in one
\* call, although the context was used before and its buffer holds old bytes.
PiecesDoNotMatter == stage = "done" => digest = CShake256HashAll(asked)

\* Everything that can be asked within the bound.
Questions == [name : Strings, custom : Strings, data : Data(MaxData), len : OutputLens]
DigestOf == [q \in Questions |-> CShake256HashAll(q)]

\* "Encodes the input as a byte string in a way that can be unambiguously parsed":
\* different names, customizations or data never absorb the same blocks, whatever
\* lengths they are asked for.  The length is no part of it: OutputLen is not
\* absorbed, so that of two digests of one input the shorter begins the longer.
DigestTellsQuestion ==
  stage = "done" => \A q \in Questions : DigestOf[q].blocks = digest.blocks =>
    q.name = asked.name /\ q.custom = asked.custom /\ q.data = asked.data

\* "Absorb zero padding up to rate": a preamble that is a whole number of blocks
\* needs no zeros, as in the bytepad of NIST's Special Publication 800-185.
PaddingUpToRate ==
  stage = "open" /\ asked.data = <<>> /\ asked.name \o asked.custom # <<>> =>
    Len(Bytes(ctx.A)) < Len(Preamble(asked.name, asked.custom)) + Rate
=============================================================================
