------------------------------ MODULE TpmBytes ------------------------------
(***************************************************************************)
(* Buffers as sequences of bytes, and the primitives of the Marshalable    *)
(* trait over them: big-endian integers, and UnmarshalBuf, which is the    *)
(* part of a buffer that is still to be read.                              *)
(***************************************************************************)
EXTENDS Integers, Sequences

Octet == 0 .. 255

\* u16::MAX, the most a 16-bit size can announce.
U16Max == 65535

\* to_be_bytes of a u16 and of a u32.
BE2(v) == <<v \div 256, v % 256>>
BE4(v) ==
  <<v \div 16777216, (v \div 65536) % 256, (v \div 256) % 256, v % 256>>

\* from_be_bytes of the first bytes of s.  The upper half of the u32 range is
\* one value, larger than any buffer.
U32Large == 2147483647
U16(s) == 256 * s[1] + s[2]
U32(s) ==
  IF s[1] > 127 THEN U32Large
  ELSE 16777216 * s[1] + 65536 * s[2] + 256 * s[3] + s[4]

\* UnmarshalBuf::get(n): whether there is a prefix of n bytes, the prefix,
\* and what stays.
CanGet(buf, n) == n <= Len(buf)
Got(buf, n) == IF CanGet(buf, n) THEN SubSeq(buf, 1, n) ELSE <<>>
After(buf, n) == SubSeq(buf, n + 1, Len(buf))

Zeros(n) == [i \in 1 .. n |-> 0]

\* The bytes a Tpm2b takes from a buffer: its u16 size, and what it announces.
Tpm2bLen(buf) == IF CanGet(buf, 2) THEN 2 + U16(buf) ELSE 2
=============================================================================
