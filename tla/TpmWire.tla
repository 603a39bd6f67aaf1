------------------------------- MODULE TpmWire -------------------------------
(***************************************************************************)
(* The wire format shared by the server and its caller.  A byte is never   *)
(* a number: it is the at-th byte of the big-endian encoding of a value,   *)
(* together with the party that put it there.  A field decodes to a value  *)
(* exactly when its bytes are the bytes of that value in order, which is   *)
(* all that u16::from_be_bytes and u32::to_be_bytes guarantee.             *)
(***************************************************************************)
EXTENDS Integers

HeaderSize == 10          \* tag (2), size (4), command or response code (4)

CcGetRandom == 379        \* 0x17B
TagNoSessions == 32769    \* 0x8001

Success == 0
RcCommandSize == 322      \* 0x142
RcCommandCode == 323      \* 0x143
RcMemory == 2308          \* 0x904

Sources == {"caller", "client", "server", "drbg"}
Byte == [src : Sources, val : Nat, at : Nat]

EncodedByte(src, val, at) == [src |-> src, val |-> val, at |-> at]
\* A byte whose content the caller left behind and nobody may rely on.
OldByte == EncodedByte("caller", 0, 0)

\* data.to_be_bytes() written at off: size bytes of val from src.
Overwrite(mem, off, size, src, val) ==
  [i \in DOMAIN mem |->
     IF i \in off .. off + size - 1 THEN EncodedByte(src, val, i - off)
                                    ELSE mem[i]]

\* The size bytes of mem at off are one encoded field.
IsField(mem, off, size) ==
  \A k \in 0 .. size - 1 :
     mem[off + k] = EncodedByte(mem[off].src, mem[off].val, k)

\* A response to a successful GetRandom of n bytes, as the server lays it out.
ResponseByte(n, i) ==
  IF i < 2 THEN EncodedByte("server", TagNoSessions, i)
  ELSE IF i < 6 THEN EncodedByte("server", HeaderSize + n, i - 2)
  ELSE IF i < HeaderSize THEN EncodedByte("server", Success, i - 6)
  ELSE EncodedByte("drbg", 0, i - HeaderSize)
=============================================================================
