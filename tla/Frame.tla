------------------------------- MODULE Frame -------------------------------
(***************************************************************************)
(* The message frame (connection.go): a version, a stream, a sequence      *)
(* number, flags, and a payload and additional data that are each preceded *)
(* by their length.                                                        *)
(*                                                                         *)
(* The layout and the widths of the fields are the code's; what is scaled  *)
(* down is the byte, which has Base values instead of 256.  A length field *)
(* of two bytes then wraps around at Range16 instead of 65536.              *)
(***************************************************************************)
EXTENDS Integers, Sequences

CONSTANT Base      \* values of a byte

ASSUME BaseAssumption == Base \in Nat \ {0, 1}

Bytes == 0..(Base - 1)

\* How many values a uint16, a uint32 and a uint64 have.
Range16 == Base * Base
Range32 == Range16 * Range16
Range64 == Range32 * Range32

\* PutUint16, 32 and 64: a number in bytes, the most significant first; what does
\* not fit is cut off by the conversion before it.
Put16(n) == <<(n \div Base) % Base, n % Base>>
Put32(n) == Put16((n \div Range16) % Range16) \o Put16(n % Range16)
Put64(n) == Put32((n \div Range32) % Range32) \o Put32(n % Range32)

\* Uint16, 32 and 64: the number in the bytes of data that follow the first off
\* of them.
Get16(data, off) == Base * data[off + 1] + data[off + 2]
Get32(data, off) == Range16 * Get16(data, off) + Get16(data, off + 2)
Get64(data, off) == Range32 * Get32(data, off) + Get32(data, off + 4)

\* messageFrame.marshal.
Marshal(f) ==
  <<f.version>> \o Put32(f.streamID) \o Put64(f.sequenceNo) \o <<f.flags>>
    \o Put32(Len(f.payload)) \o f.payload \o Put16(Len(f.aad)) \o f.aad

HeaderSize == 1 + 4 + 8 + 1 + 4

\* Mutants: a payload that ends the data is refused; the additional data may be
\* cut short.
PayloadFitsStrictly(data, n) == HeaderSize + n + 2 < Len(data)
AADFitsNearly(data, n, m) == HeaderSize + n + 2 + m <= Len(data) + 1
\* The two length checks of unmarshal.
PayloadFits(data, n) == HeaderSize + n + 2 <= Len(data)
AADFits(data, n, m) == HeaderSize + n + 2 + m <= Len(data)

\* messageFrame.unmarshal of n bytes of payload and m of additional data.  make
\* zeroes what copy does not fill.
Parsed(data, n, m) ==
  [version |-> data[1], streamID |-> Get32(data, 1),
   sequenceNo |-> Get64(data, 5), flags |-> data[14],
   payload |-> SubSeq(data, HeaderSize + 1, HeaderSize + n),
   aad |-> [i \in 1..m |-> IF HeaderSize + n + 2 + i <= Len(data)
                           THEN data[HeaderSize + n + 2 + i] ELSE 0]]

\* messageFrame.unmarshal: how it ends, and the frame.  Reading a length that is
\* not there would panic.
Unmarshal(data) ==
  LET n == Get32(data, HeaderSize - 4)
      m == Get16(data, HeaderSize + n)
  IN  IF Len(data) < HeaderSize THEN [end |-> "error"]
      ELSE IF ~PayloadFits(data, n) THEN [end |-> "error"]
      ELSE IF Len(data) < HeaderSize + n + 2 THEN [end |-> "panic"]
      ELSE IF ~AADFits(data, n, m) THEN [end |-> "error"]
      ELSE [end |-> "ok", frame |-> Parsed(data, n, m)]

\* The frames whose length fields can hold their lengths.
Fits(f) == Len(f.payload) < Range32 /\ Len(f.aad) < Range16
=============================================================================
