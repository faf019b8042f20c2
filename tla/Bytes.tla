--------------------------------- MODULE Bytes ---------------------------------
(* Data as sequences of bytes, with offsets that count from 0 as in the code. *)
EXTENDS Integers, Sequences

Zeros(n) == [i \in 1 .. n |-> 0]

\* Little-endian numbers; the second has 64 bits, of which 16 are used.
Uint16(n) == <<n % 256, (n \div 256) % 256>>
Uint64(n) == Uint16(n) \o Zeros(6)

\* The greatest number of 16 bits.
MaxUint16 == 65535

\* The 16-bit number at an offset.
Word(data, offset) == data[offset + 1] + 256 * data[offset + 2]

\* n bytes from an offset on.
Slice(data, offset, n) == SubSeq(data, offset + 1, offset + n)
================================================================================
