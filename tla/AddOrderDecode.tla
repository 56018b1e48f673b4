--------------------------- MODULE AddOrderDecode ---------------------------
(***************************************************************************)
(* The three decoders of an Add Order (simd/add_order_decode.hpp).  Each   *)
(* fills the 32 bytes of AddOrderFields, little-endian: the scalar one     *)
(* field by field, the others by byte shuffles of the 16-byte chunks of    *)
(* the message, 48 bytes of which they read.                               *)
(***************************************************************************)
EXTENDS Messages, SequencesExt

\* More than one chunk has put a byte in the same place.
Mixed == -4

\* kAddOrderSrc: the byte of the message that feeds each byte of the result
AddOrderSrc == <<18, 17, 16, 15, 14, 13, 12, 11, 10, 9, 8, 7, 6, 5, -1, -1,
                 23, 22, 21, 20, 35, 34, 33, 32, 2, 1, 4, 3, 19, -1, -1, -1>>

Overread == 48

\* A mask that does not look at the chunk a byte lives in.
MaskOfAnyChunk(chunk, base) ==
    [k \in 1 .. 16 |-> LET src == AddOrderSrc[base + k]
                       IN  IF src >= 0 THEN src % 16 ELSE -128]

\* shuffle_mask: the bytes that live in the chunk, bit 7 for every other
ShuffleMask(chunk, base) ==
    [k \in 1 .. 16 |-> LET src == AddOrderSrc[base + k]
                       IN  IF src >= 0 /\ src \div 16 = chunk THEN src % 16 ELSE -128]

\* the chunk of 16 bytes at p
Chunk(mem, p) == [k \in 0 .. 15 |-> mem[p + k]]

\* PSHUFB: within a lane, each byte of the result is one of the lane or zero
Shuffle(c, mask) == [k \in DOMAIN mask |-> IF mask[k] < 0 THEN Zero ELSE c[mask[k]]]

Or(a, b) == [k \in DOMAIN a |-> IF a[k] = Zero THEN b[k]
                                ELSE IF b[k] = Zero THEN a[k] ELSE Mixed]

\* the bytes of an integer in memory
LittleEndian(v) == Reverse(v)

DecodeScalar(mem, p) ==
    LittleEndian(LoadBE(mem, p + 11, 8)) \o LittleEndian(LoadBE48(mem, p + 5))
        \o LittleEndian(LoadBE(mem, p + 20, 4)) \o LittleEndian(LoadBE(mem, p + 32, 4))
        \o LittleEndian(LoadBE(mem, p + 1, 2)) \o LittleEndian(LoadBE(mem, p + 3, 2))
        \o <<mem[p + 19], Zero, Zero, Zero>>

\* The low half needs two chunks and the high half all three.
DecodeSsse3(mem, p) ==
    LET Part(chunk, base) == Shuffle(Chunk(mem, p + 16 * chunk), ShuffleMask(chunk, base))
    IN  Or(Part(0, 0), Part(1, 0)) \o Or(Or(Part(0, 16), Part(1, 16)), Part(2, 16))

\* Every chunk is in both lanes, the masks of both halves side by side.
DecodeAvx2(mem, p) ==
    LET Lanes(chunk) ==
            LET c == Chunk(mem, p + 16 * chunk)
            IN  Shuffle(c, ShuffleMask(chunk, 0)) \o Shuffle(c, ShuffleMask(chunk, 16))
    IN  Or(Or(Lanes(0), Lanes(1)), Lanes(2))
=============================================================================
