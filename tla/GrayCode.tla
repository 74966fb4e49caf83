------------------------------ MODULE GrayCode ------------------------------
(***************************************************************************)
(* The conversions async_fifo.v makes between binary pointers and Gray     *)
(* codes, bit by bit.  A code is a function from bit numbers to 0 or 1.    *)
(***************************************************************************)
EXTENDS Naturals, FiniteSets, FiniteSetsExt

CONSTANT PointerWidth

Bits  == 0..PointerWidth
Codes == [Bits -> {0, 1}]

Bit(n, i) == (n \div 2^i) % 2

\* (n >> 1) ^ n
BinaryToGray(n) ==
    [i \in Bits |->
        IF i = PointerWidth THEN Bit(n, i) ELSE (Bit(n, i) + Bit(n, i + 1)) % 2]

\* Bit i of the number is the exclusive or of the code's bits from i upwards.
GrayToBinary(g) ==
    MapThenSumSet(
        LAMBDA i : 2^i * (Cardinality({j \in i..PointerWidth : g[j] = 1}) % 2),
        Bits)
=============================================================================
