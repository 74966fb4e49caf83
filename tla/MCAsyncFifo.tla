---------------------------- MODULE MCAsyncFifo ----------------------------
(***************************************************************************)
(* Instances of AsyncFifo for TLC, with the code of async_fifo.v.          *)
(***************************************************************************)
EXTENDS AsyncFifo

CONSTANTS a, b

Code == INSTANCE GrayCode
MCGray(n)   == Code!BinaryToGray(n)
MCBinary(g) == Code!GrayToBinary(g)

\* The code satisfies GrayAssumption for other widths too, among them the
\* one of the SoC and the default of async_fifo.v.
Wide(w) == INSTANCE GrayCode WITH PointerWidth <- w
ASSUME GrayWidths ==
    \A w \in 1..6 : \A p \in 0..2 * 2^w - 1 :
      LET gray(n)  == Wide(w)!BinaryToGray(n % (2 * 2^w))
          changed(n) == {i \in 0..w : gray(p)[i] # gray(n)[i]}
      IN  /\ Wide(w)!GrayToBinary(gray(p)) = p
          /\ changed(p + 2^w) = {w - 1, w}
          /\ \E i \in 0..w : changed(p + 1) = {i}
=============================================================================
