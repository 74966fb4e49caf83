------------------------------- MODULE MCUart -------------------------------
(***************************************************************************)
(* Bytes for TLC: without an edge, with the most edges, and neither the    *)
(* mirror nor the complement of themselves.                                *)
(***************************************************************************)
EXTENDS Uart

MCByte == {[i \in DataBits |-> 0], [i \in DataBits |-> 1],
           [i \in DataBits |-> i % 2], [i \in DataBits |-> IF i < 3 THEN 1 ELSE 0]}
=============================================================================
