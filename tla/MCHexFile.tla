------------------------------ MODULE MCHexFile ------------------------------
(***************************************************************************)
(* Eight bytes of memory: room for a gap, an overlap, a record that        *)
(* reaches beyond the code and one that reaches the end of the memory.     *)
(***************************************************************************)
EXTENDS HexFile

MCParts == {[code |-> 6, block |-> 2], [code |-> 8, block |-> 4]}
MCDataRecords == {[addr |-> a, bytes |-> b] : a \in {0, 1, 3, 4}, b \in {<<1>>, <<2, 3>>}}
                   \cup {[addr |-> 5, bytes |-> <<Blank, 4>>], [addr |-> 6, bytes |-> <<4>>],
                         [addr |-> 6, bytes |-> <<5, 6>>]}
=============================================================================
