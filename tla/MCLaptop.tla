------------------------------ MODULE MCLaptop ------------------------------
(***************************************************************************)
(* No uEnv.txt; one that is left at its empty line; and one without such a *)
(* line that asks for the debug mode.                                      *)
(***************************************************************************)
EXTENDS Laptop

Uenv(lines) == [exists |-> TRUE, lines |-> lines]
MCUenvFiles == {[exists |-> FALSE, lines |-> <<>>], Uenv(<<"other", "">>), Uenv(<<Debug>>)}
=============================================================================
