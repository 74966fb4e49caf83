-------------------------- MODULE MCFirmwareUpdate --------------------------
(***************************************************************************)
(* Instances of FirmwareUpdate for TLC: three application pages and one    *)
(* page of the bootloader section.                                         *)
(***************************************************************************)
EXTENDS FirmwareUpdate

CONSTANTS a, b, c

\* A large image, a small one that leaves a page unused, and one that runs
\* into the bootloader section.
Large   == [p \in Pages |-> IF p < BootStart THEN a ELSE Blank]
Small   == [p \in Pages |-> CASE p = 0 -> b [] p = BootStart - 1 -> c [] OTHER -> Blank]
Overrun == [p \in Pages |-> IF p = 1 THEN Blank ELSE a]

MCTwoImages   == {Large, Small}
MCThreeImages == {Large, Small, Overrun}

NoFaults    == {}
PowerFaults == {"abort", "power"}
SpmFaults   == {"spm"}
=============================================================================
