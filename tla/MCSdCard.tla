------------------------------ MODULE MCSdCard ------------------------------
(***************************************************************************)
(* Answers for TLC: nothing yet, idle, and a refused command.              *)
(***************************************************************************)
EXTENDS SdCard

MCAnswers == {FF, R1_IDLE, <<0,0,0,0,0,1,0,1>>}
=============================================================================
