------------------------------- MODULE SdCard -------------------------------
(***************************************************************************)
(* The SD card controller of the COD5 (sdcard.v) on its SPI master: the    *)
(* clocks a card needs after power-up, CMD0, the wait for its answer, and  *)
(* the retries.  Both are clocked by I_clk and read each other's registers *)
(* as they were before the edge.                                           *)
(*                                                                         *)
(* Reading and writing blocks is not implemented in sdcard.v.              *)
(***************************************************************************)
EXTENDS SpiMaster

CONSTANTS
    InitBytes,   \* step after I_cmd_init (11); one less bytes are sent
    Polls,       \* dummy_send (9); one more answers are looked at
    MaxRetries   \* retry_count at which the card is given up (15)

ClocksNeeded == 74

\* The bytes before CMD0 bring the clocks (11 brings 80).
ASSUME CountAssumption ==
    /\ InitBytes \in Nat /\ Polls \in Nat /\ MaxRetries \in Nat
    /\ 8 * (InitBytes - 1) >= ClocksNeeded

VARIABLES
    sd_state, step, retry_count, dummy_send,
    spi_write, spi_read, spi_send, O_cs_n, O_data_ready,
    commanded,  \* the last edge saw I_cmd_init
    clocks,     \* history: clocks with the card deselected since I_cmd_init
    told        \* history: the bytes begun with the card selected

sdRegs  == <<sd_state, step, retry_count, dummy_send,
             spi_write, spi_read, spi_send, O_cs_n, O_data_ready>>
sdVars  == <<spiVars, sdRegs, commanded, clocks, told>>

CMD0 == <<<<0,1,0,0,0,0,0,0>>, Zero, Zero, Zero, Zero, <<1,0,0,1,0,1,0,1>>>>
R1_IDLE == <<0,0,0,0,0,0,0,1>>

SdTypeOK ==
    /\ SpiTypeOK
    /\ sd_state \in {"uninit", "init_card", "send_cmd", "cmd0_sent",
                     "cmd0_dummy", "retry_init", "idle"}
    /\ step \in 0..InitBytes
    /\ retry_count \in 0..(MaxRetries + 1)
    /\ dummy_send \in 0..Polls
    /\ spi_send \in Bytes
    /\ {spi_write, spi_read, O_cs_n, O_data_ready, commanded} \subseteq BOOLEAN
    /\ clocks \in 0..ClocksNeeded
    /\ Len(told) <= 6 + Polls + 1

\* O_data_ready has no reset.
SdInit ==
    /\ SpiInit
    /\ sd_state = "uninit" /\ step = 0 /\ retry_count = 0 /\ dummy_send = 0
    /\ spi_write = FALSE /\ spi_read = FALSE /\ spi_send = Zero
    /\ O_cs_n = TRUE /\ O_data_ready \in BOOLEAN
    /\ commanded = FALSE /\ clocks = 0 /\ told = <<>>

----------------------------------------------------------------------------
(* States of the controller, between two edges *)

\* The SPI master has taken the last byte and has finished it.
QuietBeforeBusy == ~spi_busy  \* mutant: spi_write is still on its way
QuietWhileBusy == ~spi_write  \* mutant: a byte is still on its way
Quiet == ~spi_write /\ ~spi_busy

Send(byte) == spi_write' = TRUE /\ spi_send' = byte
SendNone   == spi_write' = FALSE /\ UNCHANGED spi_send

Deselect == O_cs_n' = TRUE

Wait ==
    /\ SendNone /\ spi_read' = FALSE
    /\ UNCHANGED <<sd_state, step, retry_count, dummy_send, O_cs_n>>

Uninit ==
    /\ sd_state = "uninit"
    /\ Deselect /\ SendNone /\ spi_read' = FALSE
    /\ UNCHANGED <<sd_state, step, retry_count, dummy_send>>

IdleCard ==
    /\ sd_state = "idle"
    /\ O_cs_n' = FALSE /\ SendNone /\ spi_read' = FALSE
    /\ UNCHANGED <<sd_state, step, retry_count, dummy_send>>

NeverGivesUp ==  \* mutant: retry_count wraps instead
    /\ sd_state = "retry_init"
    /\ Deselect /\ SendNone /\ spi_read' = FALSE
    /\ retry_count' = (retry_count + 1) % (MaxRetries + 1)
    /\ sd_state' = "init_card" /\ step' = 2
    /\ UNCHANGED dummy_send

RetryInit ==
    /\ sd_state = "retry_init"
    /\ Deselect /\ SendNone /\ spi_read' = FALSE
    /\ retry_count' = retry_count + 1
    /\ IF retry_count = MaxRetries
         THEN sd_state' = "uninit" /\ UNCHANGED step
         ELSE sd_state' = "init_card" /\ step' = 2
    /\ UNCHANGED dummy_send

InitCard ==
    /\ sd_state = "init_card" /\ Quiet
    /\ spi_read' = FALSE
    /\ \/ /\ step > 1
          /\ Deselect /\ Send(FF)
          /\ step' = step - 1
          /\ UNCHANGED sd_state
       \/ /\ step = 1
          /\ O_cs_n' = FALSE /\ SendNone
          /\ step' = 0
          /\ UNCHANGED sd_state
       \/ /\ step = 0
          /\ sd_state' = "send_cmd"
          /\ SendNone
          /\ UNCHANGED <<step, O_cs_n>>
    /\ UNCHANGED <<retry_count, dummy_send>>

SendCmd ==
    /\ sd_state = "send_cmd" /\ Quiet
    /\ spi_read' = FALSE
    /\ IF step < 6
         THEN /\ Send(CMD0[step + 1])
              /\ step' = step + 1
              /\ UNCHANGED sd_state
         ELSE /\ SendNone
              /\ step' = 0
              /\ sd_state' = "cmd0_sent"
    /\ UNCHANGED <<retry_count, dummy_send, O_cs_n>>

Cmd0Sent ==
    /\ sd_state = "cmd0_sent" /\ Quiet
    /\ Send(FF) /\ spi_read' = FALSE
    /\ sd_state' = "cmd0_dummy"
    /\ dummy_send' = Polls
    /\ UNCHANGED <<step, retry_count, O_cs_n>>

\* A byte of the card is looked at.  (dummy_send is kept at zero where the code
\* lets it run on: it is set again before it is looked at.)
Answered == Quiet /\ ~spi_read /\ spi_data_ready
Accepted == spi_receive = R1_IDLE
PollsForever == FALSE  \* mutant: dummy_send is not tested
GivesUp  == ~Accepted /\ dummy_send = 0

Cmd0Dummy ==
    /\ sd_state = "cmd0_dummy" /\ Answered
    /\ spi_read' = TRUE
    /\ dummy_send' = IF dummy_send = 0 THEN dummy_send ELSE dummy_send - 1
    /\ \/ Accepted /\ sd_state' = "idle" /\ SendNone
       \/ GivesUp /\ sd_state' = "retry_init" /\ SendNone
       \/ ~Accepted /\ ~GivesUp /\ Send(FF) /\ UNCHANGED sd_state
    /\ UNCHANGED <<step, retry_count, O_cs_n>>

WaitForSpi ==
    /\ \/ sd_state \in {"init_card", "send_cmd", "cmd0_sent"} /\ ~Quiet
       \/ sd_state = "cmd0_dummy" /\ ~Answered
    /\ Wait

----------------------------------------------------------------------------
(* Clock edges *)

\* What the card sees of an edge.
CardSees ==
    /\ clocks' = IF O_sck = 0 /\ O_sck' = 1 /\ O_cs_n /\ clocks < ClocksNeeded
                   THEN clocks + 1 ELSE clocks
    /\ told' = IF O_cs_n THEN <<>>
               ELSE IF Accepts(spi_write) THEN Append(told, spi_send) ELSE told

Work ==
    Uninit \/ IdleCard \/ RetryInit \/ InitCard \/ SendCmd \/ Cmd0Sent
      \/ Cmd0Dummy \/ WaitForSpi

\* The host may take the data that is ready.
ClockEdge ==
    /\ Work
    /\ O_data_ready' \in
         IF sd_state = "cmd0_dummy" /\ Answered /\ (Accepted \/ GivesUp)
           THEN {TRUE} ELSE {O_data_ready, FALSE}
    /\ SpiEdge(spi_write, spi_read, spi_send)
    /\ commanded' = FALSE
    /\ CardSees

CmdInit ==
    /\ spi_write' = FALSE /\ spi_read' = FALSE
    /\ Deselect
    /\ retry_count' = 0
    /\ sd_state' = "init_card"
    /\ step' = InitBytes
    /\ SpiEdge(spi_write, spi_read, spi_send)
    /\ commanded' = TRUE
    /\ clocks' = 0 /\ told' = <<>>
    /\ UNCHANGED <<dummy_send, spi_send, O_data_ready>>

SdNext == ClockEdge \/ CmdInit

SdSpec == SdInit /\ [][SdNext]_sdVars

\* The clock runs.
FairSdSpec == SdSpec /\ WF_sdVars(SdNext)

----------------------------------------------------------------------------
(* Properties *)

\* sdcard.v:112: "minimal 74 clock cycles".  A card is selected only after the
\* clocks it needs, whenever the initialisation was commanded, in the middle
\* of an earlier one included.
PowerUpClocks == told # <<>> => clocks = ClocksNeeded

IsPoll(i) == told[i] = FF
\* What the card is told while it is selected is CMD0, byte by byte, and
\* nothing else but polls; and the card is taken as idle only because of an
\* answer it gave to a poll behind the whole command.
CardHearsCommand ==
    /\ \A i \in DOMAIN told : IF i <= 6 THEN told[i] = CMD0[i] ELSE IsPoll(i)
    /\ sd_state = "idle" => Len(told) > 6 /\ spi_receive = R1_IDLE

\* When a byte is ready, each side has the byte the other one sent.
BytesExchanged ==
    state = "idle" /\ spi_data_ready /\ ~spi_write =>
      heard = spi_send /\ spi_receive = gave

\* The card is not selected or deselected in the middle of a byte, unless by
\* a new command.
SelectSteady == [][O_cs_n' # O_cs_n => state = "idle" \/ commanded']_sdVars

\* The initialisation ends, well or badly, unless it is commanded anew.
InitEnds ==
    []<>(sd_state \in {"idle", "uninit"}) \/ []<>commanded
=============================================================================
