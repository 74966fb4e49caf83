------------------------------ MODULE SpiMaster ------------------------------
(***************************************************************************)
(* The SPI master of the COD5 (spi_master.v, mode 0), and the wires to the *)
(* card.  The card's side of a byte is what mode 0 asks of it: it samples  *)
(* MOSI when the clock rises and puts its next bit on MISO when it falls.  *)
(*                                                                         *)
(* A byte is a sequence of bits, the highest first.                        *)
(***************************************************************************)
EXTENDS Naturals, Sequences

CONSTANTS
    speed,   \* clock edges of half a bit, less one
    Answers  \* bytes the card may answer

Bytes == [1..8 -> {0, 1}]

ASSUME SpeedAssumption == speed \in Nat
ASSUME AnswersAssumption == Answers \subseteq Bytes

VARIABLES
    state, spi_step, counter, buf_out, buf_in,
    O_mosi, O_sck, spi_busy, spi_data_ready, spi_receive,
    answer,  \* the card: the bits of its byte that are still to come
    heard,   \* the card: the last eight bits it sampled
    gave     \* history: the byte the card answers

spiVars == <<state, spi_step, counter, buf_out, buf_in, O_mosi, O_sck,
             spi_busy, spi_data_ready, spi_receive, answer, heard, gave>>

SpiTypeOK ==
    /\ state \in {"idle", "pre_start", "start", "write"}
    /\ spi_step \in 0..16
    /\ counter \in 0..speed
    /\ {buf_out, buf_in, spi_receive, heard, gave} \subseteq Bytes
    /\ {O_mosi, O_sck} \subseteq {0, 1}
    /\ spi_busy \in BOOLEAN /\ spi_data_ready \in BOOLEAN
    /\ Len(answer) <= 8

Zero == [i \in 1..8 |-> 0]
FF   == [i \in 1..8 |-> 1]

\* The registers without a reset, spi_receive among them, hold anything.
SpiInit ==
    /\ state = "idle" /\ spi_step = 0 /\ counter = 0
    /\ buf_out = Zero /\ buf_in = Zero
    /\ O_mosi = 1 /\ O_sck = 0
    /\ spi_busy = TRUE /\ spi_data_ready = FALSE
    /\ spi_receive \in Answers
    /\ answer = FF /\ heard = Zero /\ gave = FF

----------------------------------------------------------------------------

ShiftIn(byte, bit) == Append(Tail(byte), bit)
I_miso == Head(answer)

Rise == heard' = ShiftIn(heard, O_mosi) /\ UNCHANGED answer
Fall == answer' = Append(Tail(answer), 1) /\ UNCHANGED heard

\* A byte is taken; the card is ready with its own.
Accept(byte) ==
    /\ state' = "pre_start"
    /\ spi_busy' = TRUE
    /\ buf_out' = byte /\ buf_in' = Zero
    /\ O_mosi' = Head(byte)
    /\ counter' = speed
    /\ answer' \in Answers /\ gave' = answer'
    /\ UNCHANGED <<spi_step, heard>>

StayIdle ==
    /\ spi_busy' = FALSE
    /\ UNCHANGED <<state, spi_step, counter, buf_out, buf_in, O_mosi,
                   answer, heard, gave>>

Idle(write, byte) ==
    /\ state = "idle"
    /\ IF write /\ ~spi_busy THEN Accept(byte) ELSE StayIdle
    /\ O_sck' = 0
    /\ UNCHANGED spi_receive

PreStart ==
    /\ state = "pre_start"
    /\ state' = IF counter = 0 THEN "start" ELSE state
    /\ counter' = IF counter = 0 THEN 0 ELSE counter - 1
    /\ UNCHANGED <<spi_step, buf_out, buf_in, O_mosi, O_sck, spi_busy,
                   spi_receive, answer, heard, gave>>

Start ==
    /\ state = "start"
    /\ state' = "write"
    /\ O_sck' = 1 /\ Rise
    /\ spi_step' = 1
    /\ counter' = speed
    /\ buf_out' = ShiftIn(buf_out, buf_out[8])
    /\ buf_in' = ShiftIn(buf_in, I_miso)
    /\ UNCHANGED <<O_mosi, spi_busy, spi_receive, gave>>

HalfBit ==
    /\ state = "write" /\ counter # 0
    /\ counter' = counter - 1
    /\ UNCHANGED <<state, spi_step, buf_out, buf_in, O_mosi, O_sck, spi_busy,
                   spi_receive, answer, heard, gave>>

LastStepEarly == 13  \* mutant: the last bit is not clocked
LastStep == 15

\* The clock changes: bits are sampled in the even steps, and put out in the
\* odd ones.
Toggle ==
    /\ state = "write" /\ counter = 0
    /\ counter' = speed
    /\ O_sck' = 1 - O_sck
    /\ IF O_sck = 0 THEN Rise ELSE Fall
    /\ spi_step' = spi_step + 1
    /\ IF spi_step % 2 = 0
         THEN /\ buf_out' = ShiftIn(buf_out, 0)
              /\ buf_in' = ShiftIn(buf_in, I_miso)
              /\ UNCHANGED O_mosi
         ELSE /\ O_mosi' = Head(buf_out)
              /\ UNCHANGED <<buf_out, buf_in>>
    /\ IF spi_step = LastStep
         THEN state' = "idle" /\ spi_receive' = buf_in
         ELSE UNCHANGED <<state, spi_receive>>
    /\ UNCHANGED <<spi_busy, gave>>

Accepts(write) == state = "idle" /\ write /\ ~spi_busy
Finishes == state = "write" /\ counter = 0 /\ spi_step = LastStep

\* An edge of I_clk.
SpiEdge(write, read, byte) ==
    /\ Idle(write, byte) \/ PreStart \/ Start \/ HalfBit \/ Toggle
    /\ spi_data_ready' = \/ Finishes
                         \/ spi_data_ready /\ ~read /\ ~Accepts(write)
=============================================================================
