-------------------------------- MODULE Uart --------------------------------
(***************************************************************************)
(* The UART of the COD5 (uart.v) and the bus that reads and writes it      *)
(* (c5_soc.v): the transmitter of one board connected to the receiver of   *)
(* another, clock edge by clock edge.  The two boards have clocks of their *)
(* own, which drift by at most Skew edges during a byte.                   *)
(*                                                                         *)
(* out_shift is kept as the byte it was loaded with, of which out_state    *)
(* tells how much has been sent.  in_cnt and out_cnt are kept at zero      *)
(* where the code lets them run on: they are set when they matter again.   *)
(***************************************************************************)
EXTENDS Integers, Sequences

CONSTANTS
    period,  \* CLOCK_HZ / BAUDRATE
    Skew,    \* edges one clock may gain on the other during a byte
    Byte     \* bytes written

DataBits == 0..7

half == period \div 2

\* Drift and the latency of the start bit leave the receiver inside each bit.
ASSUME PeriodAssumption ==
    /\ period \in Nat /\ period > 1 /\ Skew \in Nat \ {0}
    /\ half + 2 * Skew + 2 <= period + 1
ASSUME ByteAssumption == Byte \subseteq [DataBits -> {0, 1}]

VARIABLES
    out_state, out_cnt,
    out_byte,      \* the byte out_shift was loaded with
    O_out_pin, O_busy_write, O_ack,
    in_state, in_cnt, in_shift, in_p0, in_p1,
    O_data_ready, O_dat,
    lead,          \* edges the transmitter's clock is ahead
    flying,        \* history: the byte sent and not yet received, if any
    got            \* history: the byte last read from the bus

txVars   == <<out_state, out_cnt, out_byte, O_out_pin, O_busy_write, O_ack>>
frameVars == <<in_state, in_cnt, in_shift, in_p0, in_p1>>
rxVars   == <<frameVars, O_data_ready, O_dat, got>>
uartVars == <<txVars, rxVars, lead, flying>>

UartTypeOK ==
    /\ out_state \in 0..12 /\ in_state \in 0..10
    /\ {out_cnt, in_cnt} \subseteq 0..period
    /\ {out_byte, in_shift, O_dat, got} \subseteq [DataBits -> {0, 1}]
    /\ {O_out_pin, in_p0, in_p1} \subseteq {0, 1}
    /\ {O_busy_write, O_ack, O_data_ready} \subseteq BOOLEAN
    /\ lead \in -Skew..Skew
    /\ flying \in Seq(Byte) /\ Len(flying) <= 1

\* Both boards have been reset; got is what the bus carried last.  The receiver
\* leaves its reset first: in_p0 is 0 then, and a start bit that is there at
\* its first edge goes unseen.
UartInit ==
    /\ out_state = 0 /\ out_cnt = 0
    /\ out_byte \in Byte
    /\ O_out_pin = 1 /\ O_busy_write = TRUE /\ O_ack = FALSE
    /\ in_state = 0 /\ in_cnt = 0
    /\ in_shift = [i \in DataBits |-> 0]
    /\ in_p0 = 0 /\ in_p1 = 0
    /\ O_data_ready = FALSE /\ O_dat = [i \in DataBits |-> 0]
    /\ lead = Skew
    /\ flying = <<>>
    /\ got \in Byte

----------------------------------------------------------------------------
(* Transmitter *)

\* out_shift[0]: a start bit, the byte, the lowest bit first, and ones.
ShiftOut == IF out_state = 1 THEN 0
            ELSE IF out_state \in 2..9 THEN out_byte[out_state - 2] ELSE 1

StillBusy(done) == O_busy_write /\ ~(done /\ out_state = 11)

SkipsStopBits(done) ==  \* mutant: back to idle without stop bits
    IF ~done THEN out_state ELSE IF out_state = 9 THEN 0 ELSE out_state + 1
NextOutState(done) ==
    IF ~done THEN out_state ELSE IF out_state = 12 THEN 0 ELSE out_state + 1

Transmit ==
    /\ out_state # 0
    /\ O_out_pin' = ShiftOut
    /\ LET done == out_cnt = period
       IN  /\ out_cnt' = IF done THEN 0 ELSE out_cnt + 1
           /\ out_state' = NextOutState(done)
           /\ O_busy_write' = StillBusy(done)
    /\ UNCHANGED <<out_byte, flying>>

AcceptByte(byte) ==
    /\ out_state = 0
    /\ out_state' = 1 /\ out_cnt' = 0
    /\ out_byte' = byte
    /\ O_busy_write' = TRUE
    /\ flying' = Append(flying, byte)
    /\ UNCHANGED O_out_pin

IdleOut ==
    /\ out_state = 0
    /\ O_busy_write' = FALSE
    /\ UNCHANGED <<out_state, out_cnt, out_byte, O_out_pin, flying>>

\* An edge of the transmitter's clock.  The bus passes a write on unless the
\* transmitter is busy; a byte that comes while one is on its way is dropped.
\* What the clocks gained on each other counts from the start of a byte.
TxEdge ==
    /\ lead < Skew
    /\ \/ \E byte \in Byte :
            /\ ~O_busy_write
            /\ O_ack' = TRUE
            /\ AcceptByte(byte) \/ Transmit
       \/ /\ O_ack' = FALSE
          /\ IdleOut \/ Transmit
    /\ lead' = IF out_state = 0 /\ O_ack' THEN 0 ELSE lead + 1
    /\ UNCHANGED rxVars

----------------------------------------------------------------------------
(* Receiver *)

HalfBit == in_cnt = half
OneEdgeLate == in_cnt = period + 1  \* mutant: an edge too late
FullBit == in_cnt = period

WaitForStart ==
    /\ in_state = 0
    /\ in_state' = IF in_p0 = 0 /\ in_p1 = 1 THEN 1 ELSE 0
    /\ in_cnt' = 0
    /\ UNCHANGED <<in_shift, O_dat, flying>>

CheckStart ==
    /\ in_state = 1
    /\ in_state' = IF O_out_pin = 1 THEN 0 ELSE IF HalfBit THEN 2 ELSE 1
    /\ in_cnt' = IF O_out_pin = 1 \/ HalfBit THEN 0 ELSE in_cnt + 1
    /\ UNCHANGED <<in_shift, O_dat, flying>>

ShiftFromTop ==  \* mutant: {in_shift[6:0], I_in_pin}
    [i \in DataBits |-> IF i = 0 THEN O_out_pin ELSE in_shift[i - 1]]
ShiftIn == [i \in DataBits |-> IF i = 7 THEN O_out_pin ELSE in_shift[i + 1]]

DataBit ==
    /\ in_state \in 2..9
    /\ in_state' = IF FullBit THEN in_state + 1 ELSE in_state
    /\ in_cnt' = IF FullBit THEN 0 ELSE in_cnt + 1
    /\ in_shift' = IF FullBit THEN ShiftIn ELSE in_shift
    /\ UNCHANGED <<O_dat, flying>>

\* A byte without a stop bit is dropped.
Complete == in_state = 10 /\ FullBit /\ O_out_pin = 1

StopBit ==
    /\ in_state = 10
    /\ in_state' = IF FullBit THEN 0 ELSE 10
    /\ in_cnt' = IF FullBit THEN 0 ELSE in_cnt + 1
    /\ O_dat' = IF Complete THEN in_shift ELSE O_dat
    /\ flying' = IF Complete THEN <<>> ELSE flying
    /\ UNCHANGED in_shift

Ready(read) == (O_data_ready \/ Complete) /\ ~read

\* An edge of the receiver's clock.  The bus reads only a byte that is ready,
\* and the program behind it reads before the stop bit of the next byte.
RxEdge ==
    /\ lead > -Skew
    /\ in_p0' = O_out_pin /\ in_p1' = in_p0
    /\ WaitForStart \/ CheckStart \/ DataBit \/ StopBit
    /\ \E read \in BOOLEAN :
         /\ read => O_data_ready
         /\ O_data_ready /\ in_state = 10 => read
         /\ O_data_ready' = Ready(read)
         /\ got' = IF read THEN O_dat ELSE got
    /\ lead' = lead - 1
    /\ UNCHANGED txVars

UartNext == TxEdge \/ RxEdge

UartSpec == UartInit /\ [][UartNext]_uartVars

\* Both clocks run.
FairUartSpec == UartSpec /\ WF_uartVars(TxEdge) /\ WF_uartVars(RxEdge)

----------------------------------------------------------------------------
(* Properties *)

\* The byte the receiver holds and the one on the line.
Underway == (IF O_data_ready THEN <<O_dat>> ELSE <<>>) \o flying

\* The bytes the transmitter takes are the bytes the other board reads, in
\* their order: none is lost, mangled, repeated or made up by the drift of
\* the clocks, the moment of an edge or the distance of two bytes.
Link ==
    INSTANCE WordQueue WITH
      Word     <- Byte,
      Capacity <- 2,
      Output   <- Byte,
      in       <- out_byte,
      waiting  <- Underway,
      out      <- got
KeepsBytes == Link!SteadySpec

\* A byte the transmitter took is received.
BytesArrive == flying # <<>> ~> flying = <<>>
=============================================================================
