----------------------------- MODULE UartProofs -----------------------------
(***************************************************************************)
(* Proofs about Uart, for every bit length, every set of bytes and every   *)
(* drift that leaves the receiver inside the bits.                         *)
(*                                                                         *)
(* Both sides are described by counting edges: Sent those of the           *)
(* transmitter since it took the byte, Heard those of the receiver since   *)
(* the one that found the line low.  Their difference is the drift plus    *)
(* the edge at which the start bit was found, which is set once in a byte. *)
(***************************************************************************)
EXTENDS Uart, SequenceTheorems, TLAPS

\* Edges in a bit.
Bit == period + 1

Sent == (out_state - 1) * Bit + out_cnt

Heard ==
    IF in_state = 0 THEN 0
    ELSE IF in_state = 1 THEN 1 + in_cnt ELSE 2 + half + (in_state - 2) * Bit + in_cnt

\* The line in a state of the transmitter, and the pin one edge later.
LineBit(s) == IF s = 1 THEN 0 ELSE IF s \in 2..9 THEN out_byte[s - 2] ELSE 1

PinInv ==
    O_out_pin = IF out_state = 0 THEN 1
                ELSE IF out_cnt = 0 THEN LineBit(out_state - 1) ELSE LineBit(out_state)

\* The program reads in the first edge of the stop bit.
ReadInv == in_state = 10 /\ in_cnt > 0 => ~O_data_ready

\* Nothing on the line, as far as the receiver is concerned.
Quiet ==
    /\ flying = <<>> /\ in_state = 0
    /\ out_state = 0 \/ out_state \in {11, 12} \/ (out_state = 10 /\ out_cnt > 0)
    /\ in_p0 = 1 \/ (in_p1 = 0 /\ lead = Skew /\ out_state = 0)

\* A byte was taken, and the receiver has made no edge since the line is low.
Unseen ==
    /\ flying = <<out_byte>> /\ out_state # 0
    /\ in_state = 0 /\ in_p0 = 1
    /\ Sent - lead \in 0..Skew

\* The receiver is in the byte and has its first bits.
BitsInv ==
    \A j \in DataBits : j < in_state - 2 => in_shift[10 - in_state + j] = out_byte[j]

Seen ==
    /\ flying = <<out_byte>> /\ out_state # 0
    /\ in_state = 0 => in_p0 = 0 /\ in_p1 = 1
    /\ in_state = 1 => in_cnt <= half
    /\ Sent >= 1
    /\ Sent - lead - Heard \in 1..Skew + 1
    /\ BitsInv

UartInv ==
    /\ UartTypeOK /\ out_byte \in Byte
    /\ PinInv /\ ReadInv
    /\ Quiet \/ Unseen \/ Seen

----------------------------------------------------------------------------
(* Counting edges *)

LEMMA Lengths ==
    /\ period \in Nat /\ half \in Nat /\ Skew \in Nat /\ Bit \in Nat
    /\ Bit = period + 1 /\ period > 1 /\ Skew > 0 /\ half + 2 * Skew + 2 <= Bit
    /\ period <= 2 * half + 1 /\ Skew <= half
BY PeriodAssumption DEF half, Bit

\* Of two multiples the larger is a whole bit larger.
LEMMA BitApart ==
    ASSUME NEW b \in Nat, NEW x \in Int, NEW y \in Int, x < y
    PROVE  x * b + b <= y * b
<1>1. (x + 1) * b <= y * b
    <2>1. PICK d \in Nat : y = x + 1 + d
        OBVIOUS
    <2>2. y * b = (x + 1) * b + d * b
        BY <2>1
    <2>3. d * b \in Nat /\ (x + 1) * b \in Int
        OBVIOUS
    <2>4. QED
        BY <2>2, <2>3
<1>2. (x + 1) * b = x * b + b
    OBVIOUS
<1>3. QED
    BY <1>1, <1>2

\* Inside a bit the transmitter's state is that bit's, or just behind it.
LEMMA InsideBit ==
    ASSUME NEW b \in Nat, NEW s \in Int, NEW x \in Int, NEW c \in 0..b - 1,
           (s - 1) * b + 1 <= (x - 1) * b + c, (x - 1) * b + c <= s * b
    PROVE  (x = s /\ c > 0) \/ (x = s + 1 /\ c = 0)
<1>1. ~(x < s)
    <2>1. SUFFICES ASSUME x < s PROVE FALSE
        OBVIOUS
    <2>2. (x - 1) * b + b <= (s - 1) * b
        BY <2>1, BitApart
    <2>3. QED
        BY <2>2
<1>2. ~(x > s + 1)
    <2>1. SUFFICES ASSUME x > s + 1 PROVE FALSE
        OBVIOUS
    <2>2. s * b + b <= (x - 1) * b
        BY <2>1, BitApart
    <2>3. QED
        BY <2>2
<1>3. x = s \/ x = s + 1
    BY <1>1, <1>2
<1>4. x = s + 1 => (x - 1) * b = s * b
    OBVIOUS
<1>5. x = s => (x - 1) * b = (s - 1) * b
    OBVIOUS
<1>6. QED
    BY <1>3, <1>4, <1>5

\* What is on the pin after so many edges.
LEMMA PinAt ==
    ASSUME UartTypeOK, PinInv, out_state # 0, NEW s \in 1..10,
           (s - 1) * Bit + 1 <= Sent, Sent <= s * Bit
    PROVE  O_out_pin = LineBit(s)
<1>1. out_state \in Int /\ out_cnt \in 0..Bit - 1
    BY Lengths DEF UartTypeOK
<1>2. (out_state = s /\ out_cnt > 0) \/ (out_state = s + 1 /\ out_cnt = 0)
    BY <1>1, InsideBit, Lengths DEF Sent
<1>3. QED
    BY <1>2 DEF PinInv

\* How far the receiver is.
LEMMA HeardFacts ==
    ASSUME UartTypeOK
    PROVE  /\ Heard \in Nat /\ Sent \in Int
           /\ in_state = 0 => Heard = 0
           /\ in_state = 1 => Heard = 1 + in_cnt
           /\ in_state \in 2..10 => Heard = 2 + half + (in_state - 2) * Bit + in_cnt
           /\ Heard <= 1 + half + 9 * Bit \/ in_state = 1
<1>1. in_state \in 0..10 /\ in_cnt \in 0..period /\ out_state \in 0..12 /\ out_cnt \in 0..period
    BY DEF UartTypeOK
<1>2. Sent \in Int
    BY <1>1, Lengths DEF Sent
<1>3. CASE in_state = 0
    BY <1>2, <1>3, Lengths DEF Heard
<1>4. CASE in_state = 1
    BY <1>1, <1>2, <1>4, Lengths DEF Heard
<1>5. CASE in_state \in 2..10
    <2>1. Heard = 2 + half + (in_state - 2) * Bit + in_cnt
        BY <1>5 DEF Heard
    <2>2. PICK n \in 0..8 : n = in_state - 2
        BY <1>5
    <2>3. n * Bit \in Nat /\ n * Bit <= 8 * Bit
        BY <2>2, Lengths
    <2>4. QED
        BY <1>1, <1>2, <1>5, <2>1, <2>2, <2>3, Lengths
<1>6. QED
    BY <1>1, <1>3, <1>4, <1>5

----------------------------------------------------------------------------
(* Inside a byte *)

\* The receiver is never more than a bit and a half late: the transmitter is
\* still sending stop bits when the byte is complete.
LEMMA StillSending ==
    ASSUME UartTypeOK, Unseen \/ Seen
    PROVE  out_state \in 1..11
<1>1. out_state \in 0..12 /\ out_state # 0 /\ lead \in -Skew..Skew /\ out_cnt \in 0..period
    BY DEF UartTypeOK, Unseen, Seen
<1>2. Sent <= 10 * Bit
    <2>1. CASE Unseen
        BY <1>1, <2>1, HeardFacts, Lengths DEF Unseen
    <2>2. CASE Seen /\ in_state # 1
        <3>1. Heard <= 1 + half + 9 * Bit /\ Heard \in Nat /\ Sent \in Int
            BY <2>2, HeardFacts
        <3>2. Sent - lead - Heard <= Skew + 1
            BY <2>2, <3>1 DEF Seen
        <3>3. QED
            BY <1>1, <3>1, <3>2, Lengths
    <2>3. CASE Seen /\ in_state = 1
        <3>1. Heard = 1 + in_cnt /\ in_cnt <= half /\ Sent \in Int /\ in_cnt \in Nat
            BY <2>3, HeardFacts DEF Seen, UartTypeOK
        <3>2. Sent - lead - Heard <= Skew + 1
            BY <2>3, <3>1 DEF Seen
        <3>3. QED
            BY <1>1, <3>1, <3>2, Lengths
    <2>4. QED
        BY <2>1, <2>2, <2>3
<1>3. out_state # 12
    BY <1>1, <1>2, Lengths DEF Sent
<1>4. QED
    BY <1>1, <1>3

\* An edge of the transmitter within a byte is one edge more.
LEMMA OneMoreSent ==
    ASSUME UartTypeOK, Transmit, out_state \in 1..11
    PROVE  Sent' = Sent + 1 /\ out_state' # 0
<1>1. out_cnt \in 0..period
    BY DEF UartTypeOK
<1>2. CASE out_cnt = period
    <2>1. out_cnt' = 0 /\ out_state' = out_state + 1
        BY <1>2 DEF Transmit, NextOutState
    <2>2. (out_state + 1 - 1) * Bit = (out_state - 1) * Bit + Bit
        BY Lengths
    <2>3. Sent' = (out_state + 1 - 1) * Bit + 0
        BY <2>1 DEF Sent, Bit
    <2>4. QED
        BY <1>2, <2>1, <2>2, <2>3, Lengths DEF Sent
<1>3. CASE out_cnt # period
    <2>1. out_cnt' = out_cnt + 1 /\ out_state' = out_state
        BY <1>3 DEF Transmit, NextOutState
    <2>2. Sent' = (out_state - 1) * Bit + (out_cnt + 1)
        BY <2>1 DEF Sent, Bit
    <2>3. (out_state - 1) * Bit \in Int
        BY Lengths
    <2>4. QED
        BY <1>1, <2>1, <2>2, <2>3, Lengths DEF Sent
<1>4. QED
    BY <1>2, <1>3

\* Where the transmitter is when the receiver looks at the line.
LEMMA Samples ==
    ASSUME UartTypeOK, Seen, lead > -Skew
    PROVE  /\ in_state = 1 => 1 <= Sent /\ Sent <= Bit
           /\ in_state \in 2..10 /\ in_cnt = period =>
                (in_state - 1) * Bit + 1 <= Sent /\ Sent <= in_state * Bit
<1>1. lead \in -Skew..Skew /\ in_cnt \in 0..period
    BY DEF UartTypeOK
<1>2. Sent \in Int /\ Heard \in Nat /\ Sent >= 1 /\ Sent - lead - Heard \in 1..Skew + 1
    BY HeardFacts DEF Seen
<1>3. ASSUME in_state = 1 PROVE 1 <= Sent /\ Sent <= Bit
    <2>1. Heard = 1 + in_cnt /\ in_cnt <= half
        BY <1>3, HeardFacts DEF Seen
    <2>2. QED
        BY <1>1, <1>2, <2>1, Lengths
<1>4. ASSUME in_state \in 2..10, in_cnt = period
      PROVE  (in_state - 1) * Bit + 1 <= Sent /\ Sent <= in_state * Bit
    <2>1. Heard = 2 + half + (in_state - 2) * Bit + period
        BY <1>4, HeardFacts
    <2>2. PICK n \in Nat : n = (in_state - 2) * Bit
        BY <1>4, Lengths
    <2>3. (in_state - 1) * Bit = n + Bit /\ in_state * Bit = n + 2 * Bit
        BY <1>4, <2>2, Lengths
    <2>4. n + Bit + 1 <= Sent /\ Sent <= n + 2 * Bit
        BY <1>1, <1>2, <2>1, <2>2, Lengths
    <2>5. QED
        BY <2>3, <2>4
<1>5. QED
    BY <1>3, <1>4

----------------------------------------------------------------------------
(* The transmitter's edge *)

LEMMA TransmitPin ==
    ASSUME UartTypeOK, Transmit
    PROVE  PinInv'
<1>1. out_state \in 1..12 /\ out_cnt \in 0..period
    BY DEF UartTypeOK, Transmit
<1>2. O_out_pin' = LineBit(out_state) /\ out_byte' = out_byte
    BY DEF Transmit, ShiftOut, LineBit
<1>3. \A s : LineBit(s)' = LineBit(s)
    BY <1>2 DEF LineBit
<1>4. CASE out_cnt = period /\ out_state = 12
    <2>1. out_state' = 0
        BY <1>4 DEF Transmit, NextOutState
    <2>2. O_out_pin' = 1
        BY <1>2, <1>4 DEF LineBit
    <2>3. QED
        BY <2>1, <2>2 DEF PinInv
<1>5. CASE out_cnt = period /\ out_state # 12
    <2>1. out_state' = out_state + 1 /\ out_cnt' = 0
        BY <1>5 DEF Transmit, NextOutState
    <2>2. QED
        BY <1>1, <1>2, <2>1 DEF PinInv, LineBit
<1>6. CASE out_cnt # period
    <2>1. out_state' = out_state /\ out_cnt' = out_cnt + 1 /\ out_cnt' # 0
        BY <1>1, <1>6, Lengths DEF Transmit, NextOutState
    <2>2. QED
        BY <1>1, <1>2, <2>1 DEF PinInv, LineBit
<1>7. QED
    BY <1>4, <1>5, <1>6

\* What an edge of the transmitter's clock leaves alone.
LEMMA TxLeaves ==
    ASSUME TxEdge
    PROVE  /\ lead < Skew
           /\ UNCHANGED <<in_state, in_cnt, in_shift, in_p0, in_p1, O_data_ready, O_dat, got>>
BY DEF TxEdge, rxVars, frameVars

\* The ways an edge of the transmitter's clock can go.
LEMMA TxCases ==
    ASSUME UartTypeOK, TxEdge
    PROVE  \/ Transmit /\ lead' = lead + 1
           \/ IdleOut /\ lead' = lead + 1
           \/ \E byte \in Byte : AcceptByte(byte) /\ lead' = 0
<1>1. CASE \E byte \in Byte : O_ack' = TRUE /\ AcceptByte(byte)
    <2>1. PICK byte \in Byte : O_ack' = TRUE /\ AcceptByte(byte)
        BY <1>1
    <2>2. lead' = 0
        BY <2>1 DEF TxEdge, AcceptByte
    <2>3. QED
        BY <2>1, <2>2
<1>2. CASE Transmit
    BY <1>2 DEF TxEdge, Transmit
<1>3. CASE O_ack' = FALSE /\ IdleOut
    BY <1>3 DEF TxEdge
<1>4. QED
    BY <1>1, <1>2, <1>3 DEF TxEdge

LEMMA TxType ==
    ASSUME UartTypeOK, out_byte \in Byte, Quiet \/ Unseen \/ Seen, TxEdge
    PROVE  /\ out_state' \in 0..12 /\ out_cnt' \in 0..period /\ O_out_pin' \in {0, 1}
           /\ O_busy_write' \in BOOLEAN /\ O_ack' \in BOOLEAN /\ lead' \in -Skew..Skew
           /\ out_byte' \in Byte
<1>0. /\ out_state \in 0..12 /\ out_cnt \in 0..period /\ O_out_pin \in {0, 1}
      /\ O_busy_write \in BOOLEAN /\ lead \in -Skew..Skew /\ lead < Skew
      /\ out_byte \in [DataBits -> {0, 1}]
    BY DEF UartTypeOK, TxEdge
<1>1. O_ack' \in BOOLEAN
    BY DEF TxEdge
<1>2. lead' \in -Skew..Skew
    <2>1. lead' = lead + 1 \/ lead' = 0
        BY TxCases
    <2>2. QED
        BY <1>0, <2>1, Lengths
<1>3. CASE Transmit
    <2>1. out_state' \in 0..12 /\ out_cnt' \in 0..period
        BY <1>0, <1>3, Lengths DEF Transmit, NextOutState
    <2>2. ShiftOut \in {0, 1}
        BY <1>0 DEF ShiftOut, DataBits
    <2>3. O_out_pin' \in {0, 1} /\ out_byte' \in Byte
        BY <1>3, <2>2 DEF Transmit
    <2>4. O_busy_write' \in BOOLEAN
        BY <1>0, <1>3, Zenon DEF Transmit, StillBusy
    <2>5. QED
        BY <1>1, <1>2, <2>1, <2>3, <2>4
<1>4. CASE IdleOut
    BY <1>0, <1>1, <1>2, <1>4 DEF IdleOut
<1>5. ASSUME NEW byte \in Byte, AcceptByte(byte)
      PROVE  /\ out_state' \in 0..12 /\ out_cnt' \in 0..period /\ O_out_pin' \in {0, 1}
             /\ O_busy_write' \in BOOLEAN /\ out_byte' \in Byte
    BY <1>0, <1>5, Lengths DEF AcceptByte
<1>6. QED
    BY <1>1, <1>2, <1>3, <1>4, <1>5, TxCases

LEMMA TxPhase ==
    ASSUME UartTypeOK, PinInv, Quiet \/ Unseen \/ Seen, TxEdge
    PROVE  (Quiet \/ Unseen \/ Seen)' /\ PinInv'
<1>0. /\ out_state \in 0..12 /\ out_cnt \in 0..period /\ lead \in -Skew..Skew /\ lead < Skew
      /\ UNCHANGED <<in_state, in_cnt, in_shift, in_p0, in_p1>>
    BY TxLeaves DEF UartTypeOK
<1>1. CASE Transmit /\ lead' = lead + 1
    <2>1. PinInv'
        BY <1>1, TransmitPin
    <2>2. out_byte' = out_byte /\ flying' = flying
        BY <1>1 DEF Transmit
    <2>3. CASE Quiet
        <3>1. in_p0 = 1
            BY <1>0, <2>3, <1>1 DEF Quiet, Transmit
        <3>2. out_state' \in {0, 11, 12} \/ (out_state' = 10 /\ out_cnt' > 0)
            BY <1>0, <1>1, <2>3, Lengths DEF Quiet, Transmit, NextOutState
        <3>3. QED
            BY <1>0, <2>1, <2>2, <2>3, <3>1, <3>2 DEF Quiet
    <2>4. CASE Unseen
        <3>1. Sent' = Sent + 1 /\ out_state' # 0 /\ Sent \in Int
            BY <1>1, <2>4, StillSending, OneMoreSent, HeardFacts
        <3>2. Sent' - lead' \in 0..Skew
            BY <1>0, <1>1, <2>4, <3>1, Lengths DEF Unseen
        <3>3. QED
            BY <1>0, <2>1, <2>2, <2>4, <3>1, <3>2 DEF Unseen
    <2>5. CASE Seen
        <3>1. Sent' = Sent + 1 /\ out_state' # 0 /\ Sent \in Int /\ Heard \in Nat
            BY <1>1, <2>5, StillSending, OneMoreSent, HeardFacts
        <3>2. Heard' = Heard
            BY <1>0 DEF Heard, Bit
        <3>3. Sent' - lead' - Heard' \in 1..Skew + 1 /\ Sent' >= 1
            BY <1>0, <1>1, <2>5, <3>1, <3>2, Lengths DEF Seen
        <3>4. BitsInv'
            BY <1>0, <2>2, <2>5 DEF BitsInv, Seen
        <3>5. QED
            BY <1>0, <2>1, <2>2, <2>5, <3>1, <3>3, <3>4 DEF Seen
    <2>6. QED
        BY <2>3, <2>4, <2>5
<1>2. CASE IdleOut /\ lead' = lead + 1
    <2>1. Quiet /\ out_state = 0 /\ in_p0 = 1
        BY <1>0, <1>2 DEF IdleOut, Quiet, Unseen, Seen
    <2>2. Quiet'
        BY <1>0, <1>2, <2>1 DEF IdleOut, Quiet
    <2>3. PinInv'
        BY <1>2, <2>1 DEF IdleOut, PinInv
    <2>4. QED
        BY <2>2, <2>3
<1>3. ASSUME NEW byte \in Byte, AcceptByte(byte), lead' = 0
      PROVE  (Quiet \/ Unseen \/ Seen)' /\ PinInv'
    <2>1. Quiet /\ out_state = 0 /\ in_p0 = 1
        BY <1>0, <1>3 DEF AcceptByte, Quiet, Unseen, Seen
    <2>2. out_state' = 1 /\ out_cnt' = 0 /\ out_byte' = byte /\ O_out_pin' = O_out_pin
        BY <1>3 DEF AcceptByte
    <2>3. flying' = <<out_byte'>>
        BY <1>3, <2>1 DEF AcceptByte, Quiet
    <2>4. Sent' = 0
        BY <2>2, Lengths DEF Sent, Bit
    <2>5. Unseen'
        BY <1>0, <1>3, <2>1, <2>2, <2>3, <2>4, Lengths DEF Unseen, Quiet
    <2>6. O_out_pin = 1
        BY <2>1 DEF PinInv
    <2>7. PinInv'
        BY <2>2, <2>6 DEF PinInv, LineBit
    <2>8. QED
        BY <2>5, <2>7
<1>4. QED
    BY <1>1, <1>2, <1>3, TxCases

----------------------------------------------------------------------------
(* The receiver's edge *)

LEMMA RxLeaves ==
    ASSUME RxEdge
    PROVE  /\ lead > -Skew /\ lead' = lead - 1
           /\ UNCHANGED <<out_state, out_cnt, out_byte, O_out_pin, O_busy_write, O_ack>>
           /\ in_p0' = O_out_pin /\ in_p1' = in_p0
           /\ Sent' = Sent
BY DEF RxEdge, txVars, Sent, Bit

\* Which branch an edge takes is told by in_state.
LEMMA RxCases ==
    ASSUME RxEdge
    PROVE  /\ in_state = 0 => WaitForStart
           /\ in_state = 1 => CheckStart
           /\ in_state \in 2..9 => DataBit
           /\ in_state = 10 => StopBit
BY DEF RxEdge, WaitForStart, CheckStart, DataBit, StopBit

LEMMA RxType ==
    ASSUME UartTypeOK, RxEdge, in_state = 1 => in_cnt <= half
    PROVE  /\ in_state' \in 0..10 /\ in_cnt' \in 0..period /\ lead' \in -Skew..Skew
           /\ in_shift' \in [DataBits -> {0, 1}] /\ O_dat' \in [DataBits -> {0, 1}]
           /\ got' \in [DataBits -> {0, 1}]
           /\ in_p0' \in {0, 1} /\ in_p1' \in {0, 1} /\ O_data_ready' \in BOOLEAN
<1>0. /\ in_state \in 0..10 /\ in_cnt \in 0..period /\ lead \in -Skew..Skew
      /\ in_shift \in [DataBits -> {0, 1}] /\ O_dat \in [DataBits -> {0, 1}]
      /\ got \in [DataBits -> {0, 1}] /\ O_data_ready \in BOOLEAN
      /\ O_out_pin \in {0, 1} /\ in_p0 \in {0, 1}
    BY DEF UartTypeOK
<1>1. lead' \in -Skew..Skew /\ in_p0' \in {0, 1} /\ in_p1' \in {0, 1}
    BY <1>0, RxLeaves, Lengths
<1>2. got' \in [DataBits -> {0, 1}]
    BY <1>0 DEF RxEdge
<1>3. O_data_ready' \in BOOLEAN
    BY Zenon DEF RxEdge, Ready
<1>4. CASE in_state = 0
    <2>1. WaitForStart
        BY <1>4, RxCases
    <2>2. QED
        BY <1>0, <1>1, <1>2, <1>3, <2>1, Lengths DEF WaitForStart
<1>5. CASE in_state = 1
    <2>1. CheckStart
        BY <1>5, RxCases
    <2>2. in_cnt' \in 0..period
        BY <1>0, <1>5, <2>1, Lengths DEF CheckStart, HalfBit
    <2>3. QED
        BY <1>0, <1>1, <1>2, <1>3, <2>1, <2>2 DEF CheckStart
<1>6. CASE in_state \in 2..9
    <2>1. DataBit
        BY <1>6, RxCases
    <2>2. ShiftIn \in [DataBits -> {0, 1}]
        BY <1>0 DEF ShiftIn, DataBits
    <2>3. in_cnt' \in 0..period /\ in_state' \in 0..10
        BY <1>0, <1>6, <2>1, Lengths DEF DataBit, FullBit
    <2>4. in_shift' \in [DataBits -> {0, 1}] /\ O_dat' = O_dat
        BY <1>0, <2>1, <2>2 DEF DataBit
    <2>5. QED
        BY <1>0, <1>1, <1>2, <1>3, <2>3, <2>4
<1>7. CASE in_state = 10
    <2>1. StopBit
        BY <1>7, RxCases
    <2>2. in_cnt' \in 0..period /\ in_state' \in 0..10
        BY <1>0, <1>7, <2>1, Lengths DEF StopBit, FullBit
    <2>3. in_shift' = in_shift /\ (O_dat' = in_shift \/ O_dat' = O_dat)
        BY <2>1 DEF StopBit
    <2>4. QED
        BY <1>0, <1>1, <1>2, <1>3, <2>2, <2>3
<1>8. QED
    BY <1>0, <1>4, <1>5, <1>6, <1>7

\* An edge within a byte: one more heard, and the next bit taken.
LEMMA RxInByte ==
    ASSUME UartTypeOK, PinInv, Seen, RxEdge, ~Complete
    PROVE  /\ Heard' = Heard + 1 /\ in_state' # 0 /\ BitsInv' /\ flying' = flying
           /\ in_state' = 1 => in_cnt' <= half
<1>0. /\ in_state \in 0..10 /\ in_cnt \in 0..period /\ lead > -Skew /\ out_state # 0
      /\ O_out_pin' = O_out_pin /\ out_byte' = out_byte /\ BitsInv
    BY RxLeaves DEF UartTypeOK, Seen
<1>1. CASE in_state = 0
    <2>1. in_state' = 1 /\ in_cnt' = 0 /\ flying' = flying
        BY <1>1, RxCases DEF WaitForStart, Seen
    <2>2. Heard' = 1 /\ Heard = 0
        BY <1>1, <2>1 DEF Heard
    <2>3. BitsInv'
        BY <2>1 DEF BitsInv, DataBits
    <2>4. QED
        BY <2>1, <2>2, <2>3, Lengths
<1>2. CASE in_state = 1
    <2>1. O_out_pin = 0
        <3>1. (1 - 1) * Bit + 1 <= Sent /\ Sent <= 1 * Bit
            BY <1>0, <1>2, Samples, Lengths
        <3>2. O_out_pin = LineBit(1)
            BY <1>0, <3>1, PinAt
        <3>3. QED
            BY <3>2 DEF LineBit
    <2>2. CheckStart /\ in_cnt <= half
        BY <1>2, RxCases DEF Seen
    <2>3. Heard = 1 + in_cnt
        BY <1>2 DEF Heard
    <2>4. CASE in_cnt = half
        <3>1. in_state' = 2 /\ in_cnt' = 0 /\ flying' = flying
            BY <2>1, <2>2, <2>4 DEF CheckStart, HalfBit
        <3>2. Heard' = 2 + half + (2 - 2) * Bit + 0
            BY <3>1 DEF Heard, Bit, half
        <3>3. BitsInv'
            BY <3>1 DEF BitsInv, DataBits
        <3>4. QED
            BY <2>3, <2>4, <3>1, <3>2, <3>3, Lengths
    <2>5. CASE in_cnt # half
        <3>1. in_state' = 1 /\ in_cnt' = in_cnt + 1 /\ flying' = flying
            BY <2>1, <2>2, <2>5 DEF CheckStart, HalfBit
        <3>2. Heard' = 1 + (in_cnt + 1)
            BY <3>1 DEF Heard
        <3>3. BitsInv'
            BY <3>1 DEF BitsInv, DataBits
        <3>4. QED
            BY <1>0, <2>2, <2>3, <2>5, <3>1, <3>2, <3>3, Lengths
    <2>6. QED
        BY <2>4, <2>5
<1>3. CASE in_state \in 2..9 /\ in_cnt = period
    <2>1. O_out_pin = out_byte[in_state - 2]
        <3>1. O_out_pin = LineBit(in_state)
            BY <1>0, <1>3, Samples, PinAt
        <3>2. QED
            BY <1>3, <3>1 DEF LineBit
    <2>2. /\ in_state' = in_state + 1 /\ in_cnt' = 0 /\ in_shift' = ShiftIn
          /\ flying' = flying
        BY <1>3, RxCases DEF DataBit, FullBit
    <2>3. Heard = 2 + half + (in_state - 2) * Bit + period
        BY <1>3, HeardFacts
    <2>4. Heard' = 2 + half + (in_state + 1 - 2) * Bit + 0
        BY <1>3, <2>2 DEF Heard, Bit, half
    <2>5. (in_state + 1 - 2) * Bit = (in_state - 2) * Bit + Bit /\ (in_state - 2) * Bit \in Int
        BY <1>3, Lengths
    <2>6. Heard' = Heard + 1
        BY <2>3, <2>4, <2>5, Lengths
    <2>7. BitsInv'
        <3>1. SUFFICES ASSUME NEW j \in DataBits, j < in_state + 1 - 2
                       PROVE  ShiftIn[10 - (in_state + 1) + j] = out_byte[j]
            BY <1>0, <2>2 DEF BitsInv
        <3>2. PICK i \in DataBits : i = 10 - (in_state + 1) + j
            BY <1>3, <3>1 DEF DataBits
        <3>3. CASE j = in_state - 2
            <4>1. i = 7
                BY <1>3, <3>2, <3>3
            <4>2. QED
                BY <2>1, <3>2, <3>3, <4>1 DEF ShiftIn
        <3>4. CASE j # in_state - 2
            <4>1. i # 7 /\ i + 1 = 10 - in_state + j /\ j < in_state - 2
                BY <1>3, <3>1, <3>2, <3>4 DEF DataBits
            <4>2. in_shift[i + 1] = out_byte[j]
                BY <1>0, <4>1 DEF BitsInv
            <4>3. ShiftIn[i] = in_shift[i + 1]
                BY <4>1 DEF ShiftIn
            <4>4. QED
                BY <3>2, <4>2, <4>3
        <3>5. QED
            BY <3>3, <3>4
    <2>8. QED
        BY <1>3, <2>2, <2>6, <2>7
<1>4. CASE in_state \in 2..10 /\ in_cnt # period
    <2>1. /\ in_state' = in_state /\ in_cnt' = in_cnt + 1 /\ in_shift' = in_shift
          /\ flying' = flying
        <3>1. CASE in_state = 10
            BY <1>4, <3>1, RxCases DEF StopBit, FullBit, Complete
        <3>2. CASE in_state \in 2..9
            BY <1>4, <3>2, RxCases DEF DataBit, FullBit
        <3>3. QED
            BY <1>4, <3>1, <3>2
    <2>2. Heard = 2 + half + (in_state - 2) * Bit + in_cnt
        BY <1>4, HeardFacts
    <2>3. Heard' = 2 + half + (in_state - 2) * Bit + (in_cnt + 1)
        BY <1>4, <2>1 DEF Heard, Bit, half
    <2>4. (in_state - 2) * Bit \in Int
        BY <1>4, Lengths
    <2>5. Heard' = Heard + 1
        BY <1>0, <2>2, <2>3, <2>4, Lengths
    <2>6. BitsInv'
        BY <1>0, <2>1 DEF BitsInv
    <2>7. QED
        BY <1>4, <2>1, <2>5, <2>6
<1>5. CASE in_state = 10 /\ in_cnt = period
    <2>1. O_out_pin = LineBit(10)
        BY <1>0, <1>5, Samples, PinAt
    <2>2. Complete
        BY <1>5, <2>1 DEF Complete, FullBit, LineBit
    <2>3. QED
        BY <2>2
<1>6. QED
    BY <1>0, <1>1, <1>2, <1>3, <1>4, <1>5

\* The edge that completes a byte: all its bits are there, the line is high.
LEMMA RxComplete ==
    ASSUME UartTypeOK, PinInv, Quiet \/ Unseen \/ Seen, RxEdge, Complete
    PROVE  /\ Seen /\ in_shift = out_byte /\ flying' = <<>> /\ O_dat' = out_byte
           /\ Quiet'
<1>1. Seen /\ in_state = 10 /\ in_cnt = period /\ O_out_pin = 1
    BY DEF Complete, FullBit, Quiet, Unseen
<1>2. in_shift = out_byte
    <2>1. \A j \in DataBits : in_shift[j] = out_byte[j]
        <3>1. TAKE j \in DataBits
        <3>2. j < 10 - 2 /\ 10 - 10 + j = j
            BY DEF DataBits
        <3>3. QED
            BY <1>1, <3>2 DEF Seen, BitsInv
    <2>2. in_shift \in [DataBits -> {0, 1}] /\ out_byte \in [DataBits -> {0, 1}]
        BY DEF UartTypeOK
    <2>3. QED
        BY <2>1, <2>2
<1>3. StopBit
    BY <1>1, RxCases
<1>4. in_state' = 0 /\ flying' = <<>> /\ O_dat' = out_byte
    BY <1>1, <1>2, <1>3 DEF StopBit, FullBit
<1>5. (out_state = 10 /\ out_cnt > 0) \/ (out_state = 10 + 1 /\ out_cnt = 0)
    <2>1. (10 - 1) * Bit + 1 <= Sent /\ Sent <= 10 * Bit
        BY <1>1, Samples, RxLeaves
    <2>2. out_state \in Int /\ out_cnt \in 0..Bit - 1
        BY Lengths DEF UartTypeOK
    <2>3. QED
        BY <2>1, <2>2, InsideBit, Lengths DEF Sent
<1>6. in_p0' = 1 /\ UNCHANGED <<out_state, out_cnt>>
    BY <1>1, RxLeaves
<1>7. Quiet'
    BY <1>4, <1>5, <1>6 DEF Quiet
<1>8. QED
    BY <1>1, <1>2, <1>4, <1>7

LEMMA RxPhase ==
    ASSUME UartTypeOK, PinInv, Quiet \/ Unseen \/ Seen, RxEdge, ~Complete
    PROVE  (Quiet \/ Unseen \/ Seen)' /\ UNCHANGED <<flying, O_dat>>
<1>0. /\ lead \in -Skew..Skew /\ lead > -Skew /\ lead' = lead - 1 /\ Sent' = Sent
      /\ in_p0' = O_out_pin /\ in_p1' = in_p0
      /\ UNCHANGED <<out_state, out_cnt, out_byte>>
      /\ in_state \in 0..10 /\ out_state \in 0..12 /\ out_cnt \in 0..period
    BY RxLeaves DEF UartTypeOK
<1>1. O_dat' = O_dat
    BY RxCases DEF RxEdge, WaitForStart, CheckStart, DataBit, StopBit
<1>2. CASE Quiet
    <2>1. O_out_pin = 1
        BY <1>0, <1>2 DEF Quiet, PinInv, LineBit
    <2>2. in_state' = 0 /\ flying' = flying
        BY <1>2, RxCases DEF Quiet, WaitForStart
    <2>3. Quiet'
        BY <1>0, <1>2, <2>1, <2>2 DEF Quiet
    <2>4. QED
        BY <1>1, <2>2, <2>3
<1>3. CASE Unseen
    <2>1. in_state' = 0 /\ flying' = flying /\ in_state = 0
        BY <1>3, RxCases DEF Unseen, WaitForStart
    <2>2. Sent \in Int /\ Sent - lead \in 0..Skew
        BY <1>3, HeardFacts DEF Unseen
    <2>3. CASE Sent = 0
        <3>1. out_state = 1 /\ out_cnt = 0
            <4>1. out_state >= 1 /\ out_state \in Int
                BY <1>0, <1>3 DEF Unseen
            <4>2. out_state > 1 => 0 * Bit + Bit <= (out_state - 1) * Bit
                BY <4>1, BitApart, Lengths
            <4>3. QED
                BY <1>0, <2>3, <4>1, <4>2, Lengths DEF Sent
        <3>2. O_out_pin = 1
            BY <3>1 DEF PinInv, LineBit
        <3>3. Unseen'
            BY <1>0, <1>3, <2>1, <2>2, <2>3, <3>2, Lengths DEF Unseen
        <3>4. QED
            BY <1>1, <2>1, <3>3
    <2>4. CASE Sent >= 1
        <3>1. (1 - 1) * Bit + 1 <= Sent /\ Sent <= 1 * Bit
            BY <1>0, <2>2, <2>4, Lengths
        <3>2. O_out_pin = 0
            <4>1. O_out_pin = LineBit(1)
                BY <1>3, <3>1, PinAt DEF Unseen
            <4>2. QED
                BY <4>1 DEF LineBit
        <3>3. Heard' = 0
            BY <2>1 DEF Heard
        <3>4. Sent' - lead' - Heard' \in 1..Skew + 1
            BY <1>0, <2>2, <3>3, Lengths
        <3>5. BitsInv'
            BY <2>1 DEF BitsInv, DataBits
        <3>6. Seen'
            BY <1>0, <1>3, <2>1, <2>4, <3>2, <3>4, <3>5 DEF Seen, Unseen
        <3>7. QED
            BY <1>1, <2>1, <3>6
    <2>5. Sent >= 0
        <3>1. out_state \in Int /\ out_state >= 1
            BY <1>0, <1>3 DEF Unseen
        <3>2. (out_state - 1) * Bit \in Nat
            BY <3>1, Lengths
        <3>3. QED
            BY <1>0, <3>2 DEF Sent
    <2>6. QED
        BY <2>2, <2>3, <2>4, <2>5
<1>4. CASE Seen
    <2>1. /\ Heard' = Heard + 1 /\ in_state' # 0 /\ BitsInv' /\ flying' = flying
          /\ in_state' = 1 => in_cnt' <= half
        BY <1>4, RxInByte
    <2>2. Heard \in Nat /\ Sent \in Int
        BY HeardFacts
    <2>3. Sent' - lead' - Heard' \in 1..Skew + 1 /\ Sent' >= 1
        BY <1>0, <1>4, <2>1, <2>2 DEF Seen
    <2>4. Seen'
        BY <1>0, <1>4, <2>1, <2>3 DEF Seen, half
    <2>5. QED
        BY <1>1, <2>1, <2>4
<1>5. QED
    BY <1>2, <1>3, <1>4

----------------------------------------------------------------------------
(* The invariant *)

\* No byte or one.
LEMMA OneByte ==
    ASSUME NEW f, NEW b \in Byte, f = <<>> \/ f = <<b>>
    PROVE  f \in Seq(Byte) /\ Len(f) <= 1
<1>1. CASE f = <<>>
    BY <1>1
<1>2. CASE f = <<b>>
    BY <1>2
<1>3. QED
    BY <1>1, <1>2

LEMMA RxRead ==
    ASSUME UartTypeOK, ReadInv, RxEdge
    PROVE  ReadInv'
<1>1. SUFFICES ASSUME in_state' = 10, in_cnt' > 0
               PROVE  ~O_data_ready'
    BY DEF ReadInv
<1>2. in_state \in 0..10
    BY DEF UartTypeOK
<1>3. in_state = 10 /\ ~Complete
    <2>1. CASE in_state = 0
        BY <1>1, <2>1, RxCases DEF WaitForStart
    <2>2. CASE in_state = 1
        BY <1>1, <2>2, RxCases DEF CheckStart
    <2>3. CASE in_state \in 2..9
        BY <1>1, <2>3, RxCases DEF DataBit
    <2>4. CASE in_state = 10
        BY <1>1, <2>4, RxCases DEF StopBit, Complete
    <2>5. QED
        BY <1>2, <2>1, <2>2, <2>3, <2>4
<1>4. PICK read \in BOOLEAN : /\ O_data_ready /\ in_state = 10 => read
                              /\ O_data_ready' = Ready(read)
    BY DEF RxEdge
<1>5. QED
    BY <1>3, <1>4, Zenon DEF Ready

LEMMA UartStep == UartInv /\ [UartNext]_uartVars => UartInv'
<1> SUFFICES ASSUME UartInv, [UartNext]_uartVars PROVE UartInv'
    OBVIOUS
<1>0. UartTypeOK /\ out_byte \in Byte /\ PinInv /\ ReadInv /\ (Quiet \/ Unseen \/ Seen)
    BY DEF UartInv
<1>1. CASE TxEdge
    <2>1. /\ out_state' \in 0..12 /\ out_cnt' \in 0..period /\ O_out_pin' \in {0, 1}
          /\ O_busy_write' \in BOOLEAN /\ O_ack' \in BOOLEAN /\ lead' \in -Skew..Skew
          /\ out_byte' \in Byte
        BY <1>0, <1>1, TxType
    <2>2. (Quiet \/ Unseen \/ Seen)' /\ PinInv'
        BY <1>0, <1>1, TxPhase
    <2>3. UNCHANGED <<in_state, in_cnt, in_shift, in_p0, in_p1, O_data_ready, O_dat, got>>
        BY <1>1, TxLeaves
    <2>4. flying' \in Seq(Byte) /\ Len(flying') <= 1
        <3>1. flying' = <<>> \/ flying' = <<out_byte'>>
            BY <2>2 DEF Quiet, Unseen, Seen
        <3>2. QED
            BY <2>1, <3>1, OneByte
    <2>5. out_byte' \in [DataBits -> {0, 1}]
        BY <2>1, ByteAssumption
    <2>6. UartTypeOK'
        BY <1>0, <2>1, <2>3, <2>4, <2>5 DEF UartTypeOK
    <2>7. ReadInv'
        BY <1>0, <2>3 DEF ReadInv
    <2>8. QED
        BY <2>1, <2>2, <2>6, <2>7 DEF UartInv
<1>2. CASE RxEdge
    <2>1. in_state = 1 => in_cnt <= half
        BY <1>0 DEF Quiet, Unseen, Seen
    <2>2. /\ in_state' \in 0..10 /\ in_cnt' \in 0..period /\ lead' \in -Skew..Skew
          /\ in_shift' \in [DataBits -> {0, 1}] /\ O_dat' \in [DataBits -> {0, 1}]
          /\ got' \in [DataBits -> {0, 1}]
          /\ in_p0' \in {0, 1} /\ in_p1' \in {0, 1} /\ O_data_ready' \in BOOLEAN
        BY <1>0, <1>2, <2>1, RxType
    <2>3. UNCHANGED <<out_state, out_cnt, out_byte, O_out_pin, O_busy_write, O_ack>>
        BY <1>2, RxLeaves
    <2>4. (Quiet \/ Unseen \/ Seen)'
        BY <1>0, <1>2, RxComplete, RxPhase
    <2>5. out_byte' \in Byte
        BY <1>0, <2>3
    <2>6. flying' \in Seq(Byte) /\ Len(flying') <= 1
        <3>1. flying' = <<>> \/ flying' = <<out_byte'>>
            BY <2>4 DEF Quiet, Unseen, Seen
        <3>2. QED
            BY <2>5, <3>1, OneByte
    <2>7. UartTypeOK'
        BY <1>0, <2>2, <2>3, <2>6 DEF UartTypeOK
    <2>8. PinInv'
        BY <1>0, <2>3 DEF PinInv, LineBit
    <2>9. ReadInv'
        BY <1>0, <1>2, RxRead
    <2>10. QED
        BY <2>4, <2>5, <2>7, <2>8, <2>9 DEF UartInv
<1>3. CASE UNCHANGED uartVars
    <2>1. UNCHANGED <<out_state, out_cnt, out_byte, O_out_pin, O_busy_write, O_ack>>
          /\ UNCHANGED <<in_state, in_cnt, in_shift, in_p0, in_p1, O_data_ready, O_dat, got>>
          /\ UNCHANGED <<lead, flying>>
        BY <1>3 DEF uartVars, txVars, rxVars, frameVars
    <2>2. UartTypeOK'
        BY <1>0, <2>1 DEF UartTypeOK
    <2>3. PinInv' /\ ReadInv'
        BY <1>0, <2>1 DEF PinInv, LineBit, ReadInv
    <2>4. Quiet => Quiet'
        BY <2>1 DEF Quiet
    <2>5. Unseen => Unseen'
        BY <2>1 DEF Unseen, Sent, Bit
    <2>6. Seen => Seen'
        BY <2>1 DEF Seen, Sent, Bit, Heard, half, BitsInv
    <2>7. QED
        BY <1>0, <2>1, <2>2, <2>3, <2>4, <2>5, <2>6 DEF UartInv
<1>4. QED
    BY <1>1, <1>2, <1>3 DEF UartNext

LEMMA UartStart == UartInit => UartInv
<1> SUFFICES ASSUME UartInit PROVE UartInv
    OBVIOUS
<1>1. Quiet /\ PinInv /\ ReadInv /\ out_byte \in Byte
    BY DEF UartInit, Quiet, PinInv, ReadInv
<1>2. flying \in Seq(Byte) /\ Len(flying) <= 1
    BY <1>1, OneByte DEF Quiet
<1>3. out_byte \in [DataBits -> {0, 1}] /\ got \in [DataBits -> {0, 1}]
    BY ByteAssumption DEF UartInit
<1>4. /\ out_state \in 0..12 /\ in_state \in 0..10 /\ lead \in -Skew..Skew
      /\ {out_cnt, in_cnt} \subseteq 0..period
      /\ {O_out_pin, in_p0, in_p1} \subseteq {0, 1}
    BY Lengths DEF UartInit
<1>5. {O_busy_write, O_ack, O_data_ready} \subseteq BOOLEAN
    BY Zenon DEF UartInit
<1>6. in_shift \in [DataBits -> {0, 1}] /\ O_dat \in [DataBits -> {0, 1}]
    BY DEF UartInit
<1>7. UartTypeOK
    BY <1>2, <1>3, <1>4, <1>5, <1>6 DEF UartTypeOK
<1>8. QED
    BY <1>1, <1>7 DEF UartInv

LEMMA UartInvAlways == UartSpec => []UartInv
BY UartStart, UartStep, PTL DEF UartSpec

\* Registers, counters and the drift keep their types, and never more than one
\* byte is on the line, for every bit length and every drift that leaves the
\* receiver inside the bits.
THEOREM UartTypeOKThm == UartSpec => []UartTypeOK
<1>1. UartInv => UartTypeOK
    BY DEF UartInv
<1>2. QED
    BY <1>1, UartInvAlways, PTL

----------------------------------------------------------------------------
(* The link is a queue *)

\* Sequences of no more than two bytes.
LEMMA Pair ==
    ASSUME NEW S, NEW x \in S, NEW y \in S,
           NEW s \in Seq(S), Len(s) = 2, s[1] = x, s[2] = y
    PROVE  s = <<x, y>>
<1>1. PICK t : t = <<x, y>>
    OBVIOUS
<1>2. t \in Seq(S) /\ Len(t) = 2 /\ t[1] = x /\ t[2] = y
    BY <1>1
<1>3. \A i \in 1..Len(s) : s[i] = t[i]
    <2>1. \A i \in 1..2 : i = 1 \/ i = 2
        OBVIOUS
    <2>2. QED
        BY <1>2, <2>1
<1>4. s = t
    BY <1>2, <1>3, SeqEqual
<1>5. QED
    BY <1>1, <1>4

LEMMA Joined ==
    ASSUME NEW x, NEW y
    PROVE  /\ <<>> \o <<>> = <<>> /\ <<x>> \o <<>> = <<x>>
           /\ <<>> \o <<y>> = <<y>> /\ <<x>> \o <<y>> = <<x, y>>
<1>1. PICK S : S = {x, y}
    OBVIOUS
<1>2. <<>> \in Seq(S) /\ <<x>> \in Seq(S) /\ <<y>> \in Seq(S) /\ <<x, y>> \in Seq(S)
    BY <1>1
<1>3. /\ <<>> \o <<>> = <<>> /\ <<x>> \o <<>> = <<x>> /\ <<>> \o <<y>> = <<y>>
    BY <1>2, ConcatEmptySeq
<1>4. <<x>> \o <<y>> = <<x, y>>
    <2>1. PICK s, t : s = <<x>> /\ t = <<y>>
        OBVIOUS
    <2>2. s \in Seq(S) /\ t \in Seq(S) /\ Len(s) = 1 /\ Len(t) = 1 /\ s[1] = x /\ t[1] = y
        BY <1>2, <2>1
    <2>3. /\ s \o t \in Seq(S) /\ Len(s \o t) = 2
          /\ (s \o t)[1] = x /\ (s \o t)[2] = y
        BY <2>2, ConcatProperties
    <2>4. QED
        BY <1>1, <2>1, <2>3, Pair
<1>5. QED
    BY <1>3, <1>4

LEMMA SecondAdded ==
    ASSUME NEW S, NEW s \in Seq(S), NEW e \in S
    PROVE  Len(s) = 1 => Append(s, e) = <<s[1], e>>
<1>1. /\ Append(s, e) \in Seq(S) /\ Len(Append(s, e)) = Len(s) + 1
      /\ \A i \in 1..Len(s) : Append(s, e)[i] = s[i]
      /\ Append(s, e)[Len(s) + 1] = e
    BY AppendProperties
<1> HAVE Len(s) = 1
<1>2. s[1] \in S
    BY ElementOfSeq
<1>3. PICK t : t = Append(s, e)
    OBVIOUS
<1>4. t \in Seq(S) /\ Len(t) = 2 /\ t[1] = s[1] /\ t[2] = e
    BY <1>1, <1>3
<1>5. QED
    BY <1>2, <1>3, <1>4, Pair

LEMMA Ends ==
    ASSUME NEW x, NEW y
    PROVE  /\ Append(<<>>, y) = <<y>> /\ Append(<<x>>, y) = <<x, y>>
           /\ Head(<<x>>) = x /\ Head(<<x, y>>) = x
           /\ Tail(<<x>>) = <<>> /\ Tail(<<x, y>>) = <<y>>
           /\ Len(<<>>) = 0 /\ Len(<<x>>) = 1
<1>1. Append(<<>>, y) = <<y>> /\ Append(<<x>>, y) = <<x, y>>
    <2>1. PICK S : S = {x, y}
        OBVIOUS
    <2>2. PICK s : s = <<x>>
        OBVIOUS
    <2>3. s \in Seq(S) /\ Len(s) = 1 /\ s[1] = x /\ y \in S /\ <<x, y>> \in Seq(S)
        BY <2>1, <2>2
    <2>5. Append(s, y) = <<x, y>>
        BY <2>3, SecondAdded
    <2>6. Append(<<>>, y) = <<y>>
        OBVIOUS
    <2>7. QED
        BY <2>2, <2>5, <2>6
<1>2. Head(<<x>>) = x /\ Head(<<x, y>>) = x
    OBVIOUS
<1>3. Tail(<<x>>) = <<>>
    OBVIOUS
<1>4. Tail(<<x, y>>) = <<y>>
    OBVIOUS
<1>5. Len(<<>>) = 0 /\ Len(<<x>>) = 1
    OBVIOUS
<1>6. QED
    BY <1>1, <1>2, <1>3, <1>4, <1>5

\* What is under way, case by case.
LEMMA UnderwayIs ==
    /\ ~O_data_ready /\ flying = <<>> => Underway = <<>>
    /\ O_data_ready /\ flying = <<>> => Underway = <<O_dat>>
    /\ ~O_data_ready /\ flying = <<out_byte>> => Underway = <<out_byte>>
    /\ O_data_ready /\ flying = <<out_byte>> => Underway = <<O_dat, out_byte>>
BY Joined DEF Underway

LEMMA UnderwayBecomes ==
    /\ ~O_data_ready' /\ flying' = <<>> => Underway' = <<>>
    /\ O_data_ready' /\ flying' = <<>> => Underway' = <<O_dat'>>
    /\ ~O_data_ready' /\ flying' = <<out_byte'>> => Underway' = <<out_byte'>>
    /\ O_data_ready' /\ flying' = <<out_byte'>> => Underway' = <<O_dat', out_byte'>>
BY Joined DEF Underway

\* An edge of the transmitter's clock puts a byte in, or does nothing.
LEMMA TxLink ==
    ASSUME UartInv, TxEdge
    PROVE  Link!Put \/ UNCHANGED Link!queueVars
<1>0. UartTypeOK /\ (Quiet \/ Unseen \/ Seen)
    BY DEF UartInv
<1>1. UNCHANGED <<O_data_ready, O_dat, got>>
    BY TxLeaves
<1>2. CASE Transmit \/ IdleOut
    <2>1. UNCHANGED <<out_byte, flying>>
        BY <1>2 DEF Transmit, IdleOut
    <2>2. Underway' = Underway
        BY <1>1, <2>1 DEF Underway
    <2>3. QED
        BY <1>1, <2>1, <2>2 DEF Link!queueVars
<1>3. ASSUME NEW byte \in Byte, AcceptByte(byte) PROVE Link!Put
    <2>1. flying = <<>> /\ out_byte' = byte
        BY <1>0, <1>3 DEF AcceptByte, Quiet, Unseen, Seen
    <2>2. flying' = <<out_byte'>>
        BY <1>3, <2>1 DEF AcceptByte
    <2>3. Len(Underway) < 2 /\ Underway' = Append(Underway, out_byte')
        <3>1. CASE O_data_ready
            <4>1. Underway = <<O_dat>> /\ Underway' = <<O_dat, out_byte'>>
                BY <1>1, <2>1, <2>2, <3>1, UnderwayIs, UnderwayBecomes
            <4>2. QED
                BY <4>1, Ends
        <3>2. CASE ~O_data_ready
            <4>1. Underway = <<>> /\ Underway' = <<out_byte'>>
                BY <1>1, <2>1, <2>2, <3>2, UnderwayIs, UnderwayBecomes
            <4>2. QED
                BY <4>1, Ends
        <3>3. QED
            BY <3>1, <3>2
    <2>4. QED
        BY <1>1, <2>1, <2>3 DEF Link!Put
<1>4. QED
    BY <1>0, <1>2, <1>3, TxCases

\* An edge of the receiver's clock takes the oldest byte out, or does nothing:
\* the byte that is complete moves from the line to the register.
LEMMA RxLink ==
    ASSUME UartInv, RxEdge
    PROVE  Link!Get \/ UNCHANGED Link!queueVars
<1>0. UartTypeOK /\ PinInv /\ ReadInv /\ (Quiet \/ Unseen \/ Seen) /\ O_data_ready \in BOOLEAN
    BY DEF UartInv, UartTypeOK
<1>1. out_byte' = out_byte
    BY RxLeaves
<1>2. PICK read \in BOOLEAN : /\ read => O_data_ready
                              /\ O_data_ready' = Ready(read)
                              /\ got' = IF read THEN O_dat ELSE got
    BY DEF RxEdge
<1>3. CASE Complete
    <2>1. flying = <<out_byte>> /\ flying' = <<>> /\ O_dat' = out_byte
        BY <1>0, <1>3, RxComplete DEF Seen
    <2>2. ~O_data_ready
        <3>1. in_state = 10 /\ in_cnt > 0
            BY <1>3, Lengths DEF Complete, FullBit
        <3>2. QED
            BY <1>0, <3>1 DEF ReadInv
    <2>3. ~read /\ O_data_ready' /\ got' = got
        BY <1>2, <1>3, <2>2, Zenon DEF Ready
    <2>4. Underway = <<out_byte>> /\ Underway' = <<out_byte>>
        BY <2>1, <2>2, <2>3, UnderwayIs, UnderwayBecomes
    <2>5. QED
        BY <1>1, <2>3, <2>4 DEF Link!queueVars
<1>4. CASE ~Complete
    <2>1. UNCHANGED <<flying, O_dat>>
        BY <1>0, <1>4, RxPhase
    <2>2. flying = <<>> \/ flying = <<out_byte>>
        BY <1>0 DEF Quiet, Unseen, Seen
    <2>3. CASE ~read
        <3>1. O_data_ready' = O_data_ready /\ got' = got
            BY <1>0, <1>2, <1>4, <2>3, Zenon DEF Ready
        <3>2. Underway' = Underway
            BY <2>1, <3>1 DEF Underway
        <3>3. QED
            BY <1>1, <3>1, <3>2 DEF Link!queueVars
    <2>4. CASE read
        <3>1. O_data_ready /\ ~O_data_ready' /\ got' = O_dat
            BY <1>2, <2>4, Zenon DEF Ready
        <3>2. Underway # <<>> /\ got' = Head(Underway) /\ Underway' = Tail(Underway)
            <4>1. CASE flying = <<>>
                <5>1. Underway = <<O_dat>> /\ Underway' = <<>>
                    BY <2>1, <3>1, <4>1, UnderwayIs, UnderwayBecomes
                <5>2. QED
                    BY <3>1, <5>1, Ends
            <4>2. CASE flying = <<out_byte>>
                <5>1. Underway = <<O_dat, out_byte>> /\ Underway' = <<out_byte>>
                    BY <1>1, <2>1, <3>1, <4>2, UnderwayIs, UnderwayBecomes
                <5>2. QED
                    BY <3>1, <5>1, Ends
            <4>3. QED
                BY <2>2, <4>1, <4>2
        <3>3. QED
            BY <1>1, <3>2 DEF Link!Get
    <2>5. QED
        BY <2>3, <2>4
<1>5. QED
    BY <1>3, <1>4

\* The transmitter, the line and the receiver are a queue of bytes, for every
\* bit length, every set of bytes and every drift of the clocks that leaves the
\* receiver inside the bits: no byte is lost, mangled, repeated or made up.
THEOREM KeepsBytesThm == UartSpec => KeepsBytes
<1>1. UartInit => Link!QueueInit
    BY Joined DEF UartInit, Link!QueueInit, Underway
<1>2. UartInv /\ [UartNext]_uartVars
        => [Link!Put \/ Link!Get \/ Link!PutAndGet]_(Link!queueVars)
    <2>1. UNCHANGED uartVars => UNCHANGED Link!queueVars
        BY DEF uartVars, txVars, rxVars, Link!queueVars, Underway
    <2>2. QED
        BY <2>1, TxLink, RxLink DEF UartNext
<1>3. QED
    BY <1>1, <1>2, UartInvAlways, PTL DEF UartSpec, KeepsBytes, Link!SteadySpec
=============================================================================
