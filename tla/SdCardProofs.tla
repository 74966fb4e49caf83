---------------------------- MODULE SdCardProofs ----------------------------
(***************************************************************************)
(* Proofs about SdCard on its SpiMaster, for every clock divider, every    *)
(* number of polls and retries, every set of answers of the card, and      *)
(* every number of leading bytes that brings the clocks the card needs.    *)
(*                                                                         *)
(* The SPI master is treated first (SpiInv): where each bit of the byte    *)
(* under way is.  The controller's invariant (SdInv) rests on it: what it  *)
(* has told the card, how often it clocked it, and when it selects it.     *)
(***************************************************************************)
EXTENDS SdCard, SequenceTheorems, TLAPS

----------------------------------------------------------------------------
(* Bytes as sequences of bits *)

\* A byte is a sequence of eight bits.
LEMMA ByteLength ==
  ASSUME NEW byte \in Bytes
  PROVE  byte \in Seq({0, 1}) /\ Len(byte) = 8
<1>1. byte \in Seq({0, 1})
  BY SeqDef DEF Bytes
<1>2. DOMAIN byte = 1..Len(byte) /\ Len(byte) \in Nat
  BY <1>1, LenProperties
<1>3. DOMAIN byte = 1..8
  BY DEF Bytes
<1>4. Len(byte) \in Nat /\ 8 \in 1..Len(byte) /\ (Len(byte) >= 1 => Len(byte) \in 1..8)
  <2>1. 1..8 = 1..Len(byte)
    BY <1>2, <1>3
  <2>2. 8 \in 1..8 /\ (Len(byte) >= 1 => Len(byte) \in 1..Len(byte))
    BY <1>2
  <2>3. QED
    BY <2>1, <2>2, <1>2
<1>5. Len(byte) = 8
  <2>1. \A n \in Nat : 8 \in 1..n /\ (n >= 1 => n \in 1..8) => n = 8
    OBVIOUS
  <2>2. QED
    BY <2>1, <1>4, Zenon
<1>6. QED
  BY <1>1, <1>5

\* A shift drops the first bit and appends the new one, and leaves a byte.
LEMMA ShiftInBits ==
  ASSUME NEW byte \in Bytes, NEW bit \in {0, 1}
  PROVE  /\ ShiftIn(byte, bit) \in Bytes
         /\ \A i \in 1..7 : ShiftIn(byte, bit)[i] = byte[i + 1]
         /\ ShiftIn(byte, bit)[8] = bit
<1>1. byte \in Seq({0, 1}) /\ Len(byte) = 8
  BY ByteLength
<1>2. /\ Tail(byte) \in Seq({0, 1}) /\ Len(Tail(byte)) = 7
      /\ \A i \in 1..7 : Tail(byte)[i] = byte[i + 1]
  <2>1. byte # <<>>
    BY <1>1, EmptySeq
  <2>2. /\ Tail(byte) \in Seq({0, 1}) /\ Len(Tail(byte)) = Len(byte) - 1
        /\ \A i \in 1..Len(Tail(byte)) : Tail(byte)[i] = byte[i + 1]
    BY <2>1, <1>1, HeadTailProperties, Zenon
  <2>3. Len(Tail(byte)) = 7
    BY <2>2, <1>1
  <2>4. QED
    BY <2>2, <2>3
<1>3. /\ ShiftIn(byte, bit) \in Seq({0, 1}) /\ Len(ShiftIn(byte, bit)) = 8
      /\ \A i \in 1..7 : ShiftIn(byte, bit)[i] = Tail(byte)[i]
      /\ ShiftIn(byte, bit)[8] = bit
  <2>1. /\ ShiftIn(byte, bit) \in Seq({0, 1})
        /\ Len(ShiftIn(byte, bit)) = Len(Tail(byte)) + 1
        /\ \A i \in 1..Len(Tail(byte)) : ShiftIn(byte, bit)[i] = Tail(byte)[i]
        /\ ShiftIn(byte, bit)[Len(Tail(byte)) + 1] = bit
    <3> DEFINE Bits == {0, 1}
    <3>1. Tail(byte) \in Seq(Bits) /\ bit \in Bits
      BY <1>2
    <3> HIDE DEF Bits
    <3>2. /\ ShiftIn(byte, bit) \in Seq(Bits)
          /\ Len(ShiftIn(byte, bit)) = Len(Tail(byte)) + 1
          /\ \A i \in 1..Len(Tail(byte)) : ShiftIn(byte, bit)[i] = Tail(byte)[i]
          /\ ShiftIn(byte, bit)[Len(Tail(byte)) + 1] = bit
      BY <3>1, AppendProperties, Zenon DEF ShiftIn
    <3>3. QED
      BY <3>2 DEF Bits
  <2>2. Len(Tail(byte)) = 7 /\ 7 + 1 = 8
    BY <1>2
  <2>3. QED
    BY <2>1, <2>2
<1>4. ShiftIn(byte, bit) \in Bytes
  BY <1>3, LenProperties DEF Bytes
<1>5. QED
  BY <1>2, <1>3, <1>4

\* The bit on the wire is the first one of the byte.
LEMMA HeadBit ==
  ASSUME NEW byte \in Bytes
  PROVE  Head(byte) = byte[1] /\ Head(byte) \in {0, 1} /\ byte[8] \in {0, 1}
BY DEF Bytes

\* The bytes the controller sends are bytes.
LEMMA ByteValues ==
  /\ Zero \in Bytes /\ FF \in Bytes
  /\ \A i \in 1..6 : CMD0[i] \in Bytes
<1>1. Zero \in Bytes /\ FF \in Bytes
  BY DEF Zero, FF, Bytes
<1>2. <<0,1,0,0,0,0,0,0>> \in Bytes /\ <<1,0,0,1,0,1,0,1>> \in Bytes
  BY DEF Bytes
<1>3. QED
  BY <1>1, <1>2 DEF CMD0

----------------------------------------------------------------------------
(* The SPI master *)

SpiNums ==
  /\ state \in {"idle", "pre_start", "start", "write"}
  /\ spi_step \in 0..16 /\ counter \in 0..speed
  /\ buf_out \in Bytes /\ buf_in \in Bytes /\ spi_receive \in Bytes
  /\ answer \in Bytes /\ heard \in Bytes /\ gave \in Bytes
  /\ O_mosi \in {0, 1} /\ O_sck \in {0, 1}
  /\ spi_send \in Bytes

\* The master is busy while a byte is under way, a write is requested only
\* of a master that takes it, and the clock is high after an odd step.
SpiControl ==
  /\ state # "idle" => spi_busy
  /\ spi_write => state = "idle" /\ ~spi_busy
  /\ state = "write" => spi_step \in 1..15 /\ O_sck = spi_step % 2
  /\ state # "write" => O_sck = 0

\* Clock edges of the byte under way that are done.
Rises == IF state = "write" THEN (spi_step + 1) \div 2 ELSE 0
Falls == IF state = "write" THEN spi_step \div 2 ELSE 0

\* With every rise a bit has gone from the front of each side's byte to the
\* end of the other side's; the bit that is next is on the wire while the
\* clock is low.
InFlight ==
  state # "idle" =>
    /\ \A i \in 1..8 : i <= Rises => /\ heard[8 - Rises + i] = spi_send[i]
                                    /\ buf_in[8 - Rises + i] = gave[i]
    /\ \A i \in 1..8 : i > Rises => buf_out[i - Rises] = spi_send[i]
    /\ \A i \in 1..8 : i > Falls => answer[i - Falls] = gave[i]
    /\ O_sck = 0 => O_mosi = spi_send[Rises + 1]

SpiInv == SpiNums /\ SpiControl /\ InFlight /\ BytesExchanged

\* What the SPI master relies on: the controller changes its byte only with a
\* request, and requests a write only of a quiet master.
Requests ==
  /\ spi_write' => Quiet /\ spi_send' \in Bytes
  /\ ~spi_write' => UNCHANGED spi_send

\* The controller keeps its side.
LEMMA ControllerRequests ==
  ASSUME step \in Nat, SdNext
  PROVE  Requests /\ SpiEdge(spi_write, spi_read, spi_send)
<1>1. SpiEdge(spi_write, spi_read, spi_send)
  BY DEF SdNext, ClockEdge, CmdInit
<1>2. Requests
  <2> USE DEF Requests
  <2>1. CASE CmdInit
    BY <2>1 DEF CmdInit
  <2>2. CASE ClockEdge
    <3> USE DEF Send, SendNone
    <3>1. CASE Uninit
      BY <3>1 DEF Uninit
    <3>2. CASE IdleCard
      BY <3>2 DEF IdleCard
    <3>3. CASE RetryInit
      BY <3>3 DEF RetryInit
    <3>4. CASE InitCard
      BY <3>4, ByteValues DEF InitCard
    <3>5. CASE SendCmd
      <4>1. Quiet
        BY <3>5 DEF SendCmd
      <4>2. \/ step < 6 /\ spi_write' = TRUE /\ spi_send' = CMD0[step + 1]
            \/ spi_write' = FALSE /\ spi_send' = spi_send
        BY <3>5 DEF SendCmd
      <4>3. QED
        BY <4>1, <4>2, ByteValues
    <3>6. CASE Cmd0Sent
      BY <3>6, ByteValues DEF Cmd0Sent
    <3>7. CASE Cmd0Dummy
      BY <3>7, ByteValues DEF Cmd0Dummy, Answered
    <3>8. CASE WaitForSpi
      BY <3>8 DEF WaitForSpi, Wait
    <3>9. QED
      BY <2>2, <3>1, <3>2, <3>3, <3>4, <3>5, <3>6, <3>7, <3>8 DEF ClockEdge, Work
  <2>3. QED
    BY <2>1, <2>2 DEF SdNext
<1>3. QED
  BY <1>1, <1>2

\* The steps' numbers and the clock edges they stand for.
LEMMA StepEdges ==
  ASSUME NEW s \in 1..15
  PROVE  /\ s % 2 = 0 => /\ (s + 1) \div 2 = s \div 2
                         /\ ((s + 1) + 1) \div 2 = s \div 2 + 1
                         /\ (s + 1) % 2 = 1 /\ s # 15
                         /\ s \div 2 \in 1..7
         /\ s % 2 = 1 => /\ (s + 1) \div 2 = s \div 2 + 1
                         /\ ((s + 1) + 1) \div 2 = (s + 1) \div 2
                         /\ (s + 1) % 2 = 0
                         /\ s \div 2 \in 0..7
         /\ s % 2 \in {0, 1}
         /\ (s = 15 => (s + 1) \div 2 = 8 /\ s % 2 = 1)
OBVIOUS

\* Idle: the byte is taken, whole, and its first bit put on the wire; or
\* nothing happens, and what was exchanged stays.
LEMMA SpiIdle ==
  ASSUME SpiInv, Requests, Idle(spi_write, spi_send),
         SpiEdge(spi_write, spi_read, spi_send)
  PROVE  SpiInv'
<1>0. state = "idle" /\ O_sck' = 0 /\ UNCHANGED spi_receive
  BY DEF Idle
<1>1. CASE spi_write
  <2>1. ~spi_busy /\ ~Quiet
    BY <1>1 DEF SpiInv, SpiControl, Quiet
  <2>2. Accept(spi_send) /\ ~spi_write' /\ UNCHANGED spi_send
    BY <1>1, <2>1 DEF Idle, Requests
  <2>3. answer' \in Bytes
    BY <2>2, AnswersAssumption DEF Accept
  <2>4. SpiNums'
    BY <2>2, <2>3, <1>0, ByteValues, HeadBit, SpeedAssumption
       DEF SpiInv, SpiNums, Accept
  <2>5. SpiControl'
    BY <2>2, <1>0 DEF Accept, SpiControl
  <2>6. Rises' = 0 /\ Falls' = 0
    BY <2>2 DEF Accept, Rises, Falls
  <2>7. InFlight'
    BY <2>2, <2>6, HeadBit DEF SpiInv, SpiNums, Accept, InFlight
  <2>8. QED
    BY <2>2, <2>4, <2>5, <2>7 DEF SpiInv, Accept, BytesExchanged
<1>2. CASE ~spi_write
  <2>1. StayIdle
    BY <1>2 DEF Idle
  <2>2. SpiNums'
    BY <2>1, <1>0 DEF SpiInv, SpiNums, StayIdle, Requests
  <2>3. SpiControl'
    BY <2>1, <1>0 DEF SpiControl, StayIdle
  <2>4. InFlight'
    BY <2>1, <1>0 DEF StayIdle, InFlight
  <2>5. BytesExchanged'
    <3>1. SUFFICES ASSUME spi_data_ready', ~spi_write'
                   PROVE  heard' = spi_send' /\ spi_receive' = gave'
      BY DEF BytesExchanged
    <3>2. spi_data_ready
      BY <3>1, <1>0 DEF SpiEdge, Finishes
    <3>3. UNCHANGED <<heard, gave, spi_receive, spi_send>>
      BY <3>1, <2>1, <1>0 DEF StayIdle, Requests
    <3>4. heard = spi_send /\ spi_receive = gave
      BY <3>2, <1>0, <1>2 DEF SpiInv, BytesExchanged
    <3>5. QED
      BY <3>3, <3>4
  <2>6. QED
    BY <2>2, <2>3, <2>4, <2>5 DEF SpiInv
<1>3. QED
  BY <1>1, <1>2

\* While a byte is under way no write is requested and the byte stays.
LEMMA ByteStays ==
  ASSUME SpiInv, Requests, state # "idle"
  PROVE  ~spi_write' /\ UNCHANGED spi_send /\ spi_busy
BY DEF SpiInv, SpiControl, Requests, Quiet

\* The pauses before the first and between the other clock edges.
LEMMA SpiPauses ==
  ASSUME SpiInv, Requests, PreStart \/ HalfBit
  PROVE  SpiInv'
<1>1. /\ UNCHANGED <<spi_step, buf_out, buf_in, O_mosi, O_sck, spi_busy,
                     spi_receive, answer, heard, gave>>
      /\ state # "idle" /\ state' # "idle"
      /\ state' \in {"idle", "pre_start", "start", "write"}
      /\ (state' = "write" <=> state = "write")
      /\ counter' \in 0..speed
  BY SpeedAssumption DEF PreStart, HalfBit, SpiInv, SpiNums
<1>2. ~spi_write' /\ UNCHANGED spi_send /\ spi_busy
  BY <1>1, ByteStays
<1>3. SpiNums'
  BY <1>1, <1>2 DEF SpiInv, SpiNums
<1>4. SpiControl'
  BY <1>1, <1>2 DEF SpiInv, SpiControl
<1>5. UNCHANGED <<Rises, Falls>>
  BY <1>1 DEF Rises, Falls
<1>6. InFlight'
  BY <1>1, <1>2, <1>5 DEF SpiInv, InFlight
<1>7. QED
  BY <1>1, <1>3, <1>4, <1>6 DEF SpiInv, BytesExchanged

\* The first rise of the clock moves the first bits.
LEMMA SpiStart ==
  ASSUME SpiInv, Requests, Start
  PROVE  SpiInv'
<1>1. /\ state = "start" /\ state' = "write" /\ spi_step' = 1
      /\ counter' = speed /\ O_sck' = 1
      /\ heard' = ShiftIn(heard, O_mosi)
      /\ buf_out' = ShiftIn(buf_out, buf_out[8])
      /\ buf_in' = ShiftIn(buf_in, answer[1]) /\ answer[1] \in {0, 1}
      /\ UNCHANGED <<O_mosi, spi_busy, spi_receive, answer, gave>>
  BY HeadBit DEF Start, Rise, I_miso, SpiInv, SpiNums
<1>2. ~spi_write' /\ UNCHANGED spi_send /\ spi_busy
  BY <1>1, ByteStays
<1>3. SpiNums'
  BY <1>1, <1>2, ShiftInBits, HeadBit, SpeedAssumption DEF SpiInv, SpiNums
<1>4. SpiControl'
  BY <1>1, <1>2 DEF SpiControl
<1>5. Rises = 0 /\ Falls = 0 /\ Rises' = 1 /\ Falls' = 0
  BY <1>1 DEF Rises, Falls
<1>6. /\ \A i \in 1..8 : buf_out[i] = spi_send[i] /\ answer[i] = gave[i]
      /\ O_mosi = spi_send[1]
  <2>1. /\ \A i \in 1..8 : i > 0 => buf_out[i - 0] = spi_send[i]
        /\ \A i \in 1..8 : i > 0 => answer[i - 0] = gave[i]
        /\ O_mosi = spi_send[0 + 1]
    BY <1>1, <1>5 DEF SpiInv, InFlight, SpiControl
  <2>2. QED
    BY <2>1
<1>7. /\ heard'[8] = spi_send[1] /\ buf_in'[8] = gave[1]
      /\ \A i \in 2..8 : buf_out'[i - 1] = spi_send[i]
  BY <1>1, <1>6, ShiftInBits, HeadBit DEF SpiInv, SpiNums
<1>8. InFlight'
  BY <1>1, <1>2, <1>5, <1>6, <1>7 DEF InFlight
<1>9. QED
  BY <1>1, <1>3, <1>4, <1>8 DEF SpiInv, BytesExchanged

\* A later rise, in an even step, moves the next bits.
LEMMA SpiRise ==
  ASSUME SpiInv, Requests, Toggle, spi_step % 2 = 0
  PROVE  SpiInv'
<1> DEFINE r == Rises
<1>1. /\ state = "write" /\ spi_step \in 1..15 /\ O_sck = 0
      /\ spi_step' = spi_step + 1 /\ spi_step # 15
  BY StepEdges DEF SpiInv, SpiControl, Toggle
<1>2. /\ state' = "write" /\ O_sck' = 1 /\ counter' = speed
      /\ heard' = ShiftIn(heard, O_mosi)
      /\ buf_out' = ShiftIn(buf_out, 0)
      /\ buf_in' = ShiftIn(buf_in, answer[1]) /\ answer[1] \in {0, 1}
      /\ UNCHANGED <<O_mosi, spi_busy, spi_receive, answer, gave>>
  BY <1>1, HeadBit DEF Toggle, Rise, I_miso, LastStep, SpiInv, SpiNums
<1>3. ~spi_write' /\ UNCHANGED spi_send /\ spi_busy
  BY <1>1, ByteStays
<1>4. SpiNums'
  BY <1>1, <1>2, <1>3, ShiftInBits, SpeedAssumption DEF SpiInv, SpiNums
<1>5. SpiControl'
  BY <1>1, <1>2, <1>3, StepEdges DEF SpiControl
<1>6. r \in 1..7 /\ Falls = r /\ Rises' = r + 1 /\ Falls' = r
  BY <1>1, <1>2, StepEdges DEF Rises, Falls
<1> HIDE DEF r
<1>7. /\ \A i \in 1..8 : i <= r => heard[8 - r + i] = spi_send[i] /\ buf_in[8 - r + i] = gave[i]
      /\ \A i \in 1..8 : i > r => buf_out[i - r] = spi_send[i] /\ answer[i - r] = gave[i]
      /\ O_mosi = spi_send[r + 1]
  BY <1>1, <1>6 DEF SpiInv, InFlight, r
<1>8. /\ \A i \in 1..7 : /\ heard'[i] = heard[i + 1] /\ buf_in'[i] = buf_in[i + 1]
                         /\ buf_out'[i] = buf_out[i + 1]
      /\ heard'[8] = O_mosi /\ buf_in'[8] = answer[1]
  BY <1>2, ShiftInBits DEF SpiInv, SpiNums
<1>9. InFlight'
  <2>1. \A i \in 1..8 : i <= r + 1 => /\ heard'[8 - (r + 1) + i] = spi_send[i]
                                     /\ buf_in'[8 - (r + 1) + i] = gave[i]
    <3>1. SUFFICES ASSUME NEW i \in 1..8, i <= r + 1
                   PROVE  /\ heard'[8 - (r + 1) + i] = spi_send[i]
                          /\ buf_in'[8 - (r + 1) + i] = gave[i]
      OBVIOUS
    <3>2. CASE i = r + 1
      <4>1. 8 - (r + 1) + i = 8 /\ i - r = 1 /\ i > r
        BY <3>2, <1>6
      <4>2. QED
        BY <4>1, <3>2, <1>7, <1>8
    <3>3. CASE i <= r
      <4>1. /\ 8 - (r + 1) + i \in 1..7
            /\ (8 - (r + 1) + i) + 1 = 8 - r + i
        BY <3>3, <1>6
      <4>2. QED
        BY <4>1, <3>3, <1>7, <1>8
    <3>4. QED
      BY <3>1, <3>2, <3>3, <1>6
  <2>2. \A i \in 1..8 : i > r + 1 => buf_out'[i - (r + 1)] = spi_send[i]
    <3>1. SUFFICES ASSUME NEW i \in 1..8, i > r + 1
                   PROVE  buf_out'[i - (r + 1)] = spi_send[i]
      OBVIOUS
    <3>2. i - (r + 1) \in 1..7 /\ (i - (r + 1)) + 1 = i - r /\ i > r
      BY <3>1, <1>6
    <3>3. QED
      BY <3>2, <1>7, <1>8
  <2>3. QED
    BY <2>1, <2>2, <1>2, <1>3, <1>6, <1>7 DEF InFlight
<1>10. QED
  BY <1>2, <1>4, <1>5, <1>9 DEF SpiInv, BytesExchanged

\* A fall, in an odd step, puts the next bits on the wires; after the last one
\* both sides have the whole byte.
LEMMA SpiFall ==
  ASSUME SpiInv, Requests, Toggle, spi_step % 2 = 1
  PROVE  SpiInv'
<1> DEFINE f == Falls
<1>1. /\ state = "write" /\ spi_step \in 1..15 /\ O_sck = 1
      /\ spi_step' = spi_step + 1
  BY DEF SpiInv, SpiControl, Toggle
<1>2. /\ O_sck' = 0 /\ counter' = speed
      /\ answer' = ShiftIn(answer, 1)
      /\ O_mosi' = buf_out[1] /\ buf_out[1] \in {0, 1}
      /\ UNCHANGED <<buf_out, buf_in, heard, spi_busy, gave>>
  BY <1>1, HeadBit DEF Toggle, Fall, ShiftIn, SpiInv, SpiNums
<1>3. ~spi_write' /\ UNCHANGED spi_send /\ spi_busy
  BY <1>1, ByteStays
<1>4. \/ spi_step = 15 /\ state' = "idle" /\ spi_receive' = buf_in
      \/ spi_step # 15 /\ state' = "write" /\ spi_receive' = spi_receive
  BY <1>1 DEF Toggle, LastStep
<1>5. SpiNums'
  BY <1>1, <1>2, <1>3, <1>4, ShiftInBits, SpeedAssumption DEF SpiInv, SpiNums
<1>6. SpiControl'
  BY <1>1, <1>2, <1>3, <1>4, StepEdges DEF SpiControl
<1>7. f \in 0..7 /\ Rises = f + 1
  BY <1>1, StepEdges DEF Rises, Falls
<1>8. state' # "idle" => Rises' = f + 1 /\ Falls' = f + 1 /\ f # 7
  BY <1>1, <1>4, StepEdges DEF Rises, Falls
<1>9. spi_step = 15 => f = 7
  BY <1>1, StepEdges DEF Falls
<1> HIDE DEF f
<1>10. /\ \A i \in 1..8 : i <= f + 1 => /\ heard[8 - (f + 1) + i] = spi_send[i]
                                       /\ buf_in[8 - (f + 1) + i] = gave[i]
       /\ \A i \in 1..8 : i > f + 1 => buf_out[i - (f + 1)] = spi_send[i]
       /\ \A i \in 1..8 : i > f => answer[i - f] = gave[i]
  BY <1>1, <1>7 DEF SpiInv, InFlight, f
<1>11. InFlight'
  <2>1. SUFFICES ASSUME state' # "idle" PROVE InFlight'
    BY DEF InFlight
  <2>2. \A i \in 1..8 : i > f + 1 => answer'[i - (f + 1)] = gave[i]
    <3>1. SUFFICES ASSUME NEW i \in 1..8, i > f + 1
                   PROVE  answer'[i - (f + 1)] = gave[i]
      OBVIOUS
    <3>2. i - (f + 1) \in 1..7 /\ (i - (f + 1)) + 1 = i - f /\ i > f
      BY <3>1, <1>7
    <3>3. answer'[i - (f + 1)] = answer[i - f]
      BY <3>2, <1>2, ShiftInBits DEF SpiInv, SpiNums
    <3>4. QED
      BY <3>2, <3>3, <1>10
  <2>3. buf_out[1] = spi_send[(f + 1) + 1]
    <3>1. (f + 1) + 1 \in 1..8 /\ (f + 1) + 1 > f + 1 /\ ((f + 1) + 1) - (f + 1) = 1
      BY <2>1, <1>7, <1>8
    <3>2. QED
      BY <3>1, <1>10
  <2>4. QED
    BY <2>1, <2>2, <2>3, <1>2, <1>3, <1>8, <1>10 DEF InFlight
<1>12. BytesExchanged'
  <2>1. SUFFICES ASSUME state' = "idle"
                 PROVE  heard' = spi_send' /\ spi_receive' = gave'
    BY DEF BytesExchanged
  <2>2. f = 7 /\ spi_receive' = buf_in
    BY <2>1, <1>4, <1>9
  <2>3. \A i \in 1..8 : heard[i] = spi_send[i] /\ buf_in[i] = gave[i]
    <3>1. TAKE i \in 1..8
    <3>2. i <= f + 1 /\ 8 - (f + 1) + i = i
      BY <2>2
    <3>3. QED
      BY <3>2, <1>10
  <2>4. heard = spi_send /\ buf_in = gave
    BY <2>3 DEF SpiInv, SpiNums, Bytes
  <2>5. QED
    BY <2>2, <2>4, <1>2, <1>3
<1>13. QED
  BY <1>5, <1>6, <1>11, <1>12 DEF SpiInv

\* The SPI master keeps its invariant on every clock edge.
LEMMA SpiEdgeInv ==
  ASSUME SpiInv, Requests, SpiEdge(spi_write, spi_read, spi_send)
  PROVE  SpiInv'
<1>1. CASE Idle(spi_write, spi_send)
  BY <1>1, SpiIdle
<1>2. CASE PreStart
  BY <1>2, SpiPauses
<1>3. CASE Start
  BY <1>3, SpiStart
<1>4. CASE HalfBit
  BY <1>4, SpiPauses
<1>5. CASE Toggle
  <2>1. spi_step % 2 \in {0, 1}
    BY <1>5, StepEdges DEF Toggle, SpiInv, SpiControl
  <2>2. QED
    BY <2>1, <1>5, SpiRise, SpiFall
<1>6. QED
  BY <1>1, <1>2, <1>3, <1>4, <1>5 DEF SpiEdge

----------------------------------------------------------------------------
(* The controller *)

SdNums ==
  /\ sd_state \in {"uninit", "init_card", "send_cmd", "cmd0_sent",
                   "cmd0_dummy", "retry_init", "idle"}
  /\ step \in 0..InitBytes /\ dummy_send \in 0..Polls
  /\ retry_count \in 0..(MaxRetries + 1)
  /\ sd_state # "uninit" => retry_count <= MaxRetries
  /\ clocks \in 0..ClocksNeeded
  /\ told \in Seq(Bytes)

\* When the card is selected.  The master rests when an answer was the last.
SelectInv ==
  /\ sd_state = "uninit" => O_cs_n
  /\ sd_state = "init_card" => (O_cs_n <=> step # 0)
  /\ sd_state \notin {"uninit", "init_card"} => ~O_cs_n
  /\ sd_state \in {"idle", "retry_init"} => state = "idle" /\ ~spi_write

Pending == IF spi_write THEN 1 ELSE 0

\* What the selected card was told, how much, and which byte is the next.
ToldBytes == \A i \in 1..Len(told) : IF i <= 6 THEN told[i] = CMD0[i] ELSE told[i] = FF
ToldInv ==
  /\ spi_write /\ ~O_cs_n =>
       spi_send = IF Len(told) < 6 THEN CMD0[Len(told) + 1] ELSE FF
  /\ Len(told) <= 6 + Polls + 1
  /\ sd_state = "init_card" /\ step <= 1 => told = <<>>
  /\ sd_state = "init_card" /\ step = 0 => ~spi_write
  /\ sd_state = "send_cmd" => step <= 6 /\ Len(told) + Pending = step
  /\ sd_state = "cmd0_sent" => Len(told) = 6 /\ ~spi_write
  /\ sd_state = "cmd0_dummy" => Len(told) + Pending = 7 + (Polls - dummy_send)
  /\ sd_state = "idle" => Len(told) > 6 /\ spi_receive = R1_IDLE

\* Rises still to come of the byte requested or under way.
ToRise == IF spi_write THEN 8 ELSE IF state = "idle" THEN 0 ELSE 8 - Rises

\* The card has its clocks, or will have them from the leading bytes.
ClocksInv ==
  /\ told # <<>> \/ ~O_cs_n => clocks = ClocksNeeded
  /\ sd_state \notin {"uninit", "init_card"} => clocks = ClocksNeeded
  /\ sd_state = "init_card" =>
       \/ clocks = ClocksNeeded
       \/ step >= 1 /\ clocks + ToRise + 8 * (step - 1) >= 8 * (InitBytes - 1)

SdInv == SpiInv /\ SdNums /\ SelectInv /\ ToldBytes /\ ToldInv /\ ClocksInv

\* A master without a request rests.
LEMMA MasterRests ==
  ASSUME state = "idle", ~spi_write, SpiEdge(spi_write, spi_read, spi_send)
  PROVE  state' = "idle" /\ O_sck' = 0 /\ UNCHANGED spi_receive
BY DEF SpiEdge, Idle, StayIdle, PreStart, Start, HalfBit, Toggle

Rising == O_sck = 0 /\ O_sck' = 1

\* Every edge takes the rises it makes from those to come; a request adds the
\* eight of a byte.
LEMMA RisesToCome ==
  ASSUME SpiInv, Requests, SpiEdge(spi_write, spi_read, spi_send)
  PROVE  /\ ToRise \in 0..8
         /\ ~spi_write' => ToRise' = ToRise - (IF Rising THEN 1 ELSE 0)
         /\ spi_write' => ToRise = 0 /\ ToRise' = 8 /\ ~Rising
<1>1. Rises \in 0..8 /\ (state = "write" => Rises \in 1..8)
  <2>1. CASE state = "write"
    <3>1. spi_step \in 1..15
      BY <2>1 DEF SpiInv, SpiControl
    <3>2. QED
      BY <3>1, <2>1 DEF Rises
  <2>2. QED
    BY <2>1 DEF Rises
<1>2. CASE spi_write'
  <2>1. ~spi_write /\ state = "idle"
    BY <1>2 DEF Requests, Quiet, SpiInv, SpiControl
  <2>2. state' = "idle" /\ O_sck' = 0
    BY <2>1, MasterRests
  <2>3. QED
    BY <1>2, <2>1, <2>2 DEF ToRise, Rising
<1>3. CASE ~spi_write'
  <2>1. CASE state = "idle" /\ ~spi_write
    BY <1>3, <2>1, MasterRests DEF ToRise, Rising
  <2>2. CASE state = "idle" /\ spi_write
    <3>1. state' = "pre_start" /\ O_sck' = 0
      BY <2>2 DEF SpiEdge, Idle, Accept, PreStart, Start, HalfBit, Toggle, SpiInv, SpiControl
    <3>2. QED
      BY <1>3, <2>2, <3>1 DEF ToRise, Rising, Rises
  <2>3. CASE PreStart \/ HalfBit
    <3>1. /\ state # "idle" /\ state' # "idle" /\ UNCHANGED <<O_sck, spi_step>>
          /\ (state' = "write" <=> state = "write")
      BY <2>3 DEF PreStart, HalfBit
    <3>2. ~spi_write
      BY <3>1 DEF SpiInv, SpiControl
    <3>3. QED
      BY <3>1, <3>2, <1>1, <1>3 DEF ToRise, Rising, Rises, SpiInv, SpiNums
  <2>4. CASE Start
    <3>1. state = "start" /\ state' = "write" /\ spi_step' = 1 /\ O_sck = 0 /\ O_sck' = 1
      BY <2>4 DEF Start, SpiInv, SpiControl
    <3>2. ~spi_write
      BY <3>1 DEF SpiInv, SpiControl
    <3>3. QED
      BY <3>1, <3>2, <1>3 DEF ToRise, Rising, Rises
  <2>5. CASE Toggle
    <3>1. /\ state = "write" /\ spi_step \in 1..15 /\ O_sck = spi_step % 2
          /\ spi_step' = spi_step + 1 /\ O_sck' = 1 - O_sck
          /\ state' = (IF spi_step = 15 THEN "idle" ELSE "write")
      BY <2>5 DEF Toggle, LastStep, SpiInv, SpiControl
    <3>2. ~spi_write
      BY <3>1 DEF SpiInv, SpiControl
    <3>3. ToRise = 8 - (spi_step + 1) \div 2
      BY <3>1, <3>2 DEF ToRise, Rises
    <3>4. ToRise' = 8 - ((spi_step + 1) + 1) \div 2 \/ (spi_step = 15 /\ ToRise' = 0)
      BY <3>1, <1>3 DEF ToRise, Rises
    <3>5. QED
      BY <3>1, <3>3, <3>4, <1>1, <1>3, StepEdges DEF Rising, Rises
  <2>6. QED
    BY <2>1, <2>2, <2>3, <2>4, <2>5 DEF SpiEdge, Idle
<1>4. ToRise \in 0..8
  BY <1>1 DEF ToRise
<1>5. QED
  BY <1>2, <1>3, <1>4

\* What a clock edge adds to what the card was told.
ToldStep ==
  /\ told' \in Seq(Bytes) /\ Len(told') \in Nat /\ Len(told) \in Nat
  /\ Len(told') = IF O_cs_n THEN 0 ELSE Len(told) + Pending
  /\ Len(told') = 0 => told' = <<>>
  /\ O_cs_n => told' = <<>>
  /\ ~O_cs_n /\ ~spi_write => told' = told

\* The card is told the byte that is requested, if it is selected.
LEMMA ToldGrows ==
  ASSUME SdInv, CardSees
  PROVE  ToldStep /\ ToldBytes'
<1>1. Accepts(spi_write) <=> spi_write
  BY DEF Accepts, SdInv, SpiInv, SpiControl
<1>2. told \in Seq(Bytes) /\ spi_send \in Bytes /\ Len(told) \in Nat
  BY DEF SdInv, SdNums, SpiInv, SpiNums
<1>3. CASE O_cs_n
  <2>1. told' = <<>>
    BY <1>3 DEF CardSees
  <2>2. QED
    BY <2>1, <1>2, <1>3 DEF ToldStep, ToldBytes
<1>4. CASE ~O_cs_n /\ spi_write
  <2>1. told' = Append(told, spi_send)
    BY <1>1, <1>4 DEF CardSees
  <2>2. /\ told' \in Seq(Bytes) /\ Len(told') = Len(told) + 1
        /\ \A i \in 1..Len(told) : told'[i] = told[i]
        /\ told'[Len(told) + 1] = spi_send
    BY <2>1, <1>2
  <2>3. /\ spi_send = IF Len(told) < 6 THEN CMD0[Len(told) + 1] ELSE FF
        /\ \A i \in 1..Len(told) : IF i <= 6 THEN told[i] = CMD0[i] ELSE told[i] = FF
    BY <1>4 DEF SdInv, ToldBytes, ToldInv
  <2>4. ASSUME NEW i \in 1..Len(told')
        PROVE  IF i <= 6 THEN told'[i] = CMD0[i] ELSE told'[i] = FF
    <3>1. CASE i = Len(told) + 1
      BY <3>1, <2>2, <2>3, <1>2
    <3>2. CASE i # Len(told) + 1
      <4>1. i \in 1..Len(told)
        BY <3>2, <2>2, <1>2
      <4>2. QED
        BY <4>1, <2>2, <2>3
    <3>3. QED
      BY <3>1, <3>2
  <2>5. ToldBytes'
    BY <2>4 DEF ToldBytes
  <2>6. ToldStep
    BY <2>2, <1>2, <1>4 DEF ToldStep, Pending
  <2>7. QED
    BY <2>5, <2>6
<1>5. CASE ~O_cs_n /\ ~spi_write
  <2>1. told' = told
    BY <1>1, <1>5 DEF CardSees
  <2>2. QED
    BY <2>1, <1>2, <1>5 DEF ToldStep, Pending, SdInv, ToldBytes
<1>6. QED
  BY <1>3, <1>4, <1>5

\* What a clock edge adds to the clocks a deselected card saw.
ClocksStep ==
  /\ clocks' \in 0..ClocksNeeded
  /\ clocks = ClocksNeeded => clocks' = ClocksNeeded
  /\ ToRise \in 0..8 /\ ToRise' \in Int
  /\ O_cs_n => \/ clocks' = ClocksNeeded
               \/ ~spi_write' /\ clocks' + ToRise' = clocks + ToRise
               \/ spi_write' /\ clocks' + ToRise' = clocks + ToRise + 8

\* Every rise counts while the card is deselected and needs clocks.
LEMMA ClocksGrow ==
  ASSUME SdInv, Requests, SpiEdge(spi_write, spi_read, spi_send), CardSees
  PROVE  ClocksStep
<1>1. SpiInv /\ clocks \in 0..ClocksNeeded
  BY DEF SdInv, SdNums
<1>2. clocks' = IF Rising /\ O_cs_n /\ clocks < ClocksNeeded THEN clocks + 1 ELSE clocks
  BY DEF CardSees, Rising
<1>3. /\ ToRise \in 0..8
      /\ ~spi_write' => ToRise' = ToRise - (IF Rising THEN 1 ELSE 0)
      /\ spi_write' => ToRise = 0 /\ ToRise' = 8 /\ ~Rising
  BY <1>1, RisesToCome
<1>4. CASE spi_write'
  BY <1>1, <1>2, <1>3, <1>4 DEF ClocksNeeded, ClocksStep
<1>5. CASE ~spi_write' /\ Rising
  BY <1>1, <1>2, <1>3, <1>5 DEF ClocksNeeded, ClocksStep
<1>6. CASE ~spi_write' /\ ~Rising
  BY <1>1, <1>2, <1>3, <1>6 DEF ClocksNeeded, ClocksStep
<1>7. QED
  BY <1>4, <1>5, <1>6

\* The leading bytes outnumber the steps of the command.
LEMMA LeadingBytes == InitBytes \in Nat /\ InitBytes >= 7
BY CountAssumption DEF ClocksNeeded

\* All of it, for a clock edge.
LEMMA EdgeFacts ==
  ASSUME SdInv, ClockEdge
  PROVE  SpiInv' /\ ToldBytes' /\ ToldStep /\ ClocksStep
<1>1. step \in Nat
  BY DEF SdInv, SdNums
<1>2. SdNext /\ CardSees /\ SpiInv
  BY DEF SdNext, ClockEdge, SdInv
<1>3. Requests /\ SpiEdge(spi_write, spi_read, spi_send)
  BY <1>1, <1>2, ControllerRequests
<1>4. SpiInv'
  BY <1>2, <1>3, SpiEdgeInv
<1>5. QED
  BY <1>2, <1>3, <1>4, ToldGrows, ClocksGrow

\* The edges that leave the card unselected or idle, and the failed try.
LEMMA SdRests ==
  ASSUME SdInv, ClockEdge, Uninit \/ IdleCard \/ RetryInit
  PROVE  SdInv'
<1>1. SpiInv' /\ ToldBytes' /\ ToldStep /\ ClocksStep
  BY EdgeFacts
<1>2. SpiInv /\ SdNums /\ SelectInv /\ ToldInv /\ ClocksInv
  BY DEF SdInv
<1>3. SpiEdge(spi_write, spi_read, spi_send)
  BY DEF ClockEdge
<1>4. /\ ~spi_write' /\ UNCHANGED <<spi_send, dummy_send>>
      /\ \/ sd_state = "uninit" /\ O_cs_n' /\ UNCHANGED <<sd_state, step, retry_count>>
         \/ sd_state = "idle" /\ ~O_cs_n' /\ UNCHANGED <<sd_state, step, retry_count>>
         \/ /\ sd_state = "retry_init" /\ O_cs_n' /\ retry_count' = retry_count + 1
            /\ \/ retry_count = MaxRetries /\ sd_state' = "uninit" /\ UNCHANGED step
               \/ retry_count # MaxRetries /\ sd_state' = "init_card" /\ step' = 2
  BY DEF Uninit, IdleCard, RetryInit, Deselect, SendNone
<1>5. SdNums'
  BY <1>1, <1>2, <1>4, LeadingBytes, CountAssumption DEF SdNums, ToldStep, ClocksStep
<1>6. SelectInv'
  BY <1>2, <1>3, <1>4, MasterRests DEF SelectInv, SdNums
<1>7. ToldInv'
  BY <1>1, <1>2, <1>3, <1>4, MasterRests, CountAssumption
     DEF ToldInv, ToldStep, SdNums, SelectInv, Pending
<1>8. ClocksInv'
  BY <1>1, <1>2, <1>4, CountAssumption
     DEF ClocksInv, ToldStep, ClocksStep, SelectInv, SdNums, ClocksNeeded
<1>9. QED
  BY <1>1, <1>5, <1>6, <1>7, <1>8 DEF SdInv

\* Waiting for the master changes nothing but what the card hears.
LEMMA SdWaits ==
  ASSUME SdInv, ClockEdge, WaitForSpi
  PROVE  SdInv'
<1>1. SpiInv' /\ ToldBytes' /\ ToldStep /\ ClocksStep
  BY EdgeFacts
<1>2. SpiInv /\ SdNums /\ SelectInv /\ ToldInv /\ ClocksInv
  BY DEF SdInv
<1>3. SpiEdge(spi_write, spi_read, spi_send)
  BY DEF ClockEdge
<1>4. /\ ~spi_write' /\ UNCHANGED <<spi_send, dummy_send, sd_state, step, retry_count, O_cs_n>>
      /\ sd_state \in {"init_card", "send_cmd", "cmd0_sent", "cmd0_dummy"}
  BY DEF WaitForSpi, Wait, SendNone
<1>5. SdNums'
  BY <1>1, <1>2, <1>4, LeadingBytes, CountAssumption DEF SdNums, ToldStep, ClocksStep
<1>6. SelectInv'
  BY <1>2, <1>3, <1>4, MasterRests DEF SelectInv, SdNums
<1>7. ToldInv'
  BY <1>1, <1>2, <1>3, <1>4, MasterRests, CountAssumption
     DEF ToldInv, ToldStep, SdNums, SelectInv, Pending
<1>8. ClocksInv'
  <2>1. told' # <<>> \/ ~O_cs_n' => clocks' = ClocksNeeded
    BY <1>1, <1>2, <1>4 DEF ClocksInv, ToldStep, ClocksStep
  <2>2. sd_state' # "init_card" => clocks' = ClocksNeeded
    BY <1>1, <1>2, <1>4 DEF ClocksInv, ClocksStep
  <2>3. ASSUME sd_state' = "init_card", clocks' # ClocksNeeded
        PROVE  step' >= 1 /\ clocks' + ToRise' + 8 * (step' - 1) >= 8 * (InitBytes - 1)
    <3>1. step >= 1 /\ clocks + ToRise + 8 * (step - 1) >= 8 * (InitBytes - 1)
      BY <2>3, <1>1, <1>2, <1>4 DEF ClocksInv, ClocksStep
    <3>2. clocks' + ToRise' = clocks + ToRise
      <4>1. O_cs_n
        BY <2>3, <3>1, <1>2, <1>4 DEF SelectInv, SdNums
      <4>2. QED
        BY <4>1, <2>3, <1>1, <1>4 DEF ClocksStep
    <3>3. QED
      BY <3>1, <3>2, <1>1, <1>2, <1>4, LeadingBytes DEF ClocksStep, SdNums
  <2>4. QED
    BY <2>1, <2>2, <2>3, <1>4 DEF ClocksInv
<1>9. QED
  BY <1>1, <1>5, <1>6, <1>7, <1>8 DEF SdInv

\* The leading bytes are sent deselected; the card is selected when the last
\* of them has ended.
LEMMA SdInitCard ==
  ASSUME SdInv, ClockEdge, InitCard
  PROVE  SdInv'
<1>1. SpiInv' /\ ToldBytes' /\ ToldStep /\ ClocksStep
  BY EdgeFacts
<1>2. SpiInv /\ SdNums /\ SelectInv /\ ToldInv /\ ClocksInv
  BY DEF SdInv
<1>3. SpiEdge(spi_write, spi_read, spi_send)
  BY DEF ClockEdge
<1>4. /\ sd_state = "init_card" /\ ~spi_write /\ state = "idle" /\ ToRise = 0
      /\ UNCHANGED <<retry_count, dummy_send>>
      /\ \/ /\ step > 1 /\ step' = step - 1 /\ O_cs_n' /\ spi_write'
            /\ sd_state' = "init_card"
         \/ /\ step = 1 /\ step' = 0 /\ ~O_cs_n' /\ ~spi_write'
            /\ sd_state' = "init_card"
         \/ /\ step = 0 /\ step' = 0 /\ O_cs_n' = O_cs_n /\ ~spi_write'
            /\ sd_state' = "send_cmd"
  BY <1>2 DEF InitCard, Quiet, Deselect, Send, SendNone, ToRise, SpiInv, SpiControl
<1>5. SdNums'
  BY <1>1, <1>2, <1>4, LeadingBytes, CountAssumption DEF SdNums, ToldStep, ClocksStep
<1>6. SelectInv'
  BY <1>2, <1>3, <1>4, MasterRests DEF SelectInv, SdNums
<1>7. ToldInv'
  <2>1. CASE step > 1
    <3>1. told' = <<>> /\ Len(told') = 0
      BY <1>1, <1>2, <1>4, <2>1 DEF ToldStep, SelectInv
    <3>2. sd_state' = "init_card" /\ O_cs_n' /\ step' # 0
      BY <1>2, <1>4, <2>1 DEF SdNums
    <3>3. QED
      BY <3>1, <3>2, CountAssumption DEF ToldInv
  <2>2. CASE step = 1
    BY <1>1, <1>2, <1>4, <2>2, CountAssumption
       DEF ToldInv, ToldStep, SdNums, SelectInv, Pending
  <2>3. CASE step = 0
    <3>1. told = <<>> /\ told' = told /\ Len(told) = 0
      BY <1>1, <1>2, <1>4, <2>3 DEF ToldInv, ToldStep, SelectInv
    <3>2. QED
      BY <3>1, <1>4, <2>3, CountAssumption DEF ToldInv, Pending
  <2>4. QED
    BY <2>1, <2>2, <2>3, <1>4
<1>8. ClocksInv'
  <2>1. CASE step > 1
    <3>1. O_cs_n /\ told' = <<>>
      BY <2>1, <1>1, <1>2, <1>4 DEF SelectInv, ToldStep
    <3>2. clocks' = ClocksNeeded \/ clocks' + ToRise' = clocks + 8
      <4>1. spi_write' /\ ToRise = 0
        BY <2>1, <1>4
      <4>2. clocks + 0 + 8 = clocks + 8
        BY <1>2 DEF SdNums
      <4>3. \/ clocks' = ClocksNeeded
            \/ clocks' + ToRise' = clocks + 0 + 8
        BY <3>1, <4>1, <1>1, Zenon DEF ClocksStep
      <4>4. QED
        BY <4>2, <4>3
    <3>3. ASSUME clocks' # ClocksNeeded
          PROVE  clocks' + ToRise' + 8 * (step' - 1) >= 8 * (InitBytes - 1)
      <4>1. clocks + 0 + 8 * (step - 1) >= 8 * (InitBytes - 1)
        BY <3>3, <1>1, <1>2, <1>4 DEF ClocksInv, ClocksStep
      <4>2. step \in Nat /\ clocks \in Nat /\ step' = step - 1
        BY <2>1, <1>2, <1>4 DEF SdNums
      <4>3. clocks' + ToRise' = clocks + 8 /\ clocks' \in Int /\ ToRise' \in Int
        BY <3>2, <3>3, <1>1 DEF ClocksStep
      <4>4. QED
        <5>1. \A c, d, t, n, k \in Int :
                c + 0 + 8 * (n - 1) >= 8 * (k - 1) /\ d + t = c + 8
                  => d + t + 8 * ((n - 1) - 1) >= 8 * (k - 1)
          OBVIOUS
        <5>2. clocks \in Int /\ clocks' \in Int /\ ToRise' \in Int /\ step \in Int /\ InitBytes \in Int
          BY <4>2, <4>3, LeadingBytes
        <5>3. QED
          BY <5>1, <5>2, <4>1, <4>2, <4>3, Zenon
    <3>4. O_cs_n' /\ sd_state' = "init_card" /\ step' >= 1
      BY <2>1, <1>2, <1>4 DEF SdNums
    <3>5. QED
      BY <3>1, <3>3, <3>4 DEF ClocksInv
  <2>2. CASE step <= 1
    <3>1. clocks = ClocksNeeded
      <4>1. CASE step = 1
        <5>1. clocks = ClocksNeeded \/ clocks + 0 + 8 * (1 - 1) >= 8 * (InitBytes - 1)
          BY <4>1, <1>2, <1>4 DEF ClocksInv
        <5>2. QED
          BY <5>1, <1>2, CountAssumption DEF SdNums, ClocksNeeded
      <4>2. CASE step = 0
        BY <4>2, <1>2, <1>4 DEF ClocksInv, SelectInv
      <4>3. QED
        BY <4>1, <4>2, <2>2, <1>2 DEF SdNums
    <3>2. QED
      BY <3>1, <1>1 DEF ClocksInv, ClocksStep
  <2>3. QED
    BY <2>1, <2>2, <1>2 DEF SdNums
<1>9. QED
  BY <1>1, <1>5, <1>6, <1>7, <1>8 DEF SdInv

\* The command goes out byte by byte.
LEMMA SdSendCmd ==
  ASSUME SdInv, ClockEdge, SendCmd
  PROVE  SdInv'
<1>1. SpiInv' /\ ToldBytes' /\ ToldStep /\ ClocksStep
  BY EdgeFacts
<1>2. SpiInv /\ SdNums /\ SelectInv /\ ToldInv /\ ClocksInv
  BY DEF SdInv
<1>3. SpiEdge(spi_write, spi_read, spi_send)
  BY DEF ClockEdge
<1>4. /\ sd_state = "send_cmd" /\ ~spi_write /\ state = "idle"
      /\ UNCHANGED <<retry_count, dummy_send, O_cs_n>>
      /\ \/ /\ step < 6 /\ step' = step + 1 /\ spi_write'
            /\ spi_send' = CMD0[step + 1] /\ sd_state' = "send_cmd"
         \/ /\ step >= 6 /\ step' = 0 /\ ~spi_write'
            /\ sd_state' = "cmd0_sent"
  BY <1>2 DEF SendCmd, Quiet, Send, SendNone, SpiInv, SpiControl, SdNums
<1>5. SdNums'
  BY <1>1, <1>2, <1>4, LeadingBytes, CountAssumption DEF SdNums, ToldStep, ClocksStep
<1>6. SelectInv'
  BY <1>2, <1>3, <1>4, MasterRests DEF SelectInv, SdNums
<1>7. ToldInv'
  BY <1>1, <1>2, <1>3, <1>4, MasterRests, CountAssumption
     DEF ToldInv, ToldStep, SdNums, SelectInv, Pending
<1>8. ClocksInv'
  BY <1>1, <1>2, <1>4, CountAssumption
     DEF ClocksInv, ToldStep, ClocksStep, SelectInv, SdNums, ClocksNeeded
<1>9. QED
  BY <1>1, <1>5, <1>6, <1>7, <1>8 DEF SdInv

\* The card is polled until it answers or the polls are used up.
LEMMA SdPolls ==
  ASSUME SdInv, ClockEdge, Cmd0Sent \/ Cmd0Dummy
  PROVE  SdInv'
<1>1. SpiInv' /\ ToldBytes' /\ ToldStep /\ ClocksStep
  BY EdgeFacts
<1>2. SpiInv /\ SdNums /\ SelectInv /\ ToldInv /\ ClocksInv
  BY DEF SdInv
<1>3. SpiEdge(spi_write, spi_read, spi_send)
  BY DEF ClockEdge
<1>4. /\ sd_state \in {"cmd0_sent", "cmd0_dummy"} /\ ~spi_write /\ state = "idle"
      /\ UNCHANGED <<step, retry_count, O_cs_n>> /\ dummy_send' \in 0..Polls
      /\ \/ /\ sd_state = "cmd0_sent" /\ sd_state' = "cmd0_dummy" /\ dummy_send' = Polls
            /\ spi_write' /\ spi_send' = FF
         \/ /\ sd_state = "cmd0_dummy" /\ sd_state' = "idle" /\ ~spi_write'
            /\ spi_receive = R1_IDLE
         \/ sd_state = "cmd0_dummy" /\ sd_state' = "retry_init" /\ ~spi_write'
         \/ /\ sd_state = "cmd0_dummy" /\ sd_state' = "cmd0_dummy" /\ spi_write'
            /\ spi_send' = FF /\ dummy_send # 0 /\ dummy_send' = dummy_send - 1
  BY <1>2, CountAssumption DEF Cmd0Sent, Cmd0Dummy, Answered, Accepted, GivesUp, Quiet,
       Send, SendNone, SpiInv, SpiControl, SdNums
<1>5. SdNums'
  BY <1>1, <1>2, <1>4, LeadingBytes, CountAssumption DEF SdNums, ToldStep, ClocksStep
<1>6. SelectInv'
  BY <1>2, <1>3, <1>4, MasterRests DEF SelectInv, SdNums
<1>7. ToldInv'
  <2>1. told' = told
    BY <1>1, <1>2, <1>4 DEF ToldStep, SelectInv
  <2>2. CASE sd_state = "cmd0_sent"
    <3>1. Len(told) = 6 /\ sd_state' = "cmd0_dummy" /\ dummy_send' = Polls /\ Pending' = 1
      BY <2>2, <1>2, <1>4 DEF ToldInv, Pending
    <3>2. QED
      <4>1. Len(told') = 6 /\ Len(told') + Pending' = 7 + (Polls - dummy_send')
            /\ Len(told') <= 6 + Polls + 1
        <5>1. 6 + 1 = 7 + (Polls - Polls) /\ 6 <= 6 + Polls + 1
          BY CountAssumption
        <5>2. QED
          BY <5>1, <3>1, <2>1, Zenon
      <4>2. spi_send' = FF /\ ~(Len(told') < 6)
        BY <4>1, <2>2, <1>4
      <4>3. QED
        BY <3>1, <4>1, <4>2 DEF ToldInv
  <2>3. CASE sd_state = "cmd0_dummy"
    <3>1. Len(told) = 7 + (Polls - dummy_send) /\ Len(told) > 6
      BY <2>3, <1>2, <1>4, CountAssumption DEF ToldInv, Pending, SdNums
    <3>2. sd_state' = "idle" => spi_receive' = R1_IDLE
      BY <2>3, <1>3, <1>4, MasterRests
    <3>3. QED
      BY <3>1, <3>2, <2>1, <2>3, <1>1, <1>2, <1>4, CountAssumption
         DEF ToldInv, ToldStep, Pending, SdNums
  <2>4. QED
    BY <2>2, <2>3, <1>4
<1>8. ClocksInv'
  BY <1>1, <1>2, <1>4, CountAssumption
     DEF ClocksInv, ToldStep, ClocksStep, SelectInv, SdNums, ClocksNeeded
<1>9. QED
  BY <1>1, <1>5, <1>6, <1>7, <1>8 DEF SdInv

\* I_cmd_init starts over wherever the controller and the master are: rises of
\* a byte still under way come on top of those of the leading bytes.
LEMMA SdCommanded ==
  ASSUME SdInv, CmdInit
  PROVE  SdInv'
<1>1. step \in Nat /\ SdNext /\ SpiInv /\ dummy_send \in 0..Polls
  BY DEF SdInv, SdNums, SdNext
<1>2. SpiInv'
  BY <1>1, ControllerRequests, SpiEdgeInv
<1>3. /\ ~spi_write' /\ O_cs_n' /\ retry_count' = 0 /\ sd_state' = "init_card"
      /\ step' = InitBytes /\ clocks' = 0 /\ told' = <<>> /\ UNCHANGED dummy_send
  BY DEF CmdInit, Deselect
<1>4. SdNums'
  BY <1>1, <1>3, LeadingBytes, CountAssumption DEF SdNums, ClocksNeeded
<1>5. SelectInv'
  BY <1>3, LeadingBytes DEF SelectInv
<1>6. ToldBytes' /\ Len(told') = 0
  BY <1>3 DEF ToldBytes
<1>7. ToldInv'
  BY <1>3, <1>6, LeadingBytes, CountAssumption DEF ToldInv
<1>8. ToRise' \in Nat
  <2>1. \A n \in 1..15 : 8 - ((n + 1) \div 2) \in Nat
    OBVIOUS
  <2>2. state' = "write" => spi_step' \in 1..15
    BY <1>2 DEF SpiInv, SpiControl
  <2>3. ToRise' = IF state' = "idle" THEN 0
                  ELSE 8 - (IF state' = "write" THEN (spi_step' + 1) \div 2 ELSE 0)
    BY <1>3 DEF ToRise, Rises
  <2>4. QED
    BY <2>1, <2>2, <2>3
<1>9. ClocksInv'
  <2>1. \A t \in Nat : 0 + t + 8 * (InitBytes - 1) >= 8 * (InitBytes - 1)
    BY LeadingBytes
  <2>2. step' >= 1 /\ clocks' + ToRise' + 8 * (step' - 1) >= 8 * (InitBytes - 1)
    <3>1. InitBytes >= 1
      BY LeadingBytes
    <3>2. QED
      BY <3>1, <2>1, <1>3, <1>8, Zenon
  <2>3. QED
    BY <2>2, <1>3 DEF ClocksInv
<1>10. QED
  BY <1>2, <1>4, <1>5, <1>6, <1>7, <1>9 DEF SdInv

\* The controller starts in its invariant, and every step keeps it.
LEMMA SdInvInit == SdInit => SdInv
<1>1. SUFFICES ASSUME SdInit PROVE SdInv
  OBVIOUS
<1>2. SpiNums
  BY <1>1, ByteValues, SpeedAssumption, AnswersAssumption DEF SdInit, SpiInit, SpiNums
<1>3. SpiControl /\ InFlight /\ BytesExchanged
  BY <1>1 DEF SdInit, SpiInit, SpiControl, InFlight, BytesExchanged
<1>4. told = <<>> /\ Len(told) = 0 /\ told \in Seq(Bytes)
  BY <1>1 DEF SdInit
<1>5. SdNums
  BY <1>1, <1>4, LeadingBytes, CountAssumption DEF SdInit, SdNums, ClocksNeeded
<1>6. SelectInv /\ ToldBytes /\ ToldInv /\ ClocksInv
  BY <1>1, <1>4, CountAssumption DEF SdInit, SelectInv, ToldBytes, ToldInv, ClocksInv
<1>7. QED
  BY <1>2, <1>3, <1>5, <1>6 DEF SdInv, SpiInv

\* Every clock edge keeps the invariant.
LEMMA SdInvStep == SdInv /\ [SdNext]_sdVars => SdInv'
<1>1. SUFFICES ASSUME SdInv, [SdNext]_sdVars PROVE SdInv'
  OBVIOUS
<1>2. CASE ClockEdge
  BY <1>1, <1>2, SdRests, SdWaits, SdInitCard, SdSendCmd, SdPolls DEF ClockEdge, Work
<1>3. CASE CmdInit
  BY <1>1, <1>3, SdCommanded
<1>4. CASE UNCHANGED sdVars
  <2>1. UNCHANGED <<state, spi_step, counter, buf_out, buf_in, O_mosi, O_sck,
                    spi_busy, spi_data_ready, spi_receive, answer, heard, gave,
                    sd_state, step, retry_count, dummy_send, spi_write, spi_send,
                    O_cs_n, clocks, told>>
    BY <1>4 DEF sdVars, spiVars, sdRegs
  <2>2. SpiNums' /\ SpiControl' /\ InFlight' /\ BytesExchanged'
    BY <1>1, <2>1 DEF SdInv, SpiInv, SpiNums, SpiControl, InFlight, BytesExchanged, Rises, Falls
  <2>3. SdNums' /\ SelectInv'
    BY <1>1, <2>1 DEF SdInv, SdNums, SelectInv
  <2>4. ToldBytes' /\ ToldInv'
    BY <1>1, <2>1 DEF SdInv, ToldBytes, ToldInv, Pending
  <2>5. ClocksInv'
    BY <1>1, <2>1 DEF SdInv, ClocksInv, ToRise, Rises
  <2>6. QED
    BY <2>2, <2>3, <2>4, <2>5 DEF SdInv, SpiInv
<1>5. QED
  BY <1>1, <1>2, <1>3, <1>4 DEF SdNext

----------------------------------------------------------------------------
(* Theorems *)

\* The controller stays within its invariant.
LEMMA SdInvAlways == SdSpec => []SdInv
BY SdInvInit, SdInvStep, PTL DEF SdSpec

\* A card is selected, and told anything, only after the 74 clocks it needs
\* after power-up, whenever I_cmd_init comes and however often it is retried:
\* for every clock divider and every number of leading bytes that suffices.
THEOREM PowerUpClocksThm == SdSpec => []PowerUpClocks
<1>1. SdInv => PowerUpClocks
  BY DEF SdInv, ClocksInv, PowerUpClocks
<1>2. QED
  BY <1>1, SdInvAlways, PTL

\* The selected card is told CMD0 and polls and nothing else, whatever it
\* answers, and it is taken as idle only for an answer to the whole command.
THEOREM CardHearsCommandThm == SdSpec => []CardHearsCommand
<1>1. SdInv => CardHearsCommand
  <2>1. SUFFICES ASSUME SdInv PROVE CardHearsCommand
    OBVIOUS
  <2>2. DOMAIN told = 1..Len(told)
    BY <2>1 DEF SdInv, SdNums
  <2>3. QED
    BY <2>1, <2>2 DEF SdInv, ToldBytes, ToldInv, CardHearsCommand, IsPoll
<1>2. QED
  BY <1>1, SdInvAlways, PTL

\* Whenever a byte is ready, master and card have each other's byte, bit for
\* bit, for every clock divider and every byte.
THEOREM BytesExchangedThm == SdSpec => []BytesExchanged
<1>1. SdInv => BytesExchanged
  BY DEF SdInv, SpiInv
<1>2. QED
  BY <1>1, SdInvAlways, PTL

\* The card is never selected or deselected in the middle of a byte, unless by
\* a new command.
THEOREM SelectSteadyThm == SdSpec => SelectSteady
<1>1. SdInv /\ [SdNext]_sdVars
        => [O_cs_n' # O_cs_n => state = "idle" \/ commanded']_sdVars
  <2>1. SUFFICES ASSUME SdInv, SdNext, O_cs_n' # O_cs_n, ~commanded'
                 PROVE  state = "idle"
    OBVIOUS
  <2>2. ClockEdge
    BY <2>1 DEF SdNext, CmdInit
  <2>3. CASE Uninit
    BY <2>1, <2>3 DEF Uninit, Deselect, SdInv, SelectInv
  <2>4. CASE IdleCard
    BY <2>1, <2>4 DEF IdleCard, SdInv, SelectInv
  <2>5. CASE RetryInit
    BY <2>1, <2>5 DEF RetryInit, SdInv, SelectInv
  <2>6. CASE InitCard
    BY <2>1, <2>6 DEF InitCard, Quiet, SdInv, SpiInv, SpiControl
  <2>7. CASE SendCmd \/ Cmd0Sent \/ Cmd0Dummy \/ WaitForSpi
    BY <2>1, <2>7 DEF SendCmd, Cmd0Sent, Cmd0Dummy, WaitForSpi, Wait
  <2>8. QED
    BY <2>2, <2>3, <2>4, <2>5, <2>6, <2>7 DEF ClockEdge, Work
<1>2. QED
  BY <1>1, SdInvAlways, PTL DEF SdSpec, SelectSteady

SdFlags ==
  /\ spi_busy \in BOOLEAN /\ spi_data_ready \in BOOLEAN
  /\ spi_write \in BOOLEAN /\ spi_read \in BOOLEAN /\ O_cs_n \in BOOLEAN
  /\ O_data_ready \in BOOLEAN /\ commanded \in BOOLEAN

\* Flags stay flags.
LEMMA SdFlagsStep == SdFlags /\ [SdNext]_sdVars => SdFlags'
<1>1. SUFFICES ASSUME SdFlags, [SdNext]_sdVars PROVE SdFlags'
  OBVIOUS
<1>2. CASE UNCHANGED sdVars
  BY <1>1, <1>2, Zenon DEF sdVars, spiVars, sdRegs, SdFlags
<1>3. CASE SdNext
  <2>1. SpiEdge(spi_write, spi_read, spi_send)
    BY <1>3 DEF SdNext, ClockEdge, CmdInit
  <2>2. spi_data_ready' \in BOOLEAN
    BY <2>1, Zenon DEF SpiEdge
  <2>3. spi_busy' \in BOOLEAN
    BY <1>1, <2>1, Zenon DEF SdFlags, SpiEdge, Idle, Accept, StayIdle, PreStart,
                            Start, HalfBit, Toggle
  <2>4. commanded' \in BOOLEAN
    BY <1>3, Zenon DEF SdNext, ClockEdge, CmdInit
  <2>5. O_data_ready' \in BOOLEAN
    <3>1. O_data_ready' \in {TRUE, FALSE, O_data_ready}
      BY <1>3, Zenon DEF SdNext, ClockEdge, CmdInit
    <3>2. QED
      BY <3>1, <1>1, Zenon DEF SdFlags
  <2>6. /\ spi_write' \in {TRUE, FALSE} /\ spi_read' \in {TRUE, FALSE}
        /\ O_cs_n' \in {TRUE, FALSE, O_cs_n}
    <3>1. CASE CmdInit
      BY <3>1, Zenon DEF CmdInit, Deselect
    <3>2. CASE Uninit \/ IdleCard \/ RetryInit
      BY <3>2, Zenon DEF Uninit, IdleCard, RetryInit, Deselect, SendNone
    <3>3. CASE InitCard
      BY <3>3, Zenon DEF InitCard, Deselect, Send, SendNone
    <3>4. CASE SendCmd
      BY <3>4, Zenon DEF SendCmd, Send, SendNone
    <3>5. CASE Cmd0Sent
      BY <3>5, Zenon DEF Cmd0Sent, Send
    <3>6. CASE Cmd0Dummy
      BY <3>6, Zenon DEF Cmd0Dummy, Send, SendNone
    <3>7. CASE WaitForSpi
      BY <3>7, Zenon DEF WaitForSpi, Wait, SendNone
    <3>8. QED
      BY <1>3, <3>1, <3>2, <3>3, <3>4, <3>5, <3>6, <3>7 DEF SdNext, ClockEdge, Work
  <2>7. spi_write' \in BOOLEAN /\ spi_read' \in BOOLEAN /\ O_cs_n' \in BOOLEAN
    BY <2>6, <1>1, Zenon DEF SdFlags
  <2>8. QED
    BY <2>2, <2>3, <2>4, <2>5, <2>7 DEF SdFlags
<1>4. QED
  BY <1>1, <1>2, <1>3

\* Types of master and controller; the card is told at most the six bytes of
\* the command and one byte more than there are polls left to count.
THEOREM SdTypeOKThm == SdSpec => []SdTypeOK
<1>1. SdInit => SdFlags
  BY Zenon DEF SdInit, SpiInit, SdFlags
<1>2. SdInv /\ SdFlags => SdTypeOK
  <2>1. SUFFICES ASSUME SdInv, SdFlags PROVE SdTypeOK
    OBVIOUS
  <2>2. Len(answer) <= 8
    <3>1. answer \in Bytes
      BY <2>1 DEF SdInv, SpiInv, SpiNums
    <3>2. Len(answer) = 8 /\ 8 <= 8
      BY <3>1, ByteLength
    <3>3. QED
      BY <3>2, Zenon
  <2>3. {buf_out, buf_in, spi_receive, heard, gave} \subseteq Bytes
    BY <2>1 DEF SdInv, SpiInv, SpiNums
  <2>4. {O_mosi, O_sck} \subseteq {0, 1}
    BY <2>1 DEF SdInv, SpiInv, SpiNums
  <2>5. spi_busy \in BOOLEAN /\ spi_data_ready \in BOOLEAN
    BY <2>1 DEF SdFlags
  <2>6. SpiTypeOK
    BY <2>1, <2>2, <2>3, <2>4, <2>5 DEF SpiTypeOK, SdInv, SpiInv, SpiNums
  <2>7. {spi_write, spi_read, O_cs_n, O_data_ready, commanded} \subseteq BOOLEAN
    BY <2>1, Zenon DEF SdFlags
  <2>8. Len(told) <= 6 + Polls + 1 /\ spi_send \in Bytes
    BY <2>1 DEF SdInv, ToldInv, SpiInv, SpiNums
  <2>9. QED
    BY <2>1, <2>6, <2>7, <2>8 DEF SdTypeOK, SdInv, SdNums
<1>3. QED
  BY <1>1, <1>2, SdFlagsStep, SdInvAlways, PTL DEF SdSpec
=============================================================================
