----------------------------- MODULE AsyncFifo -----------------------------
(***************************************************************************)
(* The dual-clock FIFO async_fifo.v between the system clock, where words  *)
(* are written, and the pixel clock, where display.v reads them.           *)
(*                                                                         *)
(* An action is a clock edge.  The two clocks have no common phase: their  *)
(* edges come in any order or together, and a synchroniser that samples a  *)
(* pointer in the very moment it changes takes the old or the new value of *)
(* each of its bits.  Pointers wrap at 2 * Depth.                          *)
(*                                                                         *)
(* `raster` is what the FIFO sees of the display's beam: "top" from the    *)
(* system reset to the first O_sync, "sync" while O_sync, once a frame,    *)
(* holds the FIFO in reset, "porch" until the next pixel clock, and "draw" *)
(* for the lines that may read.                                            *)
(***************************************************************************)
EXTENDS Integers

CONSTANTS
    PointerWidth,  \* POINTER_WIDTH
    Depth,         \* DEPTH
    Gray(_),       \* the code a pointer crosses the clock boundary in
    Binary(_),     \* the conversion back
    Word,          \* what is written
    Junk,          \* what a memory word or the output holds at power-up
    Obedient       \* the producer heeds O_write_full

Bits     == 0..PointerWidth
Codes    == [Bits -> {0, 1}]
Pointers == 0..(2 * Depth - 1)
Slots    == 0..(Depth - 1)

SuccUnwrapped(p) == p + 1  \* mutant: the pointer is too wide
Succ(p)     == IF p = 2 * Depth - 1 THEN 0 ELSE p + 1
Opposite(p) == IF p < Depth THEN p + Depth ELSE p - Depth
Slot(p)     == IF p < Depth THEN p ELSE p - Depth
Distance(p, q) == IF p >= q THEN p - q ELSE p - q + 2 * Depth

\* {~ptr[POINTER_WIDTH:POINTER_WIDTH-1], ptr[POINTER_WIDTH-2:0]}
InvertTop(g) ==
    [i \in Bits |-> IF i >= PointerWidth - 1 THEN 1 - g[i] ELSE g[i]]

ZeroCode == [i \in Bits |-> 0]

\* What a register can catch of a code that changes while it is sampled.
Sample(old, new) == {g \in Codes : \A i \in Bits : g[i] \in {old[i], new[i]}}

ASSUME DepthAssumption ==
    PointerWidth \in Nat /\ Depth \in Nat \ {0, 1} /\ Obedient \in BOOLEAN
ASSUME WordAssumption == Junk \notin Word

\* What the FIFO needs of the code: it can be converted back, inverting its
\* two top bits moves it by Depth, and one bit changes from code to code.
ASSUME GrayAssumption ==
    /\ Gray(0) = ZeroCode
    /\ \A p \in Pointers :
         /\ Gray(p) \in Codes
         /\ Binary(Gray(p)) = p
         /\ InvertTop(Gray(p)) = Gray(Opposite(p))
         /\ Sample(Gray(p), Gray(Succ(p))) = {Gray(p), Gray(Succ(p))}

VARIABLES
    \* in the write clock's domain; I_write_data is the last word offered
    I_write_data, write_bin, write_ptr, write_full, O_write_full,
    write_read_ptr, write_read_ptr1, write_read_bin, mem,
    \* in the read clock's domain
    read_bin, read_ptr, O_read_empty, read_write_ptr, read_write_ptr1,
    O_read_data,
    \* in the display
    O_read, raster

writePointers == <<write_bin, write_ptr, write_full, O_write_full,
                   write_read_ptr, write_read_ptr1>>
writeVars == <<writePointers, write_read_bin, mem, I_write_data>>
readPointers == <<read_bin, read_ptr, O_read_empty, read_write_ptr,
                  read_write_ptr1>>
displayVars == <<O_read, raster>>
fifoVars == <<writeVars, readPointers, O_read_data, displayVars>>

FifoTypeOK ==
    /\ I_write_data \in Word
    /\ write_bin \in Pointers /\ write_ptr \in Codes
    /\ write_full \in BOOLEAN /\ O_write_full \in BOOLEAN
    /\ write_read_ptr \in Codes /\ write_read_ptr1 \in Codes
    /\ write_read_bin \in Pointers
    /\ mem \in [Slots -> Word \cup {Junk}]
    /\ read_bin \in Pointers /\ read_ptr \in Codes
    /\ O_read_empty \in BOOLEAN
    /\ read_write_ptr \in Codes /\ read_write_ptr1 \in Codes
    /\ O_read_data \in Word \cup {Junk}
    /\ O_read \in BOOLEAN
    /\ raster \in {"top", "sync", "porch", "draw"}

FifoInit ==
    /\ I_write_data \in Word
    /\ write_bin = 0 /\ write_ptr = ZeroCode
    /\ write_full = FALSE /\ O_write_full = FALSE
    /\ write_read_ptr = ZeroCode /\ write_read_ptr1 = ZeroCode
    /\ write_read_bin = 0
    /\ mem = [s \in Slots |-> Junk]
    /\ read_bin = 0 /\ read_ptr = ZeroCode
    /\ O_read_empty = FALSE
    /\ read_write_ptr = ZeroCode /\ read_write_ptr1 = ZeroCode
    /\ O_read_data = Junk
    /\ O_read = FALSE /\ raster = "top"

----------------------------------------------------------------------------
(* The write clock *)

write_bin_next(I_cmd_write) ==
    IF I_cmd_write /\ ~write_full THEN Succ(write_bin) ELSE write_bin

write_full_val(next) == Gray(next) = InvertTop(write_read_ptr)

NbForgetsReader == Slot(write_bin)  \* mutant: the read pointer is not subtracted

\* POINTER_WIDTH bits: the occupancy of a FIFO with Depth words reads as 0.
nb_data_val == Slot(Distance(write_bin, write_read_bin))

NearlyFullLate == nb_data_val >= Depth - 1  \* mutant: one word too late

\* The two words of margin cover the late copy of the read pointer and flag.
nearly_full == nb_data_val >= Depth - 2

WriteEdge(I_cmd_write, word, sampled) ==
    LET next == write_bin_next(I_cmd_write)
        full == write_full_val(next)
    IN  /\ write_bin' = next
        /\ write_ptr' = Gray(next)
        /\ write_read_ptr' = write_read_ptr1
        /\ write_read_ptr1' = sampled
        /\ write_read_bin' = Binary(write_read_ptr)
        /\ write_full' = full
        /\ O_write_full' = nearly_full
        /\ mem' = IF I_cmd_write /\ ~full
                     THEN [mem EXCEPT ![Slot(write_bin)] = word] ELSE mem
        /\ I_write_data' = IF I_cmd_write THEN word ELSE I_write_data

\* The producer: nothing in the SoC drives display_write yet.
MayWrite == IF Obedient /\ O_write_full THEN {FALSE} ELSE BOOLEAN

----------------------------------------------------------------------------
(* The read clock *)

read_bin_next ==
    IF O_read /\ ~O_read_empty THEN Succ(read_bin) ELSE read_bin

EmptyBeforeRead == Gray(read_bin) = read_write_ptr  \* mutant: this read not counted

EmptyIgnoresWrapBit ==  \* mutant: the pointers' top bit is not compared
    \A i \in Bits \ {PointerWidth} :
      Gray(read_bin_next)[i] = read_write_ptr[i]

read_empty_val == Gray(read_bin_next) = read_write_ptr

ReadEdge(data, sampled) ==
    /\ read_bin' = read_bin_next
    /\ read_ptr' = Gray(read_bin_next)
    /\ read_write_ptr' = read_write_ptr1
    /\ read_write_ptr1' = sampled
    /\ O_read_empty' = read_empty_val
    /\ O_read_data' = IF O_read THEN data ELSE O_read_data

\* display.v asks for a word every eight pixels of a picture line, unless the
\* FIFO is empty.  O_read is high for one clock.
DisplayEdge ==
    /\ O_read' \in IF raster = "draw" /\ ~O_read /\ ~O_read_empty
                    THEN BOOLEAN ELSE {FALSE}
    /\ raster' = IF raster = "porch" THEN "draw" ELSE raster

----------------------------------------------------------------------------
(* Clock edges and resets *)

WriteClock ==
    /\ raster # "sync"
    /\ \E I_cmd_write \in MayWrite, word \in Word :
         WriteEdge(I_cmd_write, word, read_ptr)
    /\ UNCHANGED <<readPointers, O_read_data, displayVars>>

ReadClock ==
    /\ raster # "sync"
    /\ ReadEdge(mem[Slot(read_bin)], write_ptr)
    /\ DisplayEdge
    /\ UNCHANGED writeVars

\* Both edges at once: pointers are caught changing, and a word that is read
\* and written at once has no value.
BothClocks ==
    /\ raster # "sync"
    /\ \E I_cmd_write \in MayWrite, word \in Word :
         LET next == write_bin_next(I_cmd_write)
             collision == /\ I_cmd_write /\ ~write_full_val(next)
                          /\ Slot(write_bin) = Slot(read_bin)
             data == IF collision THEN Junk ELSE mem[Slot(read_bin)]
         IN  /\ \E r \in Sample(read_ptr, Gray(read_bin_next)) :
                  WriteEdge(I_cmd_write, word, r)
             /\ \E w \in Sample(write_ptr, Gray(next)) : ReadEdge(data, w)
    /\ DisplayEdge

\* The asynchronous reset of both sides; some registers have none.
ResetFifo ==
    /\ write_bin' = 0 /\ write_ptr' = ZeroCode
    /\ write_full' = FALSE /\ O_write_full' = FALSE
    /\ write_read_ptr' = ZeroCode /\ write_read_ptr1' = ZeroCode
    /\ read_bin' = 0 /\ read_ptr' = ZeroCode
    /\ O_read_empty' = FALSE
    /\ read_write_ptr' = ZeroCode /\ read_write_ptr1' = ZeroCode
    /\ UNCHANGED <<write_read_bin, mem, I_write_data, O_read_data>>

\* O_sync rises at the top of a frame, and falls 128 pixels later.
EnterSync ==
    /\ raster \in {"top", "draw"} /\ ~O_read
    /\ ResetFifo
    /\ raster' = "sync"
    /\ UNCHANGED O_read

LeaveSync ==
    /\ raster = "sync"
    /\ raster' = "porch"
    /\ UNCHANGED <<writeVars, readPointers, O_read_data, O_read>>

\* I_rst takes the beam to the top of a frame; O_read has no reset.
SystemReset ==
    /\ ResetFifo
    /\ raster' = "top"
    /\ UNCHANGED O_read

FifoNext ==
    WriteClock \/ ReadClock \/ BothClocks \/ EnterSync \/ LeaveSync \/ SystemReset

FifoSpec == FifoInit /\ [][FifoNext]_fifoVars

\* Both clocks run.
FairFifoSpec ==
    /\ FifoSpec
    /\ WF_fifoVars(WriteClock \/ BothClocks)
    /\ WF_fifoVars(ReadClock \/ BothClocks)

----------------------------------------------------------------------------
(* Safety *)

Occupancy == Distance(write_bin, read_bin)

\* A word is never read from the memory in the clock edge that writes it, nor
\* from a slot that holds none: O_read, decided a clock earlier on the
\* registered O_read_empty (display.v, lines 97-100), is still justified when
\* the FIFO acts on it.
ReadsSettledWord ==
    raster # "top" /\ O_read => ~O_read_empty /\ Occupancy \in 1..(Depth - 1)

\* What the FIFO holds, the oldest word first, once a frame has begun.
Ahead(p, n) == IF p + n < 2 * Depth THEN p + n ELSE p + n - 2 * Depth
Window(m, p, n) == [i \in 1..n |-> m[Slot(Ahead(p, i - 1))]]
Held == IF raster = "top" THEN <<>> ELSE Window(mem, read_bin, Occupancy)

\* A producer that heeds O_write_full and the display see a queue of
\* Depth - 1 words, whatever the clocks do.
Words ==
    INSTANCE WordQueue WITH
      Capacity <- Depth - 1,
      Output   <- Word \cup {Junk},
      in       <- I_write_data,
      waiting  <- Held,
      out      <- IF raster = "top" THEN Junk ELSE O_read_data
KeepsWords == Words!QueueSpec

----------------------------------------------------------------------------
(* Liveness *)

\* A word that was written is offered to the display, in the same frame.
WordsArrive ==
    (raster = "draw" /\ Occupancy # 0) ~> (raster # "draw" \/ ~O_read_empty)

\* A producer is not held off for ever when there is room, though the
\* occupancy is computed from a late copy of the read pointer, in a register
\* that no reset clears (write_read_bin).
FullClears == (O_write_full /\ Occupancy < Depth - 2) ~> ~O_write_full
=============================================================================
